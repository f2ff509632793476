-------------------------------- MODULE POP3GetAll --------------------------------
(***************************************************************************)
(* getAllMail and getAllMailAndDelete of the mail module, on the POP3      *)
(* client below them: the reader of responses, which may arrive cut at any *)
(* byte, the states of the client, and the chain of callbacks that sends   *)
(* the next command.                                                       *)
(*                                                                         *)
(* Bytes are abstracted to the pieces that the reader tells apart: "+OK"   *)
(* (with what follows it on its line), "-ERR", a dot, CR, LF and any other *)
(* text.  External: the socket, which keeps the order of the bytes and may *)
(* be closed; the event loop behind wait() and exitWait(), which survives  *)
(* an exception of a callback; and the server, which answers commands in   *)
(* order, may refuse each, and deletes the marked messages at a QUIT.      *)
(***************************************************************************)
EXTENDS CRLFLines

CONSTANTS Mailboxes,       \* mailboxes: sequences of messages, a message
                           \* being the lines of its response, stuffed
          MayDelete        \* the values of doMarkForDeletion

VARIABLES
  mailbox, doMarkForDeletion,  \* what the session is about; constant
  state,               \* of the client: where it is between its callbacks
  command, number,     \* whose response is read, and i: the current message
  isMultiLineResponse, isOkResponse, isLinePending, responseLines,  \* the reader
  allMails, status,    \* what getAll returns
  requests,            \* commands on their way to the server
  wire,                \* bytes on their way to the client
  marked, deleted,     \* the server's marks and deletions
  closed,              \* the connection has been lost
  mishaps              \* history: what cut or refused responses there were

readerVars == <<isMultiLineResponse, isOkResponse, isLinePending, responseLines>>
clientVars == <<state, command, number, readerVars, allMails, status>>
serverVars == <<marked, deleted>>
vars == <<mailbox, doMarkForDeletion, clientVars, requests, wire, serverVars, closed, mishaps>>

Bytes == {"+OK", "-ERR", ".", "CR", "LF", "text"}
Commands == {"greeting", "USER", "PASS", "STAT", "RETR", "DELE", "QUIT"}
States == {"CONNECTING", "READING", "IDLE", "CONNECTION_BROKEN", "exiting", "returned"}
Mishaps == {"first", "last", "dot", "lineEnd", "twoDots", "refused"}
Messages == 1..Len(mailbox)
Numbers == Messages \cup {1}

\* A line has no line end inside, and dots are stuffed: no line is a single dot,
\* which stands for the end of a message.
ASSUME MailboxesAssumption ==
  /\ MayDelete \subseteq BOOLEAN
  /\ \A box \in Mailboxes :
       /\ box \in Seq(Seq(Seq(Bytes \ {"LF"})))
       /\ \A m \in 1..Len(box) : \A k \in 1..Len(box[m]) : box[m][k] # <<".">>

TypeOK ==
  /\ mailbox \in Mailboxes /\ doMarkForDeletion \in MayDelete
  /\ state \in States
  /\ command \in Commands /\ number \in Numbers
  /\ isMultiLineResponse \in BOOLEAN /\ isLinePending \in BOOLEAN
  /\ isOkResponse \in {"unknown", "ok", "error"}
  /\ responseLines \in Seq(Seq(Bytes))
  /\ allMails \in Seq(Seq(Seq(Bytes))) /\ status \in BOOLEAN
  /\ requests \in Seq(Commands \X Numbers)
  /\ wire \in Seq(Bytes)
  /\ marked \subseteq Messages /\ deleted \subseteq Messages
  /\ closed \in BOOLEAN
  /\ mishaps \subseteq Mishaps

Init ==
  /\ mailbox \in Mailboxes /\ doMarkForDeletion \in MayDelete
  /\ state = "CONNECTING" /\ command = "greeting" /\ number = 1
  /\ isMultiLineResponse = FALSE /\ isOkResponse = "unknown"
  /\ isLinePending = FALSE /\ responseLines = <<>>
  /\ allMails = <<>> /\ status = FALSE
  /\ requests = <<>> /\ wire = <<>>
  /\ marked = {} /\ deleted = {} /\ closed = FALSE /\ mishaps = {}

-----------------------------------------------------------------------------
(* The bytes of a response.                                                 *)

Positive == << <<"+OK">> >>
Negative == << <<"-ERR">> >>
Retrieved(message) == Positive \o mailbox[message] \o << <<".">> >>

-----------------------------------------------------------------------------
(* readData.                                                                *)

\* Seeded fault: dots stay stuffed.
UnstuffedNever(lines) == lines

\* A line that is two dots stands for one dot.
Unstuffed(lines) ==
  [k \in 1..Len(lines) |-> IF lines[k] = <<".", ".">> THEN <<".">> ELSE lines[k]]

\* The lines read before, continued by those of the chunk that have ended.
LinesWith(lines) ==
  IF isLinePending
  THEN Append(Front(responseLines), Last(responseLines) \o lines[1])
         \o Unstuffed(SubSeq(lines, 2, Len(lines) - 1))
  ELSE responseLines \o Unstuffed(SubSeq(lines, 1, Len(lines) - 1))

\* Too many lines for a response of one line: the result is negative.
HasTooManyLines(lines) == ~isMultiLineResponse /\ Len(lines) > 2

\* No line is there yet to tell +OK from -ERR: responseLines[0] is undefined,
\* and the callback throws.
Throws(lines) == isOkResponse = "unknown" /\ Len(lines) = 1

Verdict(read) ==
  IF isOkResponse # "unknown" THEN isOkResponse
  ELSE IF read[1] # <<>> /\ Head(read[1]) = "+OK" THEN "ok" ELSE "error"

\* An error response has one line.
StillMultiLine(read) == isMultiLineResponse /\ (isOkResponse # "unknown" \/ Verdict(read) = "ok")

\* Seeded fault: the dot is looked for in the first line of the chunk.
IsCompleteByFirstLine(lines, read) ==
  /\ Last(lines) = <<>>
  /\ StillMultiLine(read) => Head(lines) = <<".">>

\* The response is complete: the chunk ends with a line end, and with a line
\* that is a dot when there are many lines.
IsComplete(lines, read) ==
  /\ Last(lines) = <<>>
  /\ StillMultiLine(read) => lines[Len(lines) - 1] = <<".">>

-----------------------------------------------------------------------------
(* The commands of getAll.                                                  *)

\* Seeded fault: the response to RETR is read as one line.
SendForOneLine(name, message) ==
  /\ state' = "READING" /\ command' = name /\ number' = message
  /\ isMultiLineResponse' = FALSE
  /\ isOkResponse' = "unknown" /\ isLinePending' = FALSE /\ responseLines' = <<>>
  /\ requests' = Append(requests, <<name, message>>)

\* sendCommand: the reader starts again and the command is on its way.
Send(name, message) ==
  /\ state' = "READING" /\ command' = name /\ number' = message
  /\ isMultiLineResponse' = (name = "RETR")
  /\ isOkResponse' = "unknown" /\ isLinePending' = FALSE /\ responseLines' = <<>>
  /\ requests' = Append(requests, <<name, message>>)

\* exit() of getAll: the wait ends; the client stays as it is.
Exit ==
  /\ state' = "exiting"
  /\ UNCHANGED <<command, number, readerVars, requests>>

\* Seeded faults: one message too many, or too few.
NextMessageForEver == Send("RETR", number + 1)
NextMessageTooFew ==
  IF number + 1 >= Len(mailbox) THEN Send("QUIT", number) ELSE Send("RETR", number + 1)

\* After the last message of the STAT response comes QUIT, and before it the
\* next message.  The number of messages is a string: an empty mailbox has
\* "0", which is true, and its first message is asked for.
NextMessage ==
  IF number = Len(mailbox) THEN Send("QUIT", number) ELSE Send("RETR", number + 1)

\* Seeded fault: the answer to DELE is not looked at.
CallbackIgnoresMark(isOk, response) ==
  \/ /\ (~isOk /\ command # "DELE") \/ command = "QUIT"
     /\ status' = (command = "QUIT" /\ isOk)
     /\ Exit /\ UNCHANGED allMails
  \/ /\ isOk /\ command \in {"greeting", "USER", "PASS", "STAT"}
     /\ CASE command = "greeting" -> Send("USER", number)
          [] command = "USER"     -> Send("PASS", number)
          [] command = "PASS"     -> Send("STAT", number)
          [] command = "STAT"     -> Send("RETR", 1)
     /\ UNCHANGED <<allMails, status>>
  \/ /\ isOk /\ command = "RETR"
     /\ allMails' = Append(allMails, response)
     /\ IF doMarkForDeletion THEN Send("DELE", number) ELSE NextMessage
     /\ UNCHANGED status
  \/ /\ command = "DELE"
     /\ NextMessage
     /\ UNCHANGED <<allMails, status>>

\* Seeded fault: an error is followed by a QUIT.
CallbackQuits(isOk, response) ==
  \/ /\ command = "QUIT"
     /\ status' = isOk
     /\ Exit /\ UNCHANGED allMails
  \/ /\ ~isOk /\ command # "QUIT"
     /\ Send("QUIT", number) /\ UNCHANGED <<allMails, status>>
  \/ /\ isOk /\ command \in {"greeting", "USER", "PASS", "STAT"}
     /\ CASE command = "greeting" -> Send("USER", number)
          [] command = "USER"     -> Send("PASS", number)
          [] command = "PASS"     -> Send("STAT", number)
          [] command = "STAT"     -> Send("RETR", 1)
     /\ UNCHANGED <<allMails, status>>
  \/ /\ isOk /\ command = "RETR"
     /\ allMails' = Append(allMails, response)
     /\ IF doMarkForDeletion THEN Send("DELE", number) ELSE NextMessage
     /\ UNCHANGED status
  \/ /\ isOk /\ command = "DELE"
     /\ NextMessage
     /\ UNCHANGED <<allMails, status>>

\* The callbacks, from authentificationState to quittingState.
Callback(isOk, response) ==
  \/ /\ ~isOk \/ command = "QUIT"
     /\ status' = (command = "QUIT" /\ isOk)
     /\ Exit /\ UNCHANGED allMails
  \/ /\ isOk /\ command \in {"greeting", "USER", "PASS", "STAT"}
     /\ CASE command = "greeting" -> Send("USER", number)
          [] command = "USER"     -> Send("PASS", number)
          [] command = "PASS"     -> Send("STAT", number)
          [] command = "STAT"     -> Send("RETR", 1)
     /\ UNCHANGED <<allMails, status>>
  \/ /\ isOk /\ command = "RETR"
     /\ allMails' = Append(allMails, response)
     /\ IF doMarkForDeletion THEN Send("DELE", number) ELSE NextMessage
     /\ UNCHANGED status
  \/ /\ isOk /\ command = "DELE"
     /\ NextMessage
     /\ UNCHANGED <<allMails, status>>

-----------------------------------------------------------------------------
(* The client's events.                                                     *)

\* The connection is made; the server greets.
Connect ==
  /\ state = "CONNECTING" /\ ~closed
  /\ state' = "READING"
  /\ \/ wire' = Join(Positive) /\ UNCHANGED mishaps
     \/ wire' = Join(Negative) /\ mishaps' = mishaps \cup {"refused"}
  /\ UNCHANGED <<mailbox, doMarkForDeletion, command, number, readerVars, allMails, status,
                 requests, serverVars, closed>>

\* Where a chunk must not end: before the line that says +OK has ended, inside
\* the end of the last line or at the dot of a response, and before the last dot
\* of a line of text; nor inside another line end, which is then read as a part of
\* the line, nor before the end of a line of two dots, which then stays two dots.
Tears(bytes, rest) ==
  (IF isOkResponse = "unknown" /\ Len(Split(bytes)) = 1 THEN {"first"} ELSE {})
  \cup (IF rest \in {<<"LF">>, CRLF, <<"LF", ".", "CR", "LF">>} THEN {"last"} ELSE {})
  \cup (IF Len(rest) > 3 /\ IsPrefix(<<".">> \o CRLF, rest) /\ Last(bytes) # "LF"
        THEN {"dot"} ELSE {})
  \cup (IF Head(bytes) = "LF" THEN {"lineEnd"} ELSE {})
  \cup (IF /\ isLinePending /\ Len(Split(bytes)) > 1
           /\ Last(responseLines) \o Split(bytes)[1] = <<".", ".">>
        THEN {"twoDots"} ELSE {})

\* readCallback: a chunk of any length arrives while a response is expected.
Receive ==
  \E length \in 1..Len(wire) :
    LET bytes == SubSeq(wire, 1, length)
        rest  == SubSeq(wire, length + 1, Len(wire))
        lines == Split(bytes)
        read  == LinesWith(lines)
    IN /\ state = "READING" /\ ~closed
       /\ wire' = rest
       /\ mishaps' = mishaps \cup Tears(bytes, rest)
       /\ \/ /\ HasTooManyLines(lines)
             /\ Callback(FALSE, <<>>)
          \/ /\ ~HasTooManyLines(lines) /\ Throws(lines)
             /\ UNCHANGED <<clientVars, requests>>
          \/ /\ ~HasTooManyLines(lines) /\ ~Throws(lines)
             /\ IsComplete(lines, read)
             /\ Callback(Verdict(read) = "ok", read)
          \/ /\ ~HasTooManyLines(lines) /\ ~Throws(lines)
             /\ ~IsComplete(lines, read)
             /\ isOkResponse' = Verdict(read)
             /\ isMultiLineResponse' = StillMultiLine(read)
             /\ isLinePending' = (Last(lines) # <<>>)
             /\ responseLines' = IF Last(lines) = <<>> \/ (isLinePending /\ Len(lines) = 1)
                                 THEN read ELSE Append(read, Last(lines))
             /\ UNCHANGED <<state, command, number, allMails, status, requests>>
       /\ UNCHANGED <<mailbox, doMarkForDeletion, serverVars, closed>>

\* closeCallback: nobody is told.
Close ==
  /\ ~closed /\ state # "returned"
  /\ closed' = TRUE
  /\ state' = IF state \in {"CONNECTING", "exiting"} THEN state ELSE "CONNECTION_BROKEN"
  /\ UNCHANGED <<mailbox, doMarkForDeletion, command, number, readerVars, allMails, status,
                 requests, wire, serverVars, mishaps>>

\* The wait is over: forceClose, and getAll returns status.
Return ==
  /\ state = "exiting"
  /\ state' = "returned"
  /\ UNCHANGED <<mailbox, doMarkForDeletion, command, number, readerVars, allMails, status,
                 requests, wire, serverVars, closed, mishaps>>

-----------------------------------------------------------------------------
(* The server (external).                                                   *)

\* It answers the next command, also after the client has closed.
Answer ==
  /\ requests # <<>>
  /\ requests' = Tail(requests)
  /\ LET name == Head(requests)[1]
         message == Head(requests)[2]
         possible == name \in {"RETR", "DELE"} => message \in Messages
     IN \/ /\ wire' = wire \o Join(Negative)
           /\ deleted' \in IF name = "QUIT" THEN SUBSET marked ELSE {deleted}
           /\ mishaps' = IF possible THEN mishaps \cup {"refused"} ELSE mishaps
           /\ UNCHANGED marked
        \/ /\ possible /\ UNCHANGED mishaps
           /\ wire' = wire \o Join(IF name = "RETR" THEN Retrieved(message) ELSE Positive)
           /\ marked' = IF name = "DELE" THEN marked \cup {message} ELSE marked
           /\ deleted' = IF name = "QUIT" THEN marked ELSE deleted
  /\ UNCHANGED <<mailbox, doMarkForDeletion, clientVars, closed>>

Next == Connect \/ Receive \/ Close \/ Return \/ Answer

\* The connection is made, the bytes arrive, the server answers.
Fairness == WF_vars(Connect) /\ WF_vars(Receive) /\ WF_vars(Return) /\ WF_vars(Answer)

Spec == Init /\ [][Next]_vars /\ Fairness

-----------------------------------------------------------------------------
(* Properties.                                                              *)

\* The text of a response is the one the server sent for the message, from its
\* beginning to its end, when a line that is a dot counts for the two dots sent.
Stuffed(lines) ==
  [k \in 1..Len(lines) |->
     IF lines[k] = <<".">> /\ k < Len(lines) THEN <<".", ".">> ELSE lines[k]]
IsRead(message) ==
  /\ message \in 1..Len(allMails)
  /\ Join(Stuffed(allMails[message])) = Join(Retrieved(message))

\* What the caller is to get for a message: the lines of its response, one by one,
\* a line of two dots being the one dot that it stands for.
Content(message) ==
  [k \in 1..Len(Retrieved(message)) |->
     IF Retrieved(message)[k] = <<".", ".">> THEN <<".">> ELSE Retrieved(message)[k]]

\* The rest of a message that was taken to end too early is read as the answer to
\* the next command, and a line of it can look like the server's yes.
SaysYes(lines) == \E k \in 1..Len(lines) : \E i \in 1..Len(lines[k]) : lines[k][i] = "+OK"
Deceived == "dot" \in mishaps /\ \E m \in Messages : SaysYes(mailbox[m])

\* "This function returns true if successful": every message of the mailbox has been
\* read, from its beginning to its end and in its order, and all are deleted if they
\* were to be, and none if not; however the responses were cut, unless the first line
\* of one was, or a message was taken for an answer.  The lines are those that were
\* sent, and a line of two dots is the one dot it stands for.  "You don't have to worry
\* about byte-stuffing (single dot on a line)" does not hold of every cut: a chunk that
\* ends inside a line of two dots leaves them two (a line that was pending is not looked
\* at again), and one that ends inside a line end leaves that in the line.
TrueMeansAll ==
  state = "returned" /\ status /\ "first" \notin mishaps /\ ~Deceived =>
    /\ Len(allMails) = Len(mailbox) /\ \A message \in Messages : IsRead(message)
    /\ mishaps \cap {"lineEnd", "twoDots"} = {} =>
         \A message \in Messages : allMails[message] = Content(message)
    /\ deleted = IF doMarkForDeletion THEN Messages ELSE {}

\* A message that is deleted has been read to its end: a message that was taken
\* to end too early, at a line that was cut before its last dot, is not.
NothingIsLost ==
  "first" \notin mishaps /\ ~Deceived => \A message \in deleted : IsRead(message)

\* "If not, [...] all messages are left on server (not deleted)" does not hold of every
\* cut: messages are deleted at QUIT, whose answer, when its first line is cut, is read
\* as an error.  What holds is that messages are deleted only when all are marked, and
\* that when some are and getAll does not return true, an answer was cut so or the
\* server failed; unless a message was taken for an answer.
LeftOnServer ==
  deleted # {} /\ ~Deceived =>
    /\ marked = Messages
    /\ state = "returned" /\ ~status => mishaps \cap {"refused", "first"} # {}

\* getAll fails for a reason: the server refused, a response was cut badly, or
\* the mailbox was empty.
FailureHasAReason ==
  state = "returned" /\ ~status =>
    mishaps \cap {"first", "last", "dot", "refused"} # {} \/ mailbox = <<>>

\* getAll returns, unless the connection is lost, a response is cut inside its last
\* line end or at its last dot, or a message was taken for an answer; then it waits
\* for ever.
GetAllReturns ==
  <>(state = "returned" \/ closed \/ "last" \in mishaps \/ Deceived)
================================================================================

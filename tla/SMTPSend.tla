--------------------------------- MODULE SMTPSend ---------------------------------
(***************************************************************************)
(* send() of the SMTP module: the reader of three-digit replies, which may *)
(* arrive cut at any byte, the state of the client, and the chain of       *)
(* callbacks that connects, authenticates, names the recipients, sends the *)
(* content and quits.                                                      *)
(*                                                                         *)
(* Bytes are abstracted to the pieces that the reader tells apart: a code, *)
(* which is its first digit, the "-" or " " behind it, CR, LF and text.    *)
(* External: the socket, which keeps the order of the bytes and may be     *)
(* closed; the event loop behind wait() and exitWait(), which survives an  *)
(* exception of a callback; and the server, which answers commands in      *)
(* order, may refuse each, and may announce once that it shuts down.       *)
(***************************************************************************)
EXTENDS CRLFLines

CONSTANTS Recipients,      \* the numbers of recipients a mail may have
          Replies          \* the replies of the server, by their first digit

ASSUME RecipientsAssumption == Recipients \subseteq Nat

VARIABLES
  recipients,          \* sendRecipients.length; constant
  state,               \* of the client: where it is between its callbacks
  command, index,      \* whose reply is read, and sendRecipientsIndex
  lines, isLinePending,  \* the reader
  status,              \* what send returns
  requests,            \* commands on their way to the server
  wire,                \* bytes on their way to the client
  granted,             \* the server: the commands it has said yes to
  closed,              \* the connection has been lost
  mishaps              \* history: cuts, refusals and the shutdown

readerVars == <<lines, isLinePending>>
clientVars == <<state, command, index, readerVars, status>>
vars == <<recipients, clientVars, requests, wire, granted, closed, mishaps>>

Codes == {"2", "3", "4", "5"}
Bytes == Codes \cup {"-", " ", "CR", "LF", "text"}
Commands == {"greeting", "hello", "HELO", "AUTH LOGIN", "user", "password",
             "MAIL", "RCPT", "DATA", "content", "QUIT"}
States == {"CONNECTING", "READING", "IDLE", "CONNECTION_BROKEN", "exiting", "returned"}

\* Without recipients, the one that is named is undefined, whatever its index.
Indices == 1..(IF recipients = 0 THEN 1 ELSE recipients)
NextIndex == IF recipients = 0 THEN 1 ELSE index + 1

TypeOK ==
  /\ recipients \in Recipients
  /\ state \in States
  /\ command \in Commands /\ index \in Indices
  /\ lines \in Seq(Seq(Bytes)) /\ isLinePending \in BOOLEAN
  /\ status \in BOOLEAN
  /\ requests \in Seq(Commands \X Indices)
  /\ wire \in Seq(Bytes)
  /\ granted \subseteq Commands \X Indices
  /\ closed \in BOOLEAN
  /\ mishaps \subseteq {"cr", "fresh", "refused", "unsent", "down"}

Init ==
  /\ recipients \in Recipients
  /\ state = "CONNECTING" /\ command = "greeting" /\ index = 1
  /\ lines = <<>> /\ isLinePending = TRUE
  /\ status = FALSE
  /\ requests = <<>> /\ wire = <<>>
  /\ granted = {} /\ closed = FALSE /\ mishaps = {}

-----------------------------------------------------------------------------
(* readData.                                                                *)

HasCode(line) == Len(line) >= 2 /\ line[1] \in Codes /\ line[2] \in {"-", " "}
IsLastLine(line) == line[2] = " "

\* Every line of a reply has its code, and the last one is told by the space.
ASSUME RepliesAssumption ==
  \A code \in Codes : \A reply \in Replies[code] :
    /\ reply \in Seq(Seq(Bytes \ {"LF"})) /\ reply # <<>>
    /\ \A k \in 1..Len(reply) :
         HasCode(reply[k]) /\ reply[k][1] = code /\ (IsLastLine(reply[k]) <=> k = Len(reply))

\* The pending line goes on with the first piece of the chunk.
Continued(array) ==
  IF isLinePending
  THEN IF lines = <<>> THEN <<Head(array)>> ELSE Append(Front(lines), Last(lines) \o Head(array))
  ELSE lines

\* The lines that begin and end in the chunk.
NewLines(array) == SubSeq(array, IF isLinePending THEN 2 ELSE 1, Len(array) - 1)

\* Line k of the chunk's new lines is not a line of this reply, or comes after
\* its last one.  The line that was pending is not tested so.
IsInvalid(array, k) == ~HasCode(NewLines(array)[k])
IsMismatch(array, k) ==
  ~IsInvalid(array, k) /\ NewLines(array)[k][1] # Last(Continued(array))[1]
IsEarly(array, k) == IsLastLine(NewLines(array)[k]) /\ k # Len(NewLines(array))
IsWrong(array, k) == IsInvalid(array, k) \/ IsMismatch(array, k) \/ IsEarly(array, k)

\* The first wrong line of the chunk, or 0.
FirstWrong(array) ==
  LET wrong == {k \in 1..Len(NewLines(array)) : IsWrong(array, k)}
  IN IF wrong = {} THEN 0 ELSE CHOOSE k \in wrong : \A j \in wrong : k <= j

\* Both ends of a line are there: it can be looked at.
HasLine(array) == ~isLinePending \/ Len(array) > 1

\* The reply is refused: -3 or -5.
Fails(array) ==
  /\ HasLine(array)
  /\ HasCode(Last(Continued(array))) =>
       FirstWrong(array) # 0 /\ ~IsMismatch(array, FirstWrong(array))

\* A reply with two codes is no error but one that goes on: the constant that is
\* returned for it, CODE_DONT_MATCH, is not defined.
Mismatches(array) == HasLine(array) /\ ~Fails(array) /\ FirstWrong(array) # 0

\* All lines read so far.  An unfinished line is kept when an ended one precedes
\* it in the chunk; a chunk that is nothing but the beginning of a line is lost.
LinesWith(array) ==
  IF Mismatches(array)
  THEN Continued(array) \o SubSeq(NewLines(array), 1, FirstWrong(array))
  ELSE Continued(array) \o NewLines(array)
         \o (IF Len(array) > 1 /\ Last(array) # <<>> THEN <<Last(array)>> ELSE <<>>)

StillPending(array) ==
  IF Len(array) = 1 THEN isLinePending ELSE ~Mismatches(array) /\ Last(array) # <<>>

\* The chunk ends where a line ends, and that line is a last one.
IsComplete(array) ==
  /\ HasLine(array) /\ ~Fails(array) /\ ~Mismatches(array)
  /\ ~(Len(array) > 1 /\ Last(array) # <<>>)
  /\ IsLastLine(Last(LinesWith(array)))

-----------------------------------------------------------------------------
(* The commands and their callbacks.                                        *)

\* sendCommand: the reader starts again and the command is on its way.  The
\* content is sent together with its terminator.
Send(name, i) ==
  /\ state' = "READING" /\ command' = name /\ index' = i
  /\ lines' = <<>> /\ isLinePending' = TRUE
  /\ requests' = Append(requests, <<name, i>>)

\* No command follows; only exit() ends the wait.
Ends(how) ==
  /\ state' = how
  /\ UNCHANGED <<command, index, readerVars, requests>>

\* connect(): EHLO or HELO, as the greeting says, and HELO when it is refused.
Connected(code) ==
  \/ /\ command = "greeting" /\ code = "2" /\ Send("hello", index)
  \/ /\ command = "greeting" /\ code # "2" /\ Ends("exiting")
  \/ /\ command = "hello" /\ code # "2" /\ Send("HELO", index)
  \/ /\ command \in {"hello", "HELO"} /\ code = "2" /\ Send("AUTH LOGIN", index)
  \/ /\ command = "HELO" /\ code # "2" /\ Ends("exiting")

\* Seeded fault: the answer to AUTH LOGIN is expected to be a completion.
AuthenticatesAtOnce(code) ==
  \/ /\ command = "AUTH LOGIN" /\ code = "2" /\ Send("user", index)
  \/ /\ command = "user" /\ code = "3" /\ Send("password", index)
  \/ /\ command = "password" /\ code = "2" /\ Send("MAIL", index)
  \/ /\ code # IF command \in {"password", "AUTH LOGIN"} THEN "2" ELSE "3"
     /\ Ends("exiting")

\* authenticate(): both names are asked for.
Authenticates(code) ==
  \/ /\ command = "AUTH LOGIN" /\ code = "3" /\ Send("user", index)
  \/ /\ command = "user" /\ code = "3" /\ Send("password", index)
  \/ /\ command = "password" /\ code = "2" /\ Send("MAIL", index)
  \/ /\ code # IF command = "password" THEN "2" ELSE "3"
     /\ Ends("exiting")

\* Seeded faults: the index starts one too late, or goes one too far.
AllNamedEarly == index + 1 >= recipients
AllNamedLate == index > recipients

\* The callback of this RCPT is the one that sends DATA: sendRecipientsIndex was
\* the last one.  It never is when there is no recipient.
AllNamed == index = recipients

\* The chain of send() of the SMTP object, up to the content.
Sends(code) ==
  \/ /\ command = "MAIL" /\ code = "2" /\ Send("RCPT", 1)
  \/ /\ command = "RCPT" /\ code = "2" /\ ~AllNamed /\ Send("RCPT", NextIndex)
  \/ /\ command = "RCPT" /\ code = "2" /\ AllNamed /\ Send("DATA", index)
  \/ /\ command = "DATA" /\ code = "3" /\ Send("content", index)
  \/ /\ code # IF command = "DATA" THEN "3" ELSE "2"
     /\ Ends("IDLE")

\* Seeded faults: the mail is taken for sent once it is on its way, and the wait is
\* not left after QUIT.
CallbackIgnoresContent(code) ==
  \/ /\ command \in {"greeting", "hello", "HELO"} /\ Connected(code) /\ UNCHANGED status
  \/ /\ command \in {"AUTH LOGIN", "user", "password"} /\ Authenticates(code) /\ UNCHANGED status
  \/ /\ command \in {"MAIL", "RCPT", "DATA"} /\ Sends(code) /\ UNCHANGED status
  \/ /\ command = "content"
     /\ status' = TRUE /\ Send("QUIT", index)
  \/ command = "QUIT" /\ Ends("exiting") /\ UNCHANGED status
CallbackStays(code) ==
  \/ /\ command \in {"greeting", "hello", "HELO"} /\ Connected(code) /\ UNCHANGED status
  \/ /\ command \in {"AUTH LOGIN", "user", "password"} /\ Authenticates(code) /\ UNCHANGED status
  \/ /\ command \in {"MAIL", "RCPT", "DATA"} /\ Sends(code) /\ UNCHANGED status
  \/ /\ command = "content" /\ status' = (code = "2")
     /\ IF code = "2" THEN Send("QUIT", index) ELSE Ends("IDLE")
  \/ command = "QUIT" /\ Ends("IDLE") /\ UNCHANGED status

\* The callback of the command: a mail that is refused leaves the client idle,
\* and nobody ends the wait.
Callback(code) ==
  \/ /\ command \in {"greeting", "hello", "HELO"} /\ Connected(code) /\ UNCHANGED status
  \/ /\ command \in {"AUTH LOGIN", "user", "password"} /\ Authenticates(code) /\ UNCHANGED status
  \/ /\ command \in {"MAIL", "RCPT", "DATA"} /\ Sends(code) /\ UNCHANGED status
  \/ /\ command = "content" /\ status' = (code = "2")
     /\ IF code = "2" THEN Send("QUIT", index) ELSE Ends("IDLE")
  \/ command = "QUIT" /\ Ends("exiting") /\ UNCHANGED status

-----------------------------------------------------------------------------
(* The client's events.                                                     *)

\* A reply of the server on its way; one that is a refusal is remembered, as
\* "unsent" when it stops a mail that send() has begun.
Replied(name, code) ==
  /\ \E reply \in Replies[code] : wire' = wire \o Join(reply)
  /\ mishaps' = IF code # "5" THEN mishaps
                ELSE mishaps \cup (IF name \in {"MAIL", "RCPT", "DATA", "content"}
                                   THEN {"unsent"} ELSE {"refused"})

\* The connection is made; the server greets.
Connect ==
  /\ state = "CONNECTING" /\ ~closed
  /\ state' = "READING"
  /\ Replied("greeting", "2") \/ Replied("greeting", "5")
  /\ UNCHANGED <<recipients, command, index, readerVars, status, requests, granted, closed>>

\* The chunk ends in a piece of a line that the reader drops: it is nothing else,
\* or a line with another code precedes it.
Drops(array) ==
  \/ ~isLinePending /\ Len(array) = 1
  \/ Len(array) > 1 /\ Mismatches(array) /\ Last(array) # <<>>

\* Where a chunk must not end: between CR and LF, and in a line that is dropped.
Cuts(bytes, rest) ==
  (IF Last(bytes) = "CR" THEN {"cr"} ELSE {})
  \cup (IF Drops(Split(bytes)) THEN {"fresh"} ELSE {})

\* readCallback: a chunk of any length arrives while a reply is expected.  The
\* callback asks a reply that failed for its code, and that throws; the one of
\* QUIT has closed the client before.
Receive ==
  \E length \in 1..Len(wire) :
    LET bytes == SubSeq(wire, 1, length)
        rest  == SubSeq(wire, length + 1, Len(wire))
        array == Split(bytes)
    IN /\ state = "READING" /\ ~closed
       /\ wire' = rest
       /\ mishaps' = mishaps \cup Cuts(bytes, rest)
       /\ \/ /\ Fails(array)
             /\ Ends(IF command = "QUIT" THEN "CONNECTION_BROKEN" ELSE "IDLE")
             /\ UNCHANGED status
          \/ /\ IsComplete(array)
             /\ Callback(Last(LinesWith(array))[1])
          \/ /\ ~Fails(array) /\ ~IsComplete(array)
             /\ lines' = LinesWith(array)
             /\ isLinePending' = StillPending(array)
             /\ UNCHANGED <<state, command, index, status, requests>>
       /\ UNCHANGED <<recipients, granted, closed>>

\* closeCallback: nobody is told.
Close ==
  /\ ~closed /\ state # "returned"
  /\ closed' = TRUE
  /\ state' = IF state \in {"CONNECTING", "exiting"} THEN state ELSE "CONNECTION_BROKEN"
  /\ UNCHANGED <<recipients, command, index, readerVars, status, requests, wire, granted, mishaps>>

\* The wait is over: forceClose, and send returns status.
Return ==
  /\ state = "exiting"
  /\ state' = "returned"
  /\ UNCHANGED <<recipients, command, index, readerVars, status, requests, wire, granted,
                 closed, mishaps>>

-----------------------------------------------------------------------------
(* The server (external).                                                   *)

\* What it says yes with; a recipient must be one of the mail's, since "undefined"
\* is no address, and a content must have been asked for.
Yes(name) == IF name \in {"AUTH LOGIN", "user", "DATA"} THEN "3" ELSE "2"
Grants(name) == \E grant \in granted : grant[1] = name
Possible(name, i) ==
  /\ name = "RCPT" => i <= recipients
  /\ name = "content" => Grants("DATA")

\* It answers the next command, until it shuts down.
Answer ==
  /\ requests # <<>> /\ "down" \notin mishaps
  /\ requests' = Tail(requests)
  /\ LET name == Head(requests)[1]
         i == Head(requests)[2]
     IN \/ Replied(name, "5") /\ UNCHANGED granted
        \/ /\ Possible(name, i)
           /\ Replied(name, Yes(name))
           /\ granted' = granted \cup {Head(requests)}
  /\ UNCHANGED <<recipients, clientVars, closed>>

\* It says that it shuts down, whatever the client is doing.
ShutDown ==
  /\ state # "CONNECTING" /\ "down" \notin mishaps
  /\ \E reply \in Replies["4"] : wire' = wire \o Join(reply)
  /\ mishaps' = mishaps \cup {"down"}
  /\ UNCHANGED <<recipients, clientVars, requests, granted, closed>>

Next == Connect \/ Receive \/ Close \/ Return \/ Answer \/ ShutDown

\* The connection is made, the bytes arrive, the server answers.
Fairness == WF_vars(Connect) /\ WF_vars(Receive) /\ WF_vars(Return) /\ WF_vars(Answer)

Spec == Init /\ [][Next]_vars /\ Fairness

-----------------------------------------------------------------------------
(* Properties.                                                              *)

\* The server has said yes to everything before the content: the sender, every
\* recipient of the mail, and DATA.
EnvelopeGranted ==
  /\ Grants("MAIL") /\ Grants("DATA")
  /\ recipients > 0 /\ \A i \in 1..recipients : <<"RCPT", i>> \in granted

\* The text of a line looks like the beginning of one, and is read as one when the
\* reader has dropped what precedes it.
LooksLikeACode(line) ==
  \E i \in 2..(Len(line) - 1) : line[i] \in Codes /\ line[i + 1] \in {"-", " "}
Lookalikes ==
  \E code \in Codes : \E reply \in Replies[code] : \E k \in 1..Len(reply) : LooksLikeACode(reply[k])
Deceived == "fresh" \in mishaps /\ Lookalikes

\* The content is sent only where the server waits for it, for all recipients,
\* however its replies were cut, unless a text was read as a code.
ContentIsAwaited ==
  ~Deceived => \A k \in 1..Len(requests) : requests[k][1] = "content" => EnvelopeGranted

\* "Synchronous and return true if successful": when send returns, its result
\* says whether the server has taken the mail, unless a text was read as a code;
\* if the server has taken the mail, then the result is true in any case.
StatusIsTrue ==
  state = "returned" => /\ status /\ ~Deceived => Grants("content")
                        /\ Grants("content") => status

\* send returns false for a reason: the server refused the session, or shut down,
\* or a text was read as a code.
FailureHasAReason ==
  state = "returned" /\ ~status => mishaps \cap {"refused", "down"} # {} \/ Deceived

\* send returns, unless the connection is lost, a reply is cut badly, the mail is
\* refused or the server shuts down; then it may wait for ever.
SendReturns ==
  <>(state = "returned" \/ closed \/ mishaps \cap {"cr", "fresh", "unsent", "down"} # {})
================================================================================

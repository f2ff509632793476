----------------------------- MODULE SMTPSendProofs -----------------------------
(***************************************************************************)
(* Proofs about send() of the SMTP module, for every set of recipients and *)
(* every reply that RepliesAssumption allows.                              *)
(*                                                                         *)
(* The argument: the text that the reader has not dealt with, which is the *)
(* line that it has begun and the bytes on their way, says only what the   *)
(* server has said, and nothing but the shutdown behind a last line; a     *)
(* chunk that is cut anywhere keeps that (WireRead), unless a line is      *)
(* dropped whose text looks like a code.  So a callback has a code that    *)
(* the server has said to the command of the callback, or the shutdown,    *)
(* and what the chain asks next has been granted (CallbackChain).          *)
(***************************************************************************)
EXTENDS SMTPSend, CRLFLinesProofs

\* A code is read at p: it has its mark behind it.
Says(text, p) ==
  p \in 1..Len(text) /\ p + 1 \in 1..Len(text) /\ text[p] \in Codes /\ text[p + 1] \in {"-", " "}

\* A line begins there, so that its code is seen.
Visible(text, p) == Says(text, p) /\ (p = 1 \/ text[p - 1] = "LF")

\* Nothing is seen in a text but that the server shuts down.
OnlyShutdown(text) == \A p \in 1..Len(text) : Visible(text, p) => text[p] = "4"

\* What is true of a text in which only some codes are said.
Told(text, codes) ==
  /\ text = <<>> \/ Last(text) = "LF"
  /\ \A p \in 1..Len(text) : Visible(text, p) => text[p] \in codes
  /\ \A p \in 1..Len(text) : \A q \in 1..Len(text) :
       p < q /\ Visible(text, p) /\ text[p + 1] = " " /\ Visible(text, q) => text[q] = "4"
  /\ ~Lookalikes => \A p \in 1..Len(text) : Says(text, p) /\ p # 1 => text[p - 1] = "LF"

\* The line that was begun, and the text that the reader has not dealt with.
Pending == IF isLinePending /\ lines # <<>> THEN Last(lines) ELSE <<>>
Text == Pending \o wire

\* How a refusal of the command is remembered.
Refusal(name) == IF name \in {"MAIL", "RCPT", "DATA", "content"} THEN "unsent" ELSE "refused"

\* The codes that the server may have said and that the client has not read.
Said ==
  {code \in Codes :
     \/ code = "4" /\ "down" \in mishaps
     \/ requests = <<>> /\ code = "5" /\ Refusal(command) \in mishaps
     \/ requests = <<>> /\ code = Yes(command)
        /\ (command = "greeting" \/ <<command, index>> \in granted)}

\* What is true of the reader while it reads: the text that it has not dealt with
\* says these codes only, and so does the last line that it has.
Reading(text, last, codes) ==
  /\ Told(text, codes)
  /\ ~isLinePending /\ HasCode(last) =>
       last[1] \in codes /\ (IsLastLine(last) => OnlyShutdown(text))

\* While a reply is read, that is true of the codes that may have been said.
Wire == state = "READING" => Reading(Text, Last(lines), Said)

\* What the server has granted, by the command whose reply is read: all commands before
\* it; and that command alone is on its way, if any.
Chain ==
  /\ "down" \notin mishaps => requests \in {<<>>, << <<command, index>> >>}
  /\ command \in {"RCPT", "DATA", "content", "QUIT"} => Grants("MAIL")
  /\ command = "RCPT" => \A i \in 1..(index - 1) : <<"RCPT", i>> \in granted
  /\ command \in {"DATA", "content", "QUIT"} =>
       recipients > 0 /\ \A i \in 1..recipients : <<"RCPT", i>> \in granted
  /\ command \in {"content", "QUIT"} => Grants("DATA")
  /\ command = "QUIT" => Grants("content")

\* What is true of a client that was deceived, too.
Control ==
  /\ ~isLinePending => lines # <<>>
  /\ state = "CONNECTING" => /\ command = "greeting" /\ requests = <<>> /\ wire = <<>>
                             /\ lines = <<>> /\ isLinePending /\ mishaps = {}
  /\ \A k \in 1..Len(requests) : requests[k][1] = "content" => command \in {"content", "QUIT"}
  /\ Grants("content") => command \in {"content", "QUIT"}
  /\ status <=> command = "QUIT"
  /\ state \in {"exiting", "returned"} =>
       command \notin {"hello", "MAIL", "RCPT", "DATA", "content"}

\* Who leaves the wait without success has been refused, or left by the server.
Excuse == state \in {"exiting", "returned"} /\ ~status => mishaps \cap {"refused", "down"} # {}

\* The inductive invariant.
IInv ==
  /\ TypeOK
  /\ Control
  /\ ~Deceived => Wire /\ Chain /\ Excuse

\* A text, a line and its end: what the longer text says is what the text says and
\* what the line says.
LEMMA AddedLine ==
  ASSUME NEW text \in Seq(Bytes), text = <<>> \/ Last(text) = "LF",
         NEW line \in Seq(Bytes), \A i \in 1..Len(line) : line[i] # "LF",
         NEW u, IsConcat3(text, line, CRLF, u)
  PROVE  /\ Len(u) = Len(text) + Len(line) + 2 /\ u[Len(u)] = "LF"
         /\ \A p \in 1..Len(u) : Says(u, p) /\ ~Says(text, p) =>
              \E i \in 1..Len(line) : p = Len(text) + i /\ Says(line, i)
         /\ \A p \in 1..Len(u) : Visible(u, p) /\ ~Visible(text, p) =>
              p = Len(text) + 1 /\ 1 \in 1..Len(line)
         /\ \A i \in 1..Len(text) : u[i] = text[i]
         /\ \A i \in 1..Len(line) : u[Len(text) + i] = line[i]
<1>1. PICK a \in Nat, b \in Nat : a = Len(text) /\ b = Len(line)
  OBVIOUS
<1>2. Len(CRLF) = 2 /\ CRLF[1] = "CR" /\ CRLF[2] = "LF"
  BY DEF CRLF
<1>3. 1 \in 1..2 /\ 2 \in 1..2
  OBVIOUS
<1>4. /\ Len(u) = a + b + 2
      /\ \A i \in 1..a : u[i] = text[i]
      /\ \A i \in 1..b : u[a + i] = line[i]
      /\ u[a + b + 1] = "CR" /\ u[a + b + 2] = "LF"
  BY <1>1, <1>2, <1>3 DEF IsConcat3
<1>5. a # 0 => text[a] = "LF"
  BY <1>1, EmptySeq DEF Last
<1>6. ASSUME NEW p \in 1..(a + b + 2), Says(u, p)
      PROVE  \/ p \in 1..a /\ p + 1 \in 1..a /\ Says(text, p)
             \/ \E i \in 1..b : p = a + i /\ Says(line, i)
  <2>1. u[p] \in Codes /\ u[p + 1] \in {"-", " "} /\ p + 1 \in 1..(a + b + 2)
    BY <1>4, <1>6 DEF Says
  <2>2. p # a + b + 1 /\ p # a + b + 2
    BY <1>4, <2>1 DEF Codes
  <2>3. CASE p \in 1..a
    <3>1. p # a
      <4>1. SUFFICES ASSUME p = a
                     PROVE  FALSE
        OBVIOUS
      <4>2. a # 0 /\ a \in 1..a /\ u[a] = text[a]
        BY <1>4, <2>3, <4>1
      <4>3. u[p] = "LF"
        BY <1>5, <4>1, <4>2
      <4>4. QED
        BY <2>1, <4>3 DEF Codes
    <3>2. p + 1 \in 1..a
      BY <2>3, <3>1
    <3>3. QED
      BY <1>1, <1>4, <2>1, <2>3, <3>2 DEF Says
  <2>4. CASE p \notin 1..a
    <3>1. PICK i \in 1..b : p = a + i
      <4>1. p - a \in 1..b /\ p = a + (p - a)
        BY <2>2, <2>4
      <4>2. QED
        BY <4>1
    <3>2. i # b
      BY <1>4, <2>1, <3>1
    <3>3. i + 1 \in 1..b /\ p + 1 = a + (i + 1)
      BY <3>1, <3>2
    <3>4. Says(line, i)
      BY <1>1, <1>4, <2>1, <3>1, <3>3 DEF Says
    <3>5. QED
      BY <3>1, <3>4
  <2>5. QED
    BY <2>3, <2>4
<1>7. ASSUME NEW p \in 1..(a + b + 2), Visible(u, p), ~Visible(text, p)
      PROVE  p = a + 1 /\ 1 \in 1..b
  <2>1. Says(u, p) /\ (p = 1 \/ u[p - 1] = "LF")
    BY <1>7 DEF Visible
  <2>2. CASE p \in 1..a /\ p + 1 \in 1..a /\ Says(text, p)
    <3>1. p # 1 => p - 1 \in 1..a
      BY <2>2
    <3>2. QED
      BY <1>4, <1>7, <2>1, <2>2, <3>1 DEF Visible
  <2>3. CASE \E i \in 1..b : p = a + i /\ Says(line, i)
    <3>1. PICK i \in 1..b : p = a + i
      BY <2>3
    <3>2. i = 1
      <4>1. SUFFICES ASSUME i # 1
                     PROVE  FALSE
        OBVIOUS
      <4>2. i - 1 \in 1..b /\ p - 1 = a + (i - 1) /\ p # 1
        BY <3>1, <4>1
      <4>3. u[p - 1] = line[i - 1]
        BY <1>4, <4>2
      <4>4. QED
        BY <1>1, <2>1, <4>2, <4>3
    <3>3. QED
      BY <3>1, <3>2
  <2>4. QED
    BY <1>6, <2>1, <2>2, <2>3
<1>8. QED
  BY <1>1, <1>4, <1>6, <1>7

\* The end of a line is a text.
LEMMA CRLFType == CRLF \in Seq(Bytes)
<1>1. "CR" \in Bytes /\ "LF" \in Bytes
  BY DEF Bytes
<1>2. CRLF \in Seq(Bytes)
  BY <1>1 DEF CRLF
<1>3. QED
  BY <1>2

\* The text of lines, and of one line more.
LEMMA JoinLine ==
  ASSUME NEW s \in Seq(Seq(Bytes)), NEW line \in Seq(Bytes)
  PROVE  /\ Join(s) \in Seq(Bytes) /\ (Join(s) = <<>> \/ Last(Join(s)) = "LF")
         /\ Join(Append(s, line)) \in Seq(Bytes)
         /\ IsConcat3(Join(s), line, CRLF, Join(Append(s, line)))
<1>1. CRLF \in Seq(Bytes)
  BY CRLFType
<1>2. Join(s) \in Seq(Bytes)
  BY <1>1, JoinType
<1>3. Join(s) = <<>> \/ Last(Join(s)) = "LF"
  BY <1>1, JoinLen, JoinEmpty
<1>4. (Join(s) \o line) \o CRLF \in Seq(Bytes) /\ IsConcat3(Join(s), line, CRLF, (Join(s) \o line) \o CRLF)
  BY <1>1, <1>2, Concat3, Zenon
<1>5. Join(Append(s, line)) = Join(s) \o line \o CRLF
  BY <1>1, JoinAppend
<1>6. QED
  BY <1>2, <1>3, <1>4, <1>5

\* The bytes inside a line.
Inner == Bytes \ {"LF"}

\* A line has the bytes of a text, without an end.
LEMMA InnerLine ==
  ASSUME NEW line \in Seq(Inner)
  PROVE  line \in Seq(Bytes) /\ \A i \in 1..Len(line) : line[i] # "LF"
<1>1. Len(line) \in Nat /\ \A i \in 1..Len(line) : line[i] \in Inner
  BY ElementOfSeq
<1>2. Inner \subseteq Bytes /\ \A e \in Inner : e # "LF"
  BY DEF Inner
<1>3. line \in Seq(Bytes)
  <2>1. \A i \in 1..Len(line) : line[i] \in Bytes
    BY <1>1, <1>2
  <2>2. QED
    BY <2>1, SeqWith
<1>4. QED
  BY <1>1, <1>2, <1>3

\* The lines of a reply are lines of bytes.
LEMMA InnerLines ==
  ASSUME NEW s \in Seq(Seq(Inner))
  PROVE  s \in Seq(Seq(Bytes))
<1>1. \A k \in 1..Len(s) : s[k] \in Seq(Bytes)
  BY InnerLine, ElementOfSeq
<1>2. QED
  BY <1>1, SeqWith

\* Lines that go on with a code say this code and that they go on.
GoesOn(line, code) == HasCode(line) /\ line[1] = code /\ ~IsLastLine(line)
SaysGoingOn(text, code) ==
  \A p \in 1..Len(text) : Visible(text, p) => text[p] = code /\ text[p + 1] # " "

\* Codes are said at the beginning of a line only.
IsPlain(text) == \A p \in 1..Len(text) : Says(text, p) /\ p # 1 => text[p - 1] = "LF"

\* What a line more adds to what is said: its first byte, and that it goes on or not.
MoreSaid(text, line, u) ==
  \A p \in 1..Len(u) : Visible(u, p) =>
    \/ p \in 1..Len(text) /\ Visible(text, p) /\ u[p] = text[p] /\ u[p + 1] = text[p + 1]
    \/ p = Len(text) + 1 /\ u[p] = line[1] /\ u[p + 1] = line[2]

\* It adds no more.
LEMMA SaysMore ==
  ASSUME NEW text \in Seq(Bytes), text = <<>> \/ Last(text) = "LF",
         NEW line \in Seq(Inner), NEW u, IsConcat3(text, line, CRLF, u),
         HasCode(line)
  PROVE  MoreSaid(text, line, u)
<1>1. line \in Seq(Bytes) /\ \A i \in 1..Len(line) : line[i] # "LF"
  BY InnerLine
<1>2. PICK a \in Nat, b \in Nat : a = Len(text) /\ b = Len(line)
  BY <1>1
<1>3. /\ \A p \in 1..Len(u) : Visible(u, p) /\ ~Visible(text, p) =>
              p = a + 1 /\ 1 \in 1..b
      /\ \A i \in 1..a : u[i] = text[i]
      /\ \A i \in 1..b : u[a + i] = line[i]
  BY <1>1, <1>2, AddedLine
<1>4. b >= 2 /\ 1 \in 1..b /\ 2 \in 1..b
  <2>1. b >= 2
    BY <1>2 DEF HasCode
  <2>2. QED
    BY <2>1
<1>5. u[a + 1] = line[1] /\ u[a + 2] = line[2]
  BY <1>3, <1>4
<1>6. SUFFICES ASSUME NEW p \in 1..Len(u), Visible(u, p)
               PROVE  \/ p \in 1..a /\ Visible(text, p) /\ u[p] = text[p] /\ u[p + 1] = text[p + 1]
                      \/ p = a + 1 /\ u[p] = line[1] /\ u[p + 1] = line[2]
  BY <1>2 DEF MoreSaid
<1>7. CASE Visible(text, p)
  <2>1. p \in 1..a /\ p + 1 \in 1..a
    BY <1>2, <1>7 DEF Visible, Says
  <2>2. QED
    BY <1>3, <1>7, <2>1
<1>8. CASE ~Visible(text, p)
  <2>1. p = a + 1
    BY <1>3, <1>6, <1>8
  <2>2. p + 1 = a + 2
    BY <2>1
  <2>3. QED
    BY <1>5, <2>1, <2>2
<1>9. QED
  BY <1>7, <1>8

\* Lines that go on say their code, and that they go on.
LEMMA LinesGoOn ==
  ASSUME NEW code
  PROVE  \A s \in Seq(Seq(Inner)) :
           (\A k \in 1..Len(s) : GoesOn(s[k], code)) => SaysGoingOn(Join(s), code)
<1> DEFINE T == {s \in Seq(Seq(Inner)) :
                   (\A k \in 1..Len(s) : GoesOn(s[k], code)) => SaysGoingOn(Join(s), code)}
<1>1. <<>> \in T
  <2>1. SaysGoingOn(<<>>, code)
    <3>1. Len(<<>>) = 0 /\ 1..0 = {}
      BY EmptySeq
    <3>2. QED
      BY <3>1 DEF SaysGoingOn
  <2>2. QED
    BY <2>1, JoinEmpty
<1>2. ASSUME NEW s \in Seq(Seq(Inner)), NEW e \in Seq(Inner), s \in T PROVE Append(s, e) \in T
  <2> DEFINE more == Append(s, e)
  <2>1. /\ more \in Seq(Seq(Inner)) /\ Len(more) = Len(s) + 1 /\ more[Len(s) + 1] = e
        /\ \A n \in 1..Len(s) : more[n] = s[n]
    BY AppendProperties
  <2>2. SUFFICES ASSUME \A k \in 1..Len(more) : GoesOn(more[k], code)
                 PROVE  SaysGoingOn(Join(more), code)
    BY <2>1
  <2>3. GoesOn(e, code)
    <3>1. Len(s) + 1 \in 1..Len(more)
      BY <2>1
    <3>2. QED
      BY <2>1, <2>2, <3>1
  <2>4. \A k \in 1..Len(s) : GoesOn(s[k], code)
    <3>1. \A k \in 1..Len(s) : k \in 1..Len(more)
      BY <2>1
    <3>2. QED
      BY <2>1, <2>2, <3>1
  <2>5. SaysGoingOn(Join(s), code)
    BY <1>2, <2>4
  <2>6. s \in Seq(Seq(Bytes)) /\ e \in Seq(Bytes)
    BY InnerLines, InnerLine
  <2>7. PICK text \in Seq(Bytes) : text = Join(s)
    BY <2>6, JoinLine
  <2>8. (text = <<>> \/ Last(text) = "LF") /\ IsConcat3(text, e, CRLF, Join(more))
    BY <2>6, <2>7, JoinLine
  <2> HIDE DEF more
  <2>9. HasCode(e) /\ e[1] = code /\ e[2] # " "
    BY <2>3 DEF GoesOn, IsLastLine
  <2>10. \A p \in 1..Len(Join(more)) : Visible(Join(more), p) =>
           \/ /\ p \in 1..Len(text) /\ Visible(text, p) /\ Join(more)[p] = text[p]
              /\ Join(more)[p + 1] = text[p + 1]
           \/ p = Len(text) + 1 /\ Join(more)[p] = e[1] /\ Join(more)[p + 1] = e[2]
    <3>1. PICK u : u = Join(more)
      OBVIOUS
    <3>2. IsConcat3(text, e, CRLF, u)
      BY <2>8, <3>1
    <3>3. MoreSaid(text, e, u)
      BY <2>8, <2>9, <3>2, SaysMore
    <3>4. QED
      BY <3>1, <3>3 DEF MoreSaid
  <2>11. QED
    BY <2>5, <2>7, <2>9, <2>10 DEF SaysGoingOn
<1>3. Seq(Seq(Inner)) \subseteq T
  <2> HIDE DEF T
  <2> QED BY <1>1, <1>2, SeqInduction
<1>4. QED
  BY <1>3

\* A line whose text does not look like a code says one at its beginning only.
LEMMA PlainMore ==
  ASSUME NEW text \in Seq(Bytes), text = <<>> \/ Last(text) = "LF",
         NEW line \in Seq(Inner), NEW u, IsConcat3(text, line, CRLF, u),
         IsPlain(text), ~LooksLikeACode(line)
  PROVE  IsPlain(u)
<1>1. line \in Seq(Bytes) /\ \A i \in 1..Len(line) : line[i] # "LF"
  BY InnerLine
<1>2. PICK a \in Nat, b \in Nat : a = Len(text) /\ b = Len(line)
  BY <1>1
<1>3. /\ \A p \in 1..Len(u) : Says(u, p) /\ ~Says(text, p) =>
           \E i \in 1..b : p = a + i /\ Says(line, i)
      /\ \A i \in 1..a : u[i] = text[i]
  BY <1>1, <1>2, AddedLine
<1>4. a # 0 => text[a] = "LF"
  BY <1>2, EmptySeq DEF Last
<1>5. SUFFICES ASSUME NEW p \in 1..Len(u), Says(u, p), p # 1
               PROVE  u[p - 1] = "LF"
  BY DEF IsPlain
<1>6. CASE Says(text, p)
  <2>1. p \in 1..a
    BY <1>2, <1>6 DEF Says
  <2>2. text[p - 1] = "LF"
    BY <1>2, <1>5, <1>6, <2>1 DEF IsPlain
  <2>3. p - 1 \in 1..a
    BY <1>2, <1>5, <2>1
  <2>4. QED
    BY <1>3, <2>2, <2>3
<1>7. CASE ~Says(text, p)
  <2>1. PICK i \in 1..b : p = a + i /\ Says(line, i)
    BY <1>3, <1>5, <1>7
  <2>2. i = 1
    <3>1. SUFFICES ASSUME i # 1
                   PROVE  FALSE
      OBVIOUS
    <3>2. line[i] \in Codes /\ line[i + 1] \in {"-", " "}
      BY <1>2, <2>1 DEF Says
    <3>3. i \in 2..(b - 1)
      <4>1. i + 1 \in 1..b
        BY <1>2, <2>1 DEF Says
      <4>2. QED
        BY <3>1, <4>1
    <3>4. QED
      BY <1>2, <3>2, <3>3 DEF LooksLikeACode
  <2>3. p - 1 = a /\ a # 0
    BY <1>2, <1>5, <2>1, <2>2
  <2>4. a \in 1..a /\ u[a] = text[a]
    BY <1>2, <1>3, <2>3
  <2>5. QED
    BY <1>4, <2>3, <2>4
<1>8. QED
  BY <1>6, <1>7

\* The same of lines.
LEMMA LinesArePlain ==
  \A s \in Seq(Seq(Inner)) :
    (\A k \in 1..Len(s) : ~LooksLikeACode(s[k])) => IsPlain(Join(s))
<1> DEFINE T == {s \in Seq(Seq(Inner)) :
                   (\A k \in 1..Len(s) : ~LooksLikeACode(s[k])) => IsPlain(Join(s))}
<1>1. <<>> \in T
  <2>1. IsPlain(<<>>)
    <3>1. Len(<<>>) = 0 /\ 1..0 = {}
      BY EmptySeq
    <3>2. QED
      BY <3>1 DEF IsPlain
  <2>2. QED
    BY <2>1, JoinEmpty
<1>2. ASSUME NEW s \in Seq(Seq(Inner)), NEW e \in Seq(Inner), s \in T PROVE Append(s, e) \in T
  <2> DEFINE more == Append(s, e)
  <2>1. /\ more \in Seq(Seq(Inner)) /\ Len(more) = Len(s) + 1 /\ more[Len(s) + 1] = e
        /\ \A n \in 1..Len(s) : more[n] = s[n]
    BY AppendProperties
  <2>2. SUFFICES ASSUME \A k \in 1..Len(more) : ~LooksLikeACode(more[k])
                 PROVE  IsPlain(Join(more))
    BY <2>1
  <2>3. ~LooksLikeACode(e)
    <3>1. Len(s) + 1 \in 1..Len(more)
      BY <2>1
    <3>2. QED
      BY <2>1, <2>2, <3>1
  <2>4. \A k \in 1..Len(s) : ~LooksLikeACode(s[k])
    <3>1. \A k \in 1..Len(s) : k \in 1..Len(more)
      BY <2>1
    <3>2. QED
      BY <2>1, <2>2, <3>1
  <2>5. IsPlain(Join(s))
    BY <1>2, <2>4
  <2>6. s \in Seq(Seq(Bytes)) /\ e \in Seq(Bytes)
    BY InnerLines, InnerLine
  <2>7. PICK text \in Seq(Bytes), u \in Seq(Bytes) : text = Join(s) /\ u = Join(more)
    BY <2>6, JoinLine
  <2>8. (text = <<>> \/ Last(text) = "LF") /\ IsConcat3(text, e, CRLF, u)
    BY <2>6, <2>7, JoinLine
  <2>9. IsPlain(text)
    BY <2>5, <2>7
  <2> HIDE DEF more
  <2>10. IsPlain(u)
    BY <2>3, <2>8, <2>9, PlainMore, ZenonT(40)
  <2>11. QED
    BY <2>7, <2>10
<1>3. Seq(Seq(Inner)) \subseteq T
  <2> HIDE DEF T
  <2> QED BY <1>1, <1>2, SeqInduction
<1>4. QED
  BY <1>3

\* A reply of the server says its code only, and nothing after its last line.
LEMMA ReplyTold ==
  ASSUME NEW code \in Codes, NEW reply \in Replies[code]
  PROVE  /\ Join(reply) \in Seq(Bytes) /\ Join(reply) # <<>>
         /\ Told(Join(reply), {code})
<1>1. /\ reply \in Seq(Seq(Inner)) /\ reply # <<>>
      /\ \A k \in 1..Len(reply) :
           HasCode(reply[k]) /\ reply[k][1] = code /\ (IsLastLine(reply[k]) <=> k = Len(reply))
  BY RepliesAssumption DEF Inner
<1>2. PICK s \in Seq(Seq(Inner)), e \in Seq(Inner), n \in Nat :
        /\ reply = Append(s, e) /\ n = Len(s) /\ Len(reply) = n + 1 /\ reply[n + 1] = e
        /\ \A k \in 1..n : reply[k] = s[k]
  <2>1. /\ Front(reply) \in Seq(Seq(Inner)) /\ Last(reply) \in Seq(Inner)
        /\ reply = Append(Front(reply), Last(reply))
    BY <1>1, FrontLast
  <2>2. PICK s \in Seq(Seq(Inner)), e \in Seq(Inner) : reply = Append(s, e)
    BY <2>1
  <2>3. /\ Len(reply) = Len(s) + 1 /\ reply[Len(s) + 1] = e /\ Len(s) \in Nat
        /\ \A k \in 1..Len(s) : reply[k] = s[k]
    BY <2>2, AppendProperties
  <2>4. QED
    BY <2>2, <2>3
<1>3. /\ s \in Seq(Seq(Bytes)) /\ e \in Seq(Bytes)
  BY InnerLines, InnerLine
<1>4. PICK text \in Seq(Bytes), u \in Seq(Bytes) : text = Join(s) /\ u = Join(reply)
  BY <1>2, <1>3, JoinLine
<1>5. (text = <<>> \/ Last(text) = "LF") /\ IsConcat3(text, e, CRLF, u)
  BY <1>2, <1>3, <1>4, JoinLine
<1>6. n + 1 \in 1..Len(reply) /\ \A k \in 1..n : k \in 1..Len(reply) /\ k # Len(reply)
  BY <1>2
<1>7. HasCode(e) /\ e[1] = code /\ e[2] = " "
  BY <1>1, <1>2, <1>6 DEF IsLastLine
<1>8. SaysGoingOn(text, code)
  <2>1. \A k \in 1..Len(s) : GoesOn(s[k], code)
    BY <1>1, <1>2, <1>6 DEF GoesOn
  <2>2. QED
    BY <1>4, <2>1, LinesGoOn
<1>9. \A p \in 1..Len(u) : Visible(u, p) =>
        \/ p \in 1..Len(text) /\ Visible(text, p) /\ u[p] = text[p] /\ u[p + 1] = text[p + 1]
        \/ p = Len(text) + 1 /\ u[p] = e[1] /\ u[p + 1] = e[2]
  <2>1. MoreSaid(text, e, u)
    BY <1>5, <1>7, SaysMore
  <2>2. QED
    BY <2>1 DEF MoreSaid
<1>10. Len(u) = Len(text) + Len(e) + 2 /\ u[Len(u)] = "LF" /\ Len(e) \in Nat /\ Len(text) \in Nat
  <2>1. \A i \in 1..Len(e) : e[i] # "LF"
    BY InnerLine
  <2>2. QED
    BY <1>3, <1>5, <2>1, AddedLine, LenProperties
<1>11. u # <<>> /\ Last(u) = "LF"
  <2>1. Len(u) # 0
    BY <1>10
  <2>2. QED
    BY <1>10, <2>1, EmptySeq DEF Last
<1>12. \A p \in 1..Len(u) : Visible(u, p) => u[p] \in {code}
  BY <1>7, <1>8, <1>9 DEF SaysGoingOn
<1>13. ASSUME NEW p \in 1..Len(u), NEW q \in 1..Len(u), p < q, Visible(u, p), u[p + 1] = " ",
              Visible(u, q)
       PROVE  FALSE
  <2>1. ~(p \in 1..Len(text) /\ Visible(text, p) /\ u[p] = text[p] /\ u[p + 1] = text[p + 1])
    BY <1>8, <1>13 DEF SaysGoingOn
  <2>2. p = Len(text) + 1
    BY <1>9, <1>13, <2>1
  <2>3. q \in 1..Len(text) \/ q = Len(text) + 1
    BY <1>9, <1>13
  <2>4. QED
    <3>1. PICK a \in Nat : a = Len(text)
      BY <1>10
    <3>2. p = a + 1 /\ (q \in 1..a \/ q = a + 1)
      BY <2>2, <2>3, <3>1
    <3>3. p < q
      BY <1>13
    <3>4. QED
      BY <3>2, <3>3
<1>14. ASSUME ~Lookalikes, NEW p \in 1..Len(u), Says(u, p), p # 1
       PROVE  u[p - 1] = "LF"
  <2>1. \A k \in 1..Len(reply) : ~LooksLikeACode(reply[k])
    BY <1>14 DEF Lookalikes
  <2>2. IsPlain(Join(reply))
    BY <1>1, <2>1, LinesArePlain
  <2>3. QED
    BY <1>4, <1>14, <2>2 DEF IsPlain
<1>15. Told(u, {code})
  BY <1>11, <1>12, <1>13, <1>14 DEF Told
<1>16. QED
  BY <1>4, <1>11, <1>15

\* What is seen in the rest of a text is seen in the text, where the rest begins with
\* a line, or no text looks like a code.
SeenIn(v, t, n) ==
  \A p \in 1..Len(v) : Visible(v, p) =>
    n + p \in 1..Len(t) /\ Visible(t, n + p) /\ t[n + p] = v[p] /\ t[n + p + 1] = v[p + 1]

\* So it is for every rest that begins where a line does.
LEMMA RestSeen ==
  ASSUME NEW u \in Seq(Bytes), NEW v \in Seq(Bytes), NEW t, IsConcat(u, v, t),
         \/ u = <<>> \/ Last(u) = "LF"
         \/ \A p \in 1..Len(t) : Says(t, p) /\ p # 1 => t[p - 1] = "LF"
  PROVE  SeenIn(v, t, Len(u))
<1>1. PICK a \in Nat, b \in Nat : a = Len(u) /\ b = Len(v)
  OBVIOUS
<1>2. /\ Len(t) = a + b
      /\ \A i \in 1..a : t[i] = u[i]
      /\ \A i \in 1..b : t[a + i] = v[i]
  BY <1>1 DEF IsConcat
<1>3. a # 0 /\ Last(u) = "LF" => a \in 1..a /\ t[a] = "LF"
  BY <1>1, <1>2 DEF Last
<1>4. SUFFICES ASSUME NEW p \in 1..b, Visible(v, p)
               PROVE  /\ a + p \in 1..Len(t) /\ Visible(t, a + p)
                      /\ t[a + p] = v[p] /\ t[a + p + 1] = v[p + 1]
  BY <1>1 DEF SeenIn
<1>5. p + 1 \in 1..b
  BY <1>1, <1>4 DEF Visible, Says
<1>6. a + p \in 1..(a + b) /\ (a + p) + 1 \in 1..(a + b) /\ (a + p) + 1 = a + (p + 1)
  BY <1>5
<1>7. t[a + p] = v[p] /\ t[(a + p) + 1] = v[p + 1]
  BY <1>2, <1>5, <1>6
<1>8. Says(t, a + p)
  BY <1>2, <1>4, <1>6, <1>7 DEF Visible, Says
<1>9. ASSUME a + p # 1
      PROVE  t[(a + p) - 1] = "LF"
  <2>1. CASE p # 1
    <3>1. p - 1 \in 1..b /\ (a + p) - 1 = a + (p - 1)
      BY <2>1
    <3>2. v[p - 1] = "LF"
      BY <1>4, <2>1 DEF Visible
    <3>3. QED
      BY <1>2, <3>1, <3>2
  <2>2. CASE p = 1
    <3>1. a # 0 /\ (a + p) - 1 = a
      BY <1>9, <2>2
    <3>2. u # <<>>
      BY <1>1, <3>1, EmptySeq
    <3>3. CASE Last(u) = "LF"
      BY <1>3, <3>1, <3>3
    <3>4. CASE \A q \in 1..Len(t) : Says(t, q) /\ q # 1 => t[q - 1] = "LF"
      BY <1>2, <1>6, <1>8, <1>9, <3>4
    <3>5. QED
      BY <3>2, <3>3, <3>4
  <2>3. QED
    BY <2>1, <2>2
<1>10. Visible(t, a + p)
  BY <1>8, <1>9 DEF Visible
<1>11. QED
  BY <1>2, <1>6, <1>7, <1>10

\* The rest of a text is told as the text is, and after a last line it says only that
\* the server shuts down.
LEMMA RestTold ==
  ASSUME NEW u \in Seq(Bytes), NEW v \in Seq(Bytes), NEW t, IsConcat(u, v, t), NEW S,
         Told(t, S), u = <<>> \/ Last(u) = "LF" \/ ~Lookalikes
  PROVE  /\ Told(v, S)
         /\ OnlyShutdown(t) => OnlyShutdown(v)
         /\ \A p \in 1..Len(u) : Visible(t, p) /\ t[p + 1] = " " => OnlyShutdown(v)
<1>1. PICK a \in Nat, b \in Nat : a = Len(u) /\ b = Len(v)
  OBVIOUS
<1>2. /\ Len(t) = a + b
      /\ \A i \in 1..b : t[a + i] = v[i]
  BY <1>1 DEF IsConcat
<1>3. SeenIn(v, t, a)
  <2>1. \/ u = <<>> \/ Last(u) = "LF"
        \/ \A p \in 1..Len(t) : Says(t, p) /\ p # 1 => t[p - 1] = "LF"
    BY DEF Told
  <2>2. QED
    BY <1>1, <2>1, RestSeen
<1>4. ASSUME NEW p \in 1..b, Visible(v, p)
      PROVE  /\ a + p \in 1..Len(t) /\ Visible(t, a + p)
             /\ t[a + p] = v[p] /\ t[a + p + 1] = v[p + 1]
  BY <1>1, <1>3, <1>4 DEF SeenIn
<1>5. v = <<>> \/ Last(v) = "LF"
  <2>1. CASE b = 0
    BY <1>1, <2>1, EmptySeq
  <2>2. CASE b # 0
    <3>1. b \in 1..b /\ a + b # 0
      BY <2>2
    <3>2. t # <<>>
      BY <1>2, <3>1, EmptySeq
    <3>3. Last(t) = "LF"
      BY <3>2 DEF Told
    <3>4. t[a + b] = "LF" /\ t[a + b] = v[b]
      BY <1>2, <3>1, <3>3 DEF Last
    <3>5. QED
      BY <1>1, <3>4 DEF Last
  <2>3. QED
    BY <2>1, <2>2
<1>6. \A p \in 1..Len(v) : Visible(v, p) => v[p] \in S
  BY <1>1, <1>4 DEF Told
<1>7. ASSUME NEW p \in 1..b, NEW q \in 1..b, p < q, Visible(v, p), v[p + 1] = " ", Visible(v, q)
      PROVE  v[q] = "4"
  <2>1. a + p < a + q
    <3>1. p < q
      BY <1>7
    <3>2. QED
      BY <3>1
  <2>2. /\ a + p \in 1..Len(t) /\ a + q \in 1..Len(t) /\ Visible(t, a + p) /\ Visible(t, a + q)
        /\ t[a + p + 1] = " " /\ t[a + q] = v[q]
    BY <1>4, <1>7
  <2>3. QED
    BY <2>1, <2>2 DEF Told
<1>8. ASSUME ~Lookalikes, NEW p \in 1..b, Says(v, p), p # 1
      PROVE  v[p - 1] = "LF"
  <2>1. p + 1 \in 1..b /\ p - 1 \in 1..b
    <3>1. p + 1 \in 1..b
      BY <1>1, <1>8 DEF Says
    <3>2. p # 1
      BY <1>8
    <3>3. QED
      BY <3>1, <3>2
  <2>2. /\ a + p \in 1..(a + b) /\ (a + p) + 1 \in 1..(a + b) /\ (a + p) + 1 = a + (p + 1)
        /\ (a + p) - 1 = a + (p - 1) /\ a + p # 1
    BY <1>8, <2>1
  <2>3. Says(t, a + p)
    BY <1>2, <1>8, <2>1, <2>2 DEF Says
  <2>4. t[(a + p) - 1] = "LF"
    BY <1>2, <1>8, <2>2, <2>3 DEF Told
  <2>5. QED
    BY <1>2, <2>1, <2>2, <2>4
<1>9. Told(v, S)
  BY <1>1, <1>5, <1>6, <1>7, <1>8 DEF Told
<1>10. OnlyShutdown(t) => OnlyShutdown(v)
  BY <1>1, <1>4 DEF OnlyShutdown
<1>11. ASSUME NEW p \in 1..a, Visible(t, p), t[p + 1] = " "
       PROVE  OnlyShutdown(v)
  <2>1. ASSUME NEW q \in 1..b, Visible(v, q)
        PROVE  v[q] = "4"
    <3>1. p < a + q /\ p \in 1..Len(t)
      BY <1>2
    <3>2. a + q \in 1..Len(t) /\ Visible(t, a + q) /\ t[a + q] = v[q]
      BY <1>4, <2>1
    <3>3. QED
      BY <1>11, <3>1, <3>2 DEF Told
  <2>2. QED
    BY <1>1, <2>1 DEF OnlyShutdown
<1>12. QED
  BY <1>1, <1>9, <1>10, <1>11

\* What is told of some codes is told of more.
LEMMA ToldMore ==
  ASSUME NEW t, NEW S, NEW more, S \subseteq more, Told(t, S)
  PROVE  Told(t, more)
BY DEF Told

\* A reply that arrives behind a text: it adds its code, where it is the one that the
\* server shuts down, or nothing is seen in the text.
LEMMA ReplyAppended ==
  ASSUME NEW t \in Seq(Bytes), NEW r \in Seq(Bytes), NEW u, IsConcat(t, r, u),
         NEW S, NEW code, Told(t, S), Told(r, {code}), r # <<>>,
         code = "4" \/ \A p \in 1..Len(t) : ~Visible(t, p)
  PROVE  /\ Told(u, S \cup {code})
         /\ code = "4" /\ OnlyShutdown(t) => OnlyShutdown(u)
<1>1. PICK a \in Nat, b \in Nat : a = Len(t) /\ b = Len(r)
  OBVIOUS
<1>2. /\ Len(u) = a + b
      /\ \A i \in 1..a : u[i] = t[i]
      /\ \A i \in 1..b : u[a + i] = r[i]
  BY <1>1 DEF IsConcat
<1>3. a # 0 => t[a] = "LF"
  BY <1>1, EmptySeq DEF Told, Last
<1>4. b # 0 /\ b \in 1..b /\ r[b] = "LF"
  <2>1. b # 0
    BY <1>1, EmptySeq
  <2>2. Last(r) = "LF"
    BY DEF Told
  <2>3. r[b] = "LF"
    BY <1>1, <2>2 DEF Last
  <2>4. QED
    BY <2>1, <2>3
<1>5. u # <<>> /\ Last(u) = "LF"
  <2>1. Len(u) # 0
    BY <1>2, <1>4
  <2>2. u[a + b] = "LF"
    BY <1>2, <1>4
  <2>3. QED
    BY <1>2, <2>1, <2>2, EmptySeq DEF Last
<1>6. ASSUME NEW p \in 1..(a + b), Says(u, p)
      PROVE  \/ p \in 1..a /\ Says(t, p) /\ u[p] = t[p] /\ u[p + 1] = t[p + 1]
             \/ \E i \in 1..b : p = a + i /\ Says(r, i) /\ u[p] = r[i] /\ u[p + 1] = r[i + 1]
  <2>1. u[p] \in Codes /\ u[p + 1] \in {"-", " "} /\ p + 1 \in 1..(a + b)
    BY <1>2, <1>6 DEF Says
  <2>2. CASE p \in 1..a
    <3>1. p # a
      <4>1. SUFFICES ASSUME p = a
                     PROVE  FALSE
        OBVIOUS
      <4>2. a # 0 /\ a \in 1..a
        BY <2>2, <4>1
      <4>3. u[p] = "LF"
        BY <1>2, <1>3, <4>1, <4>2
      <4>4. QED
        BY <2>1, <4>3 DEF Codes
    <3>2. p + 1 \in 1..a
      BY <2>2, <3>1
    <3>3. QED
      BY <1>1, <1>2, <2>1, <2>2, <3>2 DEF Says
  <2>3. CASE p \notin 1..a
    <3>1. PICK i \in 1..b : p = a + i
      <4>1. p - a \in 1..b /\ p = a + (p - a)
        BY <2>3
      <4>2. QED
        BY <4>1
    <3>2. i + 1 \in 1..b /\ p + 1 = a + (i + 1)
      <4>1. p + 1 \in 1..(a + b)
        BY <2>1
      <4>2. QED
        BY <3>1, <4>1
    <3>3. u[p] = r[i] /\ u[p + 1] = r[i + 1]
      BY <1>2, <3>1, <3>2
    <3>4. Says(r, i)
      BY <1>1, <2>1, <3>2, <3>3 DEF Says
    <3>5. QED
      BY <3>1, <3>3, <3>4
  <2>4. QED
    BY <2>2, <2>3
<1>7. ASSUME NEW p \in 1..(a + b), Visible(u, p)
      PROVE  \/ p \in 1..a /\ Visible(t, p) /\ u[p] = t[p] /\ u[p + 1] = t[p + 1]
             \/ \E i \in 1..b : p = a + i /\ Visible(r, i) /\ u[p] = r[i] /\ u[p + 1] = r[i + 1]
  <2>1. Says(u, p) /\ (p = 1 \/ u[p - 1] = "LF")
    BY <1>7 DEF Visible
  <2>2. CASE p \in 1..a /\ Says(t, p) /\ u[p] = t[p] /\ u[p + 1] = t[p + 1]
    <3>1. p # 1 => p - 1 \in 1..a
      BY <2>2
    <3>2. Visible(t, p)
      BY <1>2, <2>1, <2>2, <3>1 DEF Visible
    <3>3. QED
      BY <2>2, <3>2
  <2>3. CASE \E i \in 1..b : p = a + i /\ Says(r, i) /\ u[p] = r[i] /\ u[p + 1] = r[i + 1]
    <3>1. PICK i \in 1..b : p = a + i /\ Says(r, i) /\ u[p] = r[i] /\ u[p + 1] = r[i + 1]
      BY <2>3
    <3>2. i # 1 => i - 1 \in 1..b /\ p - 1 = a + (i - 1) /\ p # 1
      BY <3>1
    <3>3. i # 1 => r[i - 1] = "LF"
      BY <1>2, <2>1, <3>2
    <3>4. Visible(r, i)
      BY <3>1, <3>3 DEF Visible
    <3>5. QED
      BY <3>1, <3>4
  <2>4. QED
    BY <1>6, <2>1, <2>2, <2>3
<1>8. \A i \in 1..b : Visible(r, i) => r[i] = code
  BY <1>1 DEF Told
<1>9. \A p \in 1..a : Visible(t, p) => t[p] \in S
  BY <1>1 DEF Told
<1>10. \A p \in 1..Len(u) : Visible(u, p) => u[p] \in S \cup {code}
  BY <1>2, <1>7, <1>8, <1>9
<1>11. ASSUME NEW p \in 1..(a + b), NEW q \in 1..(a + b), p < q, Visible(u, p), u[p + 1] = " ",
              Visible(u, q)
       PROVE  u[q] = "4"
  <2>1. CASE q \in 1..a
    <3>1. \A i \in 1..b : p # a + i /\ q # a + i
      <4>1. p < q
        BY <1>11
      <4>2. QED
        BY <2>1, <4>1
    <3>2. p \in 1..a /\ Visible(t, p) /\ t[p + 1] = " "
      BY <1>7, <1>11, <3>1
    <3>3. Visible(t, q) /\ u[q] = t[q]
      BY <1>7, <1>11, <3>1
    <3>4. p < q
      BY <1>11
    <3>5. t[q] = "4"
      BY <1>1, <2>1, <3>2, <3>3, <3>4 DEF Told
    <3>6. QED
      BY <3>3, <3>5
  <2>2. CASE q \notin 1..a
    <3>1. PICK j \in 1..b : q = a + j /\ Visible(r, j) /\ u[q] = r[j]
      BY <1>7, <1>11, <2>2
    <3>2. CASE p \in 1..a /\ Visible(t, p)
      BY <1>1, <1>8, <3>1, <3>2
    <3>3. CASE \E i \in 1..b : p = a + i /\ Visible(r, i) /\ u[p] = r[i] /\ u[p + 1] = r[i + 1]
      <4>1. PICK i \in 1..b : p = a + i /\ Visible(r, i) /\ u[p + 1] = r[i + 1]
        BY <3>3
      <4>2. i < j
        <5>1. p < q
          BY <1>11
        <5>2. QED
          BY <3>1, <4>1, <5>1
      <4>3. r[i + 1] = " "
        BY <1>11, <4>1
      <4>4. r[j] = "4"
        BY <1>1, <3>1, <4>1, <4>2, <4>3 DEF Told
      <4>5. QED
        BY <3>1, <4>4
    <3>4. QED
      BY <1>7, <1>11, <3>2, <3>3
  <2>3. QED
    BY <2>1, <2>2
<1>12. ASSUME ~Lookalikes, NEW p \in 1..(a + b), Says(u, p), p # 1
       PROVE  u[p - 1] = "LF"
  <2>1. CASE p \in 1..a /\ Says(t, p)
    <3>1. p - 1 \in 1..a
      <4>1. p # 1 /\ p \in 1..a
        BY <1>12, <2>1
      <4>2. QED
        BY <4>1
    <3>2. t[p - 1] = "LF"
      BY <1>1, <1>12, <2>1 DEF Told
    <3>3. QED
      BY <1>2, <3>1, <3>2
  <2>2. CASE \E i \in 1..b : p = a + i /\ Says(r, i) /\ u[p] = r[i] /\ u[p + 1] = r[i + 1]
    <3>1. PICK i \in 1..b : p = a + i /\ Says(r, i)
      BY <2>2
    <3>2. CASE i = 1
      <4>1. p # 1
        BY <1>12
      <4>2. a # 0 /\ a \in 1..a /\ p - 1 = a
        BY <3>1, <3>2, <4>1
      <4>3. QED
        BY <1>2, <1>3, <4>2
    <3>3. CASE i # 1
      <4>1. i - 1 \in 1..b /\ p - 1 = a + (i - 1)
        BY <3>1, <3>3
      <4>2. r[i - 1] = "LF"
        BY <1>1, <1>12, <3>1, <3>3 DEF Told
      <4>3. QED
        BY <1>2, <4>1, <4>2
    <3>4. QED
      BY <3>2, <3>3
  <2>3. QED
    BY <1>6, <1>12, <2>1, <2>2
<1>13. Told(u, S \cup {code})
  BY <1>2, <1>5, <1>10, <1>11, <1>12 DEF Told
<1>14. ASSUME code = "4", OnlyShutdown(t)
       PROVE  OnlyShutdown(u)
  BY <1>1, <1>2, <1>7, <1>8, <1>14 DEF OnlyShutdown
<1>15. QED
  BY <1>13, <1>14

\* A line stands in a text behind its first x bytes, where a line of the text begins.
LineAt(t, x, line) ==
  /\ x \in Nat /\ x + Len(line) <= Len(t)
  /\ \A i \in 1..Len(line) : t[x + i] = line[i]
  /\ x = 0 \/ t[x] = "LF"

\* The code of such a line is seen.
LEMMA LineSeen ==
  ASSUME NEW t \in Seq(Bytes), NEW line \in Seq(Bytes), HasCode(line), NEW x \in Nat,
         LineAt(t, x, line)
  PROVE  /\ x + 1 \in 1..(x + Len(line)) /\ x + 1 \in 1..Len(t)
         /\ Visible(t, x + 1) /\ t[x + 1] = line[1] /\ t[(x + 1) + 1] = line[2]
<1>1. PICK y \in Nat, n \in Nat : y = Len(line) /\ n = Len(t)
  OBVIOUS
<1>2. /\ x + y <= n
      /\ \A i \in 1..y : t[x + i] = line[i]
      /\ x = 0 \/ t[x] = "LF"
  BY <1>1 DEF LineAt
<1>3. line[1] \in Codes /\ line[2] \in {"-", " "}
  BY <1>1 DEF HasCode
<1>4. /\ 1 \in 1..y /\ 2 \in 1..y /\ x + 1 \in 1..(x + y) /\ x + 1 \in 1..n
      /\ (x + 1) + 1 \in 1..n /\ (x + 1) + 1 = x + 2
  <2>1. y >= 2
    BY <1>1 DEF HasCode
  <2>2. x + y <= n
    BY <1>2
  <2>3. QED
    BY <2>1, <2>2
<1>5. t[x + 1] = line[1] /\ t[(x + 1) + 1] = line[2]
  BY <1>2, <1>4
<1>6. Says(t, x + 1)
  BY <1>1, <1>3, <1>4, <1>5 DEF Says
<1>7. x + 1 = 1 \/ t[(x + 1) - 1] = "LF"
  <2>1. x = 0 \/ t[x] = "LF"
    BY <1>2
  <2>2. (x + 1) - 1 = x /\ (x = 0 => x + 1 = 1)
    OBVIOUS
  <2>3. QED
    BY <2>1, <2>2
<1>8. Visible(t, x + 1)
  BY <1>6, <1>7 DEF Visible
<1>9. QED
  BY <1>1, <1>4, <1>5, <1>8

\* The lines that end in a chunk: the first one is the end of the line that was begun.
LineOf(pend, array, k) == IF k = 1 THEN pend \o array[1] ELSE array[k]

\* They stand in the text that is made of the line that was begun, the chunk and what
\* follows it.
LEMMA LineInText ==
  ASSUME NEW pend \in Seq(Bytes), NEW bytes \in Seq(Bytes), NEW rest \in Seq(Bytes),
         NEW t, IsConcat3(pend, bytes, rest, t), NEW k \in 1..(Len(Split(bytes)) - 1)
  PROVE  \E x \in Nat, line \in Seq(Bytes) :
           /\ line = LineOf(pend, Split(bytes), k)
           /\ LineAt(t, x, line) /\ x + Len(line) <= Len(pend) + Len(bytes)
<1>1. PICK line \in Seq(Bytes), before \in Seq(Bytes), after \in Seq(Bytes) :
        /\ line = Split(bytes)[k]
        /\ bytes = (before \o (line \o CRLF)) \o after
        /\ k = 1 => before = <<>>
        /\ k # 1 => before # <<>> /\ Last(before) = "LF"
  <2>1. CRLF \in Seq(Bytes)
    BY CRLFType
  <2>2. /\ Split(bytes)[k] \in Seq(Bytes)
        /\ \E before \in Seq(Bytes), after \in Seq(Bytes) :
             /\ bytes = (before \o (Split(bytes)[k] \o CRLF)) \o after
             /\ k = 1 => before = <<>>
             /\ k # 1 => before # <<>> /\ Last(before) = "LF"
             /\ after = <<>> <=> k = Len(Split(bytes)) - 1 /\ Last(Split(bytes)) = <<>>
    BY <2>1, LineInChunk, Zenon
  <2>3. PICK line \in Seq(Bytes) : line = Split(bytes)[k]
    BY <2>2, Zenon
  <2>4. PICK before \in Seq(Bytes), after \in Seq(Bytes) :
             /\ bytes = (before \o (line \o CRLF)) \o after
             /\ k = 1 => before = <<>>
             /\ k # 1 => before # <<>> /\ Last(before) = "LF"
    BY <2>2, <2>3, Zenon
  <2>5. QED
    BY <2>3, <2>4, Zenon
<1>2. PICK ended \in Seq(Bytes) : ended = line \o CRLF /\ IsConcat(line, CRLF, ended)
  BY CRLFType, Concat, Zenon
<1>3. IsConcat3(before, ended, after, bytes)
  <2>1. bytes = (before \o ended) \o after
    BY <1>1, <1>2
  <2>2. IsConcat3(before, ended, after, (before \o ended) \o after)
    BY Concat3, Zenon
  <2>3. QED
    BY <2>1, <2>2, Zenon
<1>4. PICK a \in Nat, b \in Nat, c \in Nat, d \in Nat, e \in Nat, f \in Nat, g \in Nat :
        /\ a = Len(pend) /\ b = Len(bytes) /\ c = Len(before) /\ d = Len(line)
        /\ e = Len(ended) /\ f = Len(after) /\ g = Len(rest)
  <2>1. /\ Len(pend) \in Nat /\ Len(bytes) \in Nat /\ Len(before) \in Nat /\ Len(line) \in Nat
        /\ Len(ended) \in Nat /\ Len(after) \in Nat /\ Len(rest) \in Nat
    BY LenProperties
  <2>2. QED
    BY <2>1, Zenon
<1>5. e = d + Len(CRLF) /\ Len(CRLF) \in Nat /\ \A i \in 1..d : ended[i] = line[i]
  BY <1>2, <1>4 DEF IsConcat
<1>6. b = c + e + f /\ \A i \in 1..c : bytes[i] = before[i]
  BY <1>3, <1>4 DEF IsConcat3
<1>7. \A i \in 1..e : bytes[c + i] = ended[i]
  BY <1>3, <1>4 DEF IsConcat3
<1>8. /\ Len(t) = a + b + g
      /\ \A i \in 1..a : t[i] = pend[i]
      /\ \A i \in 1..b : t[a + i] = bytes[i]
  BY <1>4 DEF IsConcat3
<1>9. \A i \in 1..d : t[(a + c) + i] = line[i]
  <2>1. SUFFICES ASSUME NEW i \in 1..d
                 PROVE  t[(a + c) + i] = line[i]
    OBVIOUS
  <2>2. i \in 1..e /\ c + i \in 1..b /\ (a + c) + i = a + (c + i)
    <3>1. e = d + Len(CRLF) /\ Len(CRLF) \in Nat /\ b = c + e + f
      BY <1>5, <1>6
    <3>2. QED
      BY <3>1
  <2>3. t[a + (c + i)] = bytes[c + i] /\ bytes[c + i] = ended[i] /\ ended[i] = line[i]
    BY <1>5, <1>7, <1>8, <2>2
  <2>4. QED
    BY <2>2, <2>3
<1>10. (a + c) + d <= a + b /\ (a + c) + d <= a + b + g /\ a + c \in Nat
  <2>1. e = d + Len(CRLF) /\ Len(CRLF) \in Nat /\ b = c + e + f
    BY <1>5, <1>6
  <2>2. QED
    BY <2>1
<1>11. CASE k = 1
  <2>1. c = 0
    BY <1>1, <1>4, <1>11, EmptySeq
  <2>2. PICK whole \in Seq(Bytes) : whole = pend \o line /\ IsConcat(pend, line, whole)
    BY Concat, Zenon
  <2>3. /\ Len(whole) = a + d
        /\ \A i \in 1..a : whole[i] = pend[i]
        /\ \A i \in 1..d : whole[a + i] = line[i]
    BY <1>4, <2>2 DEF IsConcat
  <2>4. ASSUME NEW i \in 1..(a + d)
        PROVE  t[0 + i] = whole[i]
    <3>1. CASE i \in 1..a
      BY <1>8, <2>3, <3>1
    <3>2. CASE i \notin 1..a
      <4>1. i - a \in 1..d /\ i = a + (i - a) /\ (a + c) + (i - a) = i
        BY <2>1, <3>2
      <4>2. t[i] = line[i - a] /\ whole[i] = line[i - a]
        BY <1>9, <2>3, <4>1
      <4>3. QED
        BY <4>2
    <3>3. QED
      BY <3>1, <3>2
  <2>5. 0 + (a + d) <= a + b /\ 0 + (a + d) <= a + b + g
    BY <1>10, <2>1
  <2>6. LineAt(t, 0, whole)
    BY <1>8, <2>3, <2>4, <2>5 DEF LineAt
  <2>7. whole = LineOf(pend, Split(bytes), k)
    BY <1>1, <1>11, <2>2 DEF LineOf
  <2>8. 0 \in Nat /\ 0 + Len(whole) <= Len(pend) + Len(bytes)
    BY <1>4, <2>3, <2>5
  <2>9. QED
    BY <2>6, <2>7, <2>8
<1>12. CASE k # 1
  <2>1. t[a + c] = "LF"
    <3>1. before # <<>> /\ Last(before) = "LF"
      BY <1>1, <1>12
    <3>2. c # 0 /\ before[c] = "LF"
      BY <1>4, <3>1, EmptySeq DEF Last
    <3>3. c \in 1..c /\ c \in 1..b
      <4>1. b = c + e + f /\ c # 0
        BY <1>6, <3>2
      <4>2. QED
        BY <4>1
    <3>4. QED
      BY <1>6, <1>8, <3>2, <3>3
  <2>2. LineAt(t, a + c, line)
    BY <1>4, <1>8, <1>9, <1>10, <2>1 DEF LineAt
  <2>3. line = LineOf(pend, Split(bytes), k)
    BY <1>1, <1>12 DEF LineOf
  <2>4. QED
    BY <1>4, <1>10, <2>2, <2>3
<1>13. QED
  BY <1>11, <1>12

\* A chunk of which the last line is empty ends where a line ends.
LEMMA ChunkEnds ==
  ASSUME NEW bytes \in Seq(Bytes), Len(Split(bytes)) > 1, Last(Split(bytes)) = <<>>
  PROVE  bytes # <<>> /\ Last(bytes) = "LF"
<1>1. CRLF \in Seq(Bytes)
  BY CRLFType
<1>2. Join(Front(Split(bytes))) \o Last(Split(bytes)) = bytes
  BY <1>1, JoinSplit, Zenon
<1>3. Split(bytes) \in Seq(Seq(Bytes)) /\ Split(bytes) # <<>>
  BY SplitType, Zenon DEF Pieces
<1>4. PICK array \in Seq(Seq(Bytes)) :
        array = Split(bytes) /\ array # <<>> /\ Len(array) > 1 /\ Last(array) = <<>>
  BY <1>3
<1>5. Front(array) \in Seq(Seq(Bytes)) /\ Len(Front(array)) = Len(array) - 1 /\ Len(array) \in Nat
  BY <1>4, FrontLast
<1>6. Len(Front(array)) # 0
  <2>1. PICK n \in Nat : n = Len(array)
    BY <1>5
  <2>2. n > 1
    BY <1>4, <2>1
  <2>3. n - 1 # 0
    BY <2>2
  <2>4. QED
    BY <1>5, <2>1, <2>3
<1>7. Front(array) # <<>>
  BY <1>6, EmptySeq
<1>8. PICK ended \in Seq(Bytes) : ended = Join(Front(array)) /\ ended # <<>> /\ Last(ended) = "LF"
  BY <1>1, <1>5, <1>7, JoinType, JoinLen
<1>9. ended \o <<>> = ended
  BY ConcatEmptySeq
<1>10. bytes = ended
  BY <1>2, <1>4, <1>8, <1>9
<1>11. QED
  BY <1>8, <1>10

\* What the reader has of a text when it has read a chunk that it has not cut in a
\* line: the lines that ended have codes that were told, and nothing but the shutdown
\* is told behind a last one; and the rest is told as the text was.
ReadOf(pend, bytes, rest, t, S) ==
  /\ Told(rest, S)
  /\ OnlyShutdown(t) => OnlyShutdown(rest)
  /\ \A k \in 1..(Len(Split(bytes)) - 1) :
       HasCode(LineOf(pend, Split(bytes), k)) =>
         /\ LineOf(pend, Split(bytes), k)[1] \in S
         /\ IsLastLine(LineOf(pend, Split(bytes), k)) => OnlyShutdown(rest)

\* So it is after every such chunk.
LEMMA ChunkRead ==
  ASSUME NEW pend \in Seq(Bytes), NEW bytes \in Seq(Bytes), NEW rest \in Seq(Bytes),
         NEW t \in Seq(Bytes), IsConcat3(pend, bytes, rest, t), NEW S, Told(t, S),
         ~Lookalikes \/ (bytes # <<>> /\ Last(bytes) = "LF")
  PROVE  ReadOf(pend, bytes, rest, t, S)
<1>1. PICK a \in Nat, b \in Nat, c \in Nat :
        a = Len(pend) /\ b = Len(bytes) /\ c = Len(rest)
  OBVIOUS
<1>2. /\ Len(t) = a + b + c
      /\ \A i \in 1..a : t[i] = pend[i]
      /\ \A i \in 1..b : t[a + i] = bytes[i]
      /\ \A i \in 1..c : t[a + b + i] = rest[i]
  BY <1>1 DEF IsConcat3
<1>3. PICK u \in Seq(Bytes) : u = pend \o bytes /\ IsConcat(pend, bytes, u)
  BY Concat, Zenon
<1>4. /\ Len(u) = a + b
      /\ \A i \in 1..a : u[i] = pend[i]
      /\ \A i \in 1..b : u[a + i] = bytes[i]
  BY <1>1, <1>3 DEF IsConcat
<1>5. ASSUME NEW i \in 1..(a + b)
      PROVE  t[i] = u[i]
  <2>1. CASE i \in 1..a
    BY <1>2, <1>4, <2>1
  <2>2. CASE i \notin 1..a
    <3>1. i - a \in 1..b /\ i = a + (i - a)
      BY <2>2
    <3>2. QED
      BY <1>2, <1>4, <3>1
  <2>3. QED
    BY <2>1, <2>2
<1>6. IsConcat(u, rest, t)
  <2>1. Len(t) = (a + b) + c /\ a + b \in Nat
    BY <1>2
  <2>2. QED
    BY <1>1, <1>2, <1>4, <1>5, <2>1 DEF IsConcat
<1>7. Last(u) = "LF" \/ ~Lookalikes
  <2>1. CASE bytes # <<>> /\ Last(bytes) = "LF"
    <3>1. b # 0 /\ bytes[b] = "LF"
      BY <1>1, <2>1, EmptySeq DEF Last
    <3>2. b \in 1..b
      BY <3>1
    <3>3. u[a + b] = "LF"
      BY <1>4, <3>1, <3>2
    <3>4. QED
      BY <1>4, <3>3 DEF Last
  <2>2. QED
    BY <2>1
<1>8. /\ Told(rest, S)
      /\ OnlyShutdown(t) => OnlyShutdown(rest)
      /\ \A p \in 1..Len(u) : Visible(t, p) /\ t[p + 1] = " " => OnlyShutdown(rest)
  BY <1>6, <1>7, RestTold
<1>9. ASSUME NEW k \in 1..(Len(Split(bytes)) - 1), HasCode(LineOf(pend, Split(bytes), k))
      PROVE  /\ LineOf(pend, Split(bytes), k)[1] \in S
             /\ IsLastLine(LineOf(pend, Split(bytes), k)) => OnlyShutdown(rest)
  <2>1. PICK x \in Nat, line \in Seq(Bytes) :
          /\ line = LineOf(pend, Split(bytes), k)
          /\ LineAt(t, x, line) /\ x + Len(line) <= a + b
    BY <1>1, LineInText
  <2>2. /\ x + 1 \in 1..(x + Len(line)) /\ x + 1 \in 1..Len(t)
        /\ Visible(t, x + 1) /\ t[x + 1] = line[1] /\ t[(x + 1) + 1] = line[2]
    BY <1>9, <2>1, LineSeen
  <2>3. x + 1 \in 1..(a + b)
    <3>1. x + 1 <= x + Len(line) /\ x + Len(line) <= a + b /\ Len(line) \in Nat
      BY <2>1, <2>2, LenProperties
    <3>2. QED
      BY <3>1
  <2>4. line[1] \in S
    BY <2>2 DEF Told
  <2>5. IsLastLine(line) => OnlyShutdown(rest)
    BY <1>4, <1>8, <2>2, <2>3 DEF IsLastLine
  <2>6. QED
    BY <2>1, <2>4, <2>5
<1>10. QED
  BY <1>8, <1>9 DEF ReadOf

\* A chunk that ends in a line that it begins: this line and what follows it are told
\* as the text was.
LEMMA ChunkBegun ==
  ASSUME NEW pend \in Seq(Bytes), NEW bytes \in Seq(Bytes), NEW rest \in Seq(Bytes),
         NEW t \in Seq(Bytes), AreSame(t, (pend \o bytes) \o rest), NEW S, Told(t, S),
         Len(Split(bytes)) > 1
  PROVE  Told(Last(Split(bytes)) \o rest, S)
<1>1. CRLF \in Seq(Bytes)
  BY CRLFType
<1>2. Join(Front(Split(bytes))) \o Last(Split(bytes)) = bytes
  BY <1>1, JoinSplit, Zenon
<1>3. Split(bytes) \in Seq(Seq(Bytes)) /\ Split(bytes) # <<>>
  BY SplitType, Zenon DEF Pieces
<1>4. PICK array \in Seq(Seq(Bytes)) : array = Split(bytes) /\ array # <<>> /\ Len(array) > 1
  BY <1>3
<1>5. /\ Front(array) \in Seq(Seq(Bytes)) /\ Len(Front(array)) = Len(array) - 1
      /\ Len(array) \in Nat /\ Last(array) \in Seq(Bytes)
  BY <1>4, FrontLast
<1>6. Front(array) # <<>>
  <2>1. PICK n \in Nat : n = Len(array)
    BY <1>5
  <2>2. n > 1
    BY <1>4, <2>1
  <2>3. n - 1 # 0
    BY <2>2
  <2>4. Len(Front(array)) # 0
    BY <1>5, <2>1, <2>3
  <2>5. QED
    BY <2>4, EmptySeq
<1>7. PICK ended \in Seq(Bytes) : ended = Join(Front(array)) /\ ended # <<>> /\ Last(ended) = "LF"
  BY <1>1, <1>5, <1>6, JoinType, JoinLen
<1>8. PICK end \in Seq(Bytes) : end = Last(array)
  BY <1>5
<1>9. bytes = ended \o end
  BY <1>2, <1>4, <1>7, <1>8
<1>10. PICK whole \in Seq(Bytes) : whole = pend \o ended /\ IsConcat(pend, ended, whole)
  BY Concat, Zenon
<1>11. PICK v \in Seq(Bytes) : v = end \o rest
  BY ConcatProperties
<1>12. whole # <<>> /\ Last(whole) = "LF"
  <2>1. PICK a \in Nat, b \in Nat : a = Len(pend) /\ b = Len(ended)
    OBVIOUS
  <2>2. b # 0 /\ ended[b] = "LF"
    BY <1>7, <2>1, EmptySeq DEF Last
  <2>3. Len(whole) = a + b /\ \A i \in 1..b : whole[a + i] = ended[i]
    BY <1>10, <2>1 DEF IsConcat
  <2>4. b \in 1..b /\ a + b # 0
    BY <2>2
  <2>5. whole[a + b] = "LF" /\ Len(whole) # 0
    BY <2>2, <2>3, <2>4
  <2>6. QED
    BY <2>3, <2>5, EmptySeq DEF Last
<1>13. AreSame(pend \o (ended \o end), whole \o end)
  <2>1. AreSame((pend \o ended) \o end, pend \o (ended \o end))
    BY Regroup1, Zenon
  <2>2. QED
    BY <1>10, <2>1 DEF AreSame
<1>14. AreSame((whole \o end) \o rest, whole \o (end \o rest))
  BY Regroup1, Zenon
<1>15. t = whole \o v
  BY <1>9, <1>11, <1>13, <1>14 DEF AreSame
<1>16. IsConcat(whole, v, t)
  <2>1. IsConcat(whole, v, whole \o v)
    BY Concat, Zenon
  <2>2. QED
    BY <1>15, <2>1, Zenon
<1>17. Told(v, S)
  BY <1>12, <1>16, RestTold
<1>18. QED
  BY <1>4, <1>8, <1>11, <1>17

\* The last element of a concatenation.
LEMMA LastOfConcat ==
  ASSUME NEW B, NEW s \in Seq(B), NEW t \in Seq(B)
  PROVE  /\ s \o t \in Seq(B)
         /\ t = <<>> => s \o t = s
         /\ t # <<>> => s \o t # <<>> /\ Last(s \o t) = Last(t)
<1>1. PICK r \in Seq(B) : r = s \o t /\ IsConcat(s, t, r)
  BY Concat, Zenon
<1>2. t = <<>> => s \o t = s
  BY ConcatEmptySeq
<1>3. ASSUME t # <<>>
      PROVE  r # <<>> /\ Last(r) = Last(t)
  <2>1. PICK a \in Nat, b \in Nat : a = Len(s) /\ b = Len(t)
    OBVIOUS
  <2>2. b # 0
    BY <1>3, <2>1, EmptySeq
  <2>3. b \in 1..b /\ a + b # 0
    BY <2>2
  <2>4. Len(r) = a + b /\ r[a + b] = t[b]
    BY <1>1, <2>1, <2>3 DEF IsConcat
  <2>5. Len(r) # 0
    BY <2>3, <2>4
  <2>6. QED
    BY <2>1, <2>4, <2>5, EmptySeq DEF Last
<1>4. QED
  BY <1>1, <1>2, <1>3

\* The types of the reader's lines; one of them is there when none is begun.
ReaderOK == lines \in Seq(Seq(Bytes)) /\ isLinePending \in BOOLEAN /\ (~isLinePending => lines # <<>>)

\* The line that was begun is a text, and goes on with the first piece of a chunk.
LEMMA ContinuedIs ==
  ASSUME ReaderOK, NEW array \in Pieces(Bytes)
  PROVE  /\ Pending \in Seq(Bytes)
         /\ Continued(array) \in Seq(Seq(Bytes)) /\ Continued(array) # <<>>
         /\ isLinePending => Last(Continued(array)) = LineOf(Pending, array, 1)
         /\ ~isLinePending => Continued(array) = lines /\ Pending = <<>>
<1>1. /\ lines \in Seq(Seq(Bytes)) /\ isLinePending \in BOOLEAN /\ (~isLinePending => lines # <<>>)
      /\ array \in Seq(Seq(Bytes)) /\ array # <<>>
  BY DEF ReaderOK, Pieces
<1>2. PICK first \in Seq(Bytes) : first = array[1] /\ Head(array) = first
  <2>1. Head(array) \in Seq(Bytes)
    BY <1>1, HeadTailProperties
  <2>2. Head(array) = array[1]
    BY <1>1
  <2>3. QED
    BY <2>1, <2>2
<1>3. LineOf(Pending, array, 1) = Pending \o first
  BY <1>2 DEF LineOf
<1>4. CASE isLinePending /\ lines = <<>>
  <2>1. Pending = <<>> /\ <<>> \in Seq(Bytes) /\ Continued(array) = <<first>>
    BY <1>2, <1>4, EmptySeq DEF Pending, Continued
  <2>2. <<>> \o first = first
    BY ConcatEmptySeq
  <2>3. <<first>> \in Seq(Seq(Bytes)) /\ <<first>> # <<>> /\ Last(<<first>>) = first
    BY DEF Last
  <2>4. QED
    BY <1>3, <1>4, <2>1, <2>2, <2>3
<1>5. CASE isLinePending /\ lines # <<>>
  <2>1. PICK front \in Seq(Seq(Bytes)), last \in Seq(Bytes) : front = Front(lines) /\ last = Last(lines)
    BY <1>1, <1>5, FrontLast
  <2>2. Pending = last
    BY <1>5, <2>1 DEF Pending
  <2>3. PICK whole \in Seq(Bytes) : whole = last \o first
    BY ConcatProperties
  <2>4. Continued(array) = Append(front, whole)
    BY <1>2, <1>5, <2>1, <2>3 DEF Continued
  <2>5. Append(front, whole) \in Seq(Seq(Bytes)) /\ Append(front, whole) # <<>>
    BY AppendProperties
  <2>6. Last(Append(front, whole)) = whole
    BY FrontLastOfAppend
  <2>7. QED
    BY <1>3, <1>5, <2>2, <2>3, <2>4, <2>5, <2>6
<1>6. CASE ~isLinePending
  BY <1>1, <1>6, EmptySeq DEF Pending, Continued
<1>7. QED
  BY <1>1, <1>4, <1>5, <1>6

\* The other lines that end in the chunk.
LEMMA NewLinesAre ==
  ASSUME ReaderOK, NEW array \in Pieces(Bytes), NEW n \in Nat, n = Len(array)
  PROVE  /\ NewLines(array) \in Seq(Seq(Bytes))
         /\ NewLines(array) = <<>> <=> n = 1 \/ (isLinePending /\ n = 2)
         /\ \A i \in 1..Len(NewLines(array)) :
              \E k \in 1..(n - 1) : NewLines(array)[i] = LineOf(Pending, array, k)
         /\ NewLines(array) # <<>> => Last(NewLines(array)) = LineOf(Pending, array, n - 1)
<1>1. /\ isLinePending \in BOOLEAN /\ array \in Seq(Seq(Bytes)) /\ array # <<>>
  BY DEF ReaderOK, Pieces
<1>2. n # 0
  BY <1>1, EmptySeq
<1>3. PICK start \in {1, 2} : start = IF isLinePending THEN 2 ELSE 1
  OBVIOUS
<1>4. PICK some : some = NewLines(array)
  OBVIOUS
<1>5. some = SubSeq(array, start, n - 1)
  BY <1>3, <1>4 DEF NewLines
<1>6. \A i \in start..(n - 1) : array[i] \in Seq(Bytes)
  <2>1. \A i \in start..(n - 1) : i \in 1..n
    OBVIOUS
  <2>2. QED
    BY <1>1, <2>1, ElementOfSeq
<1>7. start \in Int /\ n - 1 \in Int
  OBVIOUS
<1>8. /\ some \in Seq(Seq(Bytes))
      /\ Len(some) = IF start <= n - 1 THEN (n - 1) - start + 1 ELSE 0
      /\ \A i \in 1..((n - 1) - start + 1) : some[i] = array[start + i - 1]
  BY <1>5, <1>6, <1>7, SubSeqProperties
<1>9. PICK m \in Nat : m = Len(some)
  <2>1. some \in Seq(Seq(Bytes))
    BY <1>8
  <2>2. Len(some) \in Nat
    BY <2>1, LenProperties
  <2>3. QED
    BY <2>2
<1>10. /\ m = 0 <=> n = 1 \/ (start = 2 /\ n = 2)
       /\ m # 0 => m = (n - 1) - start + 1
  <2>1. m = IF start <= n - 1 THEN (n - 1) - start + 1 ELSE 0
    BY <1>8, <1>9
  <2>2. CASE start = 1
    BY <1>2, <2>1, <2>2
  <2>3. CASE start = 2
    BY <1>2, <2>1, <2>3
  <2>4. QED
    BY <2>2, <2>3
<1>11. some = <<>> <=> m = 0
  BY <1>8, <1>9, EmptySeq
<1>12. start = 2 <=> isLinePending
  BY <1>1, <1>3
<1>13. ASSUME NEW i \in 1..m
       PROVE  start + i - 1 \in 1..(n - 1) /\ some[i] = LineOf(Pending, array, start + i - 1)
  <2>1. m # 0 /\ m = (n - 1) - start + 1
    BY <1>10
  <2>2. start + i - 1 \in 1..(n - 1) /\ (start = 2 => start + i - 1 # 1)
    BY <2>1
  <2>3. some[i] = array[start + i - 1]
    BY <1>8, <2>1
  <2>4. CASE start + i - 1 # 1
    BY <2>2, <2>3, <2>4 DEF LineOf
  <2>5. CASE start + i - 1 = 1
    <3>1. ~isLinePending
      BY <1>12, <2>2, <2>5
    <3>2. Pending = <<>>
      BY <3>1 DEF Pending
    <3>3. array[1] \in Seq(Bytes)
      <4>1. 1 \in 1..n
        BY <1>2
      <4>2. QED
        BY <1>1, <4>1, ElementOfSeq
    <3>4. <<>> \o array[1] = array[1]
      BY <3>3, ConcatEmptySeq
    <3>5. QED
      BY <2>2, <2>3, <2>5, <3>2, <3>4 DEF LineOf
  <2>6. QED
    BY <2>4, <2>5
<1>14. ASSUME some # <<>>
       PROVE  Last(some) = LineOf(Pending, array, n - 1)
  <2>1. m # 0
    BY <1>11, <1>14
  <2>2. m \in 1..m
    BY <2>1
  <2>3. start + m - 1 = n - 1
    BY <1>10, <2>1
  <2>4. some[m] = LineOf(Pending, array, n - 1)
    BY <1>13, <2>2, <2>3
  <2>5. QED
    BY <1>9, <2>4 DEF Last
<1>15. QED
  BY <1>4, <1>8, <1>9, <1>10, <1>11, <1>12, <1>13, <1>14

\* The first wrong line is wrong, and when there is none, then none is.
LEMMA FirstWrongIs ==
  ASSUME NEW array
  PROVE  /\ FirstWrong(array) = 0 \/ FirstWrong(array) \in 1..Len(NewLines(array))
         /\ FirstWrong(array) = 0 =>
              \A k \in 1..Len(NewLines(array)) : ~IsWrong(array, k)
<1> DEFINE wrong == {k \in 1..Len(NewLines(array)) : IsWrong(array, k)}
<1>1. FirstWrong(array) =
        IF wrong = {} THEN 0 ELSE CHOOSE k \in wrong : \A j \in wrong : k <= j
  BY DEF FirstWrong
<1>2. wrong \in SUBSET Nat
  OBVIOUS
<1>3. ASSUME wrong # {}
      PROVE  FirstWrong(array) \in wrong
  <2> HIDE DEF wrong
  <2>1. \E k \in wrong : \A j \in wrong : k <= j
    BY <1>2, <1>3, Least
  <2>2. QED
    BY <1>1, <1>3, <2>1
<1>4. \A k \in wrong : k # 0
  OBVIOUS
<1>5. FirstWrong(array) = 0 => wrong = {}
  <2> HIDE DEF wrong
  <2> QED BY <1>1, <1>3, <1>4
<1>6. FirstWrong(array) = 0 \/ FirstWrong(array) \in wrong
  BY <1>1, <1>3
<1>7. QED
  BY <1>5, <1>6

\* A single element.
LEMMA OneOf ==
  ASSUME NEW B, NEW e \in B
  PROVE  <<e>> \in Seq(B) /\ <<e>> # <<>> /\ Last(<<e>>) = e
BY DEF Last

\* The last line of all that were read: the one that was begun, the last one that was
\* there, the one that is begun by the chunk, or one of those that end in it.
LEMMA LinesWithAre ==
  ASSUME ReaderOK, NEW array \in Pieces(Bytes), NEW n \in Nat, n = Len(array)
  PROVE  /\ LinesWith(array) \in Seq(Seq(Bytes)) /\ LinesWith(array) # <<>>
         /\ n = 1 /\ isLinePending => Last(LinesWith(array)) = LineOf(Pending, array, 1)
         /\ n = 1 /\ ~isLinePending => ~Mismatches(array) /\ LinesWith(array) = lines
         /\ n > 1 /\ ~Mismatches(array) /\ Last(array) # <<>> =>
              Last(LinesWith(array)) = Last(array)
         /\ n > 1 /\ (Mismatches(array) \/ Last(array) = <<>>) =>
              \E k \in 1..(n - 1) : Last(LinesWith(array)) = LineOf(Pending, array, k)
         /\ IsComplete(array) => HasCode(Last(LinesWith(array)))
         /\ n # 0
<1>1. array \in Seq(Seq(Bytes)) /\ array # <<>> /\ isLinePending \in BOOLEAN
  BY DEF Pieces, ReaderOK
<1>2. n # 0
  BY <1>1, EmptySeq
<1>2a. n > 1 => n # 1
  OBVIOUS
<1>3. PICK cont \in Seq(Seq(Bytes)) :
        /\ cont = Continued(array) /\ cont # <<>>
        /\ isLinePending => Last(cont) = LineOf(Pending, array, 1)
        /\ ~isLinePending => cont = lines
  BY ContinuedIs
<1>4. PICK some \in Seq(Seq(Bytes)) :
        /\ some = NewLines(array)
        /\ some = <<>> <=> n = 1 \/ (isLinePending /\ n = 2)
        /\ \A i \in 1..Len(some) : \E k \in 1..(n - 1) : some[i] = LineOf(Pending, array, k)
        /\ some # <<>> => Last(some) = LineOf(Pending, array, n - 1)
  BY NewLinesAre
<1>5. PICK m \in Nat : m = Len(some) /\ (some = <<>> <=> m = 0)
  BY EmptySeq
<1>6. PICK first : first = FirstWrong(array)
  OBVIOUS
<1>7. /\ first = 0 \/ first \in 1..m
      /\ first = 0 => \A k \in 1..m : ~IsWrong(array, k)
  BY <1>4, <1>5, <1>6, FirstWrongIs
<1>8. PICK base \in Seq(Seq(Bytes)) :
        /\ base = cont \o some /\ base # <<>>
        /\ some = <<>> => Last(base) = Last(cont)
        /\ some # <<>> => Last(base) = Last(some)
  <2>1. /\ cont \o some \in Seq(Seq(Bytes))
        /\ some = <<>> => cont \o some = cont
        /\ some # <<>> => cont \o some # <<>> /\ Last(cont \o some) = Last(some)
    BY LastOfConcat
  <2>2. PICK base : base = cont \o some
    OBVIOUS
  <2>3. QED
    BY <1>3, <2>1, <2>2, Zenon
<1>9. CASE Mismatches(array)
  <2>1. first \in 1..m /\ m # 0 /\ first \in 0..m /\ first # 0
    <3>1. first # 0
      BY <1>6, <1>9 DEF Mismatches
    <3>2. first \in 1..m
      BY <1>7, <3>1
    <3>3. QED
      BY <3>1, <3>2
  <2>2. PICK part \in Seq(Seq(Bytes)) : part = SubSeq(some, 1, first) /\ Len(part) = first
    <3>1. first \in 0..Len(some)
      BY <1>5, <2>1
    <3>2. SubSeq(some, 1, first) \in Seq(Seq(Bytes)) /\ Len(SubSeq(some, 1, first)) = first
      BY <3>1, Cut
    <3>3. QED
      BY <3>2
  <2>3. part[first] = some[first]
    <3>1. /\ 1 \in Int /\ first \in Int /\ \A i \in 1..first : i \in 1..m
          /\ first \in 1..(first - 1 + 1) /\ 1 + first - 1 = first
      BY <2>1
    <3>2. \A i \in 1..first : some[i] \in Seq(Bytes)
      BY <1>5, <3>1, ElementOfSeq
    <3>3. \A i \in 1..(first - 1 + 1) : SubSeq(some, 1, first)[i] = some[1 + i - 1]
      BY <3>1, <3>2, SubSeqProperties
    <3>4. QED
      BY <2>2, <3>1, <3>3
  <2>4. part # <<>>
    BY <2>1, <2>2, EmptySeq
  <2>5. Last(part) = some[first]
    BY <2>2, <2>3 DEF Last
  <2>6. LinesWith(array) = cont \o part
    BY <1>3, <1>4, <1>6, <1>9, <2>2 DEF LinesWith
  <2>7. /\ LinesWith(array) \in Seq(Seq(Bytes)) /\ LinesWith(array) # <<>>
        /\ Last(LinesWith(array)) = some[first]
    BY <2>4, <2>5, <2>6, LastOfConcat
  <2>8. \E k \in 1..(n - 1) : Last(LinesWith(array)) = LineOf(Pending, array, k)
    BY <1>4, <1>5, <2>1, <2>7
  <2>9. n # 1
    BY <1>4, <1>5, <2>1
  <2>10. ~IsComplete(array)
    BY <1>9 DEF IsComplete
  <2>11. QED
    BY <1>2, <1>9, <2>7, <2>8, <2>9, <2>10
<1>10. CASE ~Mismatches(array) /\ n > 1 /\ Last(array) # <<>>
  <2>1. PICK last \in Seq(Bytes) : last = Last(array)
    BY <1>1, FrontLast
  <2>2. PICK one \in Seq(Seq(Bytes)) : one = <<last>> /\ one # <<>> /\ Last(one) = last
    BY OneOf, Zenon
  <2>3. LinesWith(array) = base \o one
    BY <1>3, <1>4, <1>8, <1>10, <2>1, <2>2 DEF LinesWith
  <2>4. /\ LinesWith(array) \in Seq(Seq(Bytes)) /\ LinesWith(array) # <<>>
        /\ Last(LinesWith(array)) = last
    <3>1. /\ base \o one \in Seq(Seq(Bytes))
          /\ one = <<>> => base \o one = base
          /\ one # <<>> => base \o one # <<>> /\ Last(base \o one) = Last(one)
      BY LastOfConcat
    <3>2. QED
      BY <2>2, <2>3, <3>1, Zenon
  <2>5. ~IsComplete(array)
    BY <1>10 DEF IsComplete
  <2>6. QED
    BY <1>2, <1>2a, <1>10, <2>1, <2>4, <2>5
<1>11. CASE ~Mismatches(array) /\ ~(n > 1 /\ Last(array) # <<>>)
  <2>1. LinesWith(array) = base
    <3>1. LinesWith(array) = base \o <<>>
      BY <1>3, <1>4, <1>8, <1>11 DEF LinesWith
    <3>2. base \o <<>> = base
      BY ConcatEmptySeq
    <3>3. QED
      BY <3>1, <3>2
  <2>2. ASSUME n = 1, isLinePending
        PROVE  Last(base) = LineOf(Pending, array, 1)
    BY <1>3, <1>4, <1>8, <2>2
  <2>3. ASSUME n = 1, ~isLinePending
        PROVE  base = lines
    <3>1. some = <<>> /\ cont = lines
      BY <1>3, <1>4, <2>3
    <3>2. QED
      BY <1>8, <3>1, ConcatEmptySeq
  <2>4. ASSUME n > 1
        PROVE  \E k \in 1..(n - 1) : Last(base) = LineOf(Pending, array, k)
    <3>1. n - 1 \in 1..(n - 1) /\ n # 1
      BY <2>4
    <3>2. CASE some # <<>>
      BY <1>4, <1>8, <3>1, <3>2
    <3>3. CASE some = <<>>
      <4>1. isLinePending /\ n = 2
        BY <1>4, <3>1, <3>3
      <4>2. 1 \in 1..(n - 1)
        BY <4>1
      <4>3. QED
        BY <1>3, <1>8, <3>3, <4>1, <4>2
    <3>4. QED
      BY <3>2, <3>3
  <2>5. ASSUME IsComplete(array)
        PROVE  HasCode(Last(base))
    <3>1. HasLine(array) /\ ~Fails(array)
      BY <2>5 DEF IsComplete
    <3>2. first = 0
      BY <1>6, <1>11, <3>1 DEF Mismatches
    <3>3. HasCode(Last(cont))
      BY <1>3, <3>1 DEF Fails
    <3>4. CASE some = <<>>
      BY <1>8, <3>3, <3>4
    <3>5. CASE some # <<>>
      <4>1. m # 0
        BY <1>5, <3>5
      <4>2. m \in 1..m
        BY <4>1
      <4>3. HasCode(some[m])
        BY <1>4, <1>7, <3>2, <4>2 DEF IsWrong, IsInvalid
      <4>4. QED
        BY <1>5, <1>8, <3>5, <4>3 DEF Last
    <3>6. QED
      BY <3>4, <3>5
  <2>6. QED
    BY <1>2, <1>8, <1>11, <2>1, <2>2, <2>3, <2>4, <2>5
<1>12. QED
  BY <1>9, <1>10, <1>11

\* A chunk in which no line ends is its only piece.
LEMMA OnlyPiece ==
  ASSUME NEW bytes \in Seq(Bytes), Len(Split(bytes)) = 1
  PROVE  Split(bytes)[1] = bytes
<1>1. CRLF \in Seq(Bytes)
  BY CRLFType
<1>2. Join(Front(Split(bytes))) \o Last(Split(bytes)) = bytes
  BY <1>1, JoinSplit, Zenon
<1>3. Split(bytes) \in Seq(Seq(Bytes)) /\ Split(bytes) # <<>>
  BY SplitType, Zenon DEF Pieces
<1>4. PICK array \in Seq(Seq(Bytes)) : array = Split(bytes) /\ array # <<>> /\ Len(array) = 1
  BY <1>3
<1>5. /\ Front(array) \in Seq(Seq(Bytes)) /\ Len(Front(array)) = Len(array) - 1
      /\ Last(array) \in Seq(Bytes)
  BY <1>4, FrontLast
<1>6. Len(Front(array)) = 0
  BY <1>4, <1>5
<1>7. Front(array) = <<>>
  BY <1>5, <1>6, EmptySeq
<1>8. Join(Front(array)) = <<>>
  BY <1>7, JoinEmpty
<1>9. <<>> \o Last(array) = Last(array)
  BY <1>5, ConcatEmptySeq
<1>10. Last(array) = array[1]
  BY <1>4 DEF Last
<1>11. QED
  BY <1>2, <1>4, <1>8, <1>9, <1>10

\* What is true after a chunk: of a reply that is complete, and of one that goes on.
Completes(array, rest, codes) ==
  /\ HasCode(Last(LinesWith(array))) /\ Last(LinesWith(array))[1] \in codes
  /\ Told(rest, codes) /\ OnlyShutdown(rest)
Continues(array, rest, codes) ==
  LET last == Last(LinesWith(array))
      text == (IF StillPending(array) THEN last ELSE <<>>) \o rest
  IN /\ Told(text, codes)
     /\ ~StillPending(array) /\ HasCode(last) =>
          last[1] \in codes /\ (IsLastLine(last) => OnlyShutdown(text))

\* Every chunk leads from what is true of the reader to one or the other.
LEMMA WireRead ==
  ASSUME ReaderOK, NEW bytes \in Seq(Bytes), NEW rest \in Seq(Bytes), wire = bytes \o rest,
         NEW array, array = Split(bytes), NEW codes, Reading(Text, Last(lines), codes),
         Drops(array) => ~Lookalikes
  PROVE  /\ LinesWith(array) \in Seq(Seq(Bytes)) /\ LinesWith(array) # <<>>
         /\ IsComplete(array) => Completes(array, rest, codes)
         /\ Continues(array, rest, codes)
<1>1. array \in Pieces(Bytes)
  BY SplitType
<1>2. array \in Seq(Seq(Bytes)) /\ isLinePending \in BOOLEAN
  BY <1>1 DEF Pieces, ReaderOK
<1>3. PICK n \in Nat : n = Len(array)
  BY <1>2
<1>4. PICK pend \in Seq(Bytes) : pend = Pending /\ (~isLinePending => pend = <<>>)
  BY <1>1, ContinuedIs
<1>5. PICK t \in Seq(Bytes) : t = (pend \o bytes) \o rest /\ IsConcat3(pend, bytes, rest, t)
  BY Concat3, Zenon
<1>6. t = Text
  <2>1. AreSame((pend \o bytes) \o rest, pend \o (bytes \o rest))
    BY Regroup1, Zenon
  <2>2. QED
    BY <1>4, <1>5, <2>1 DEF Text, AreSame
<1>7. /\ Told(t, codes)
      /\ ~isLinePending /\ HasCode(Last(lines)) =>
           Last(lines)[1] \in codes /\ (IsLastLine(Last(lines)) => OnlyShutdown(t))
  BY <1>6 DEF Reading
<1>8. PICK read : read = LinesWith(array)
  OBVIOUS
<1>9. /\ read \in Seq(Seq(Bytes)) /\ read # <<>>
      /\ n = 1 /\ isLinePending => Last(read) = LineOf(pend, array, 1)
      /\ n = 1 /\ ~isLinePending => ~Mismatches(array) /\ read = lines
      /\ n > 1 /\ ~Mismatches(array) /\ Last(array) # <<>> => Last(read) = Last(array)
      /\ n > 1 /\ (Mismatches(array) \/ Last(array) = <<>>) =>
           \E k \in 1..(n - 1) : Last(read) = LineOf(pend, array, k)
      /\ IsComplete(array) => HasCode(Last(read))
      /\ n # 0
  BY <1>1, <1>3, <1>4, <1>8, LinesWithAre
<1>10. PICK last \in Seq(Bytes) : last = Last(read)
  BY <1>9, FrontLast
<1>11. IsComplete(array) => IsLastLine(last)
  BY <1>8, <1>10 DEF IsComplete
<1>12. <<>> \o rest = rest
  BY ConcatEmptySeq
<1>13. SUFFICES /\ IsComplete(array) =>
                     last[1] \in codes /\ Told(rest, codes) /\ OnlyShutdown(rest)
                /\ StillPending(array) => Told(last \o rest, codes)
                /\ ~StillPending(array) =>
                     /\ Told(rest, codes)
                     /\ HasCode(last) =>
                          last[1] \in codes /\ (IsLastLine(last) => OnlyShutdown(rest))
  <2>1. ASSUME IsComplete(array), last[1] \in codes, Told(rest, codes), OnlyShutdown(rest)
        PROVE  Completes(array, rest, codes)
    BY <1>8, <1>9, <1>10, <2>1 DEF Completes
  <2>2. ASSUME StillPending(array), Told(last \o rest, codes)
        PROVE  Continues(array, rest, codes)
    BY <1>8, <1>10, <2>2 DEF Continues
  <2>3. ASSUME ~StillPending(array), Told(rest, codes),
               HasCode(last) => last[1] \in codes /\ (IsLastLine(last) => OnlyShutdown(rest))
        PROVE  Continues(array, rest, codes)
    BY <1>8, <1>10, <1>12, <2>3 DEF Continues
  <2>4. QED
    BY <1>8, <1>9, <1>13, <2>1, <2>2, <2>3
<1>14. CASE n = 1 /\ isLinePending
  <2>1. ~IsComplete(array)
    BY <1>3, <1>14 DEF IsComplete, HasLine
  <2>2. StillPending(array)
    BY <1>3, <1>14 DEF StillPending
  <2>3. array[1] = bytes
    BY <1>3, <1>14, OnlyPiece
  <2>4. last = pend \o bytes
    BY <1>9, <1>10, <1>14, <2>3 DEF LineOf
  <2>5. Told(last \o rest, codes)
    BY <1>5, <1>7, <2>4
  <2>6. QED
    BY <2>1, <2>2, <2>5
<1>15. CASE n = 1 /\ ~isLinePending
  <2>1. Drops(array)
    BY <1>3, <1>15 DEF Drops
  <2>2. ReadOf(pend, bytes, rest, t, codes)
    BY <1>5, <1>7, <2>1, ChunkRead
  <2>3. Told(rest, codes) /\ (OnlyShutdown(t) => OnlyShutdown(rest))
    BY <2>2 DEF ReadOf
  <2>4. last = Last(lines)
    BY <1>9, <1>10, <1>15
  <2>5. ~StillPending(array)
    BY <1>3, <1>15 DEF StillPending
  <2>6. HasCode(last) => last[1] \in codes /\ (IsLastLine(last) => OnlyShutdown(rest))
    BY <1>7, <1>15, <2>3, <2>4
  <2>7. QED
    BY <1>9, <1>10, <1>11, <2>3, <2>5, <2>6
<1>16. CASE n > 1 /\ ~Mismatches(array) /\ Last(array) # <<>>
  <2>1. ~IsComplete(array)
    BY <1>3, <1>16 DEF IsComplete
  <2>2. n # 1
    <3>1. n > 1
      BY <1>16
    <3>2. QED
      BY <3>1
  <2>3. StillPending(array)
    BY <1>3, <1>16, <2>2 DEF StillPending
  <2>4. Told(last \o rest, codes)
    <3>1. AreSame(t, (pend \o bytes) \o rest)
      BY <1>5 DEF AreSame
    <3>2. Told(Last(array) \o rest, codes)
      BY <1>3, <1>7, <1>16, <3>1, ChunkBegun
    <3>3. QED
      BY <1>9, <1>10, <1>16, <3>2
  <2>5. QED
    BY <2>1, <2>3, <2>4
<1>17. CASE n > 1 /\ (Mismatches(array) \/ Last(array) = <<>>)
  <2>1. PICK k \in 1..(n - 1) : last = LineOf(pend, array, k)
    BY <1>9, <1>10, <1>17
  <2>2. n # 1
    <3>1. n > 1
      BY <1>17
    <3>2. QED
      BY <3>1
  <2>3. ~StillPending(array)
    BY <1>3, <1>17, <2>2 DEF StillPending
  <2>4. ~Lookalikes \/ (bytes # <<>> /\ Last(bytes) = "LF")
    <3>1. CASE Last(array) = <<>>
      BY <1>3, <1>17, <3>1, ChunkEnds
    <3>2. CASE Last(array) # <<>>
      BY <1>3, <1>17, <3>2 DEF Drops
    <3>3. QED
      BY <3>1, <3>2
  <2>5. ReadOf(pend, bytes, rest, t, codes)
    BY <1>5, <1>7, <2>4, ChunkRead
  <2>6. /\ Told(rest, codes)
        /\ HasCode(last) => last[1] \in codes /\ (IsLastLine(last) => OnlyShutdown(rest))
    BY <1>3, <2>1, <2>5 DEF ReadOf
  <2>7. QED
    BY <1>9, <1>10, <1>11, <2>3, <2>6
<1>18. n = 1 \/ n > 1
  BY <1>9
<1>19. QED
  BY <1>14, <1>15, <1>16, <1>17, <1>18

\* The types, in groups.
FlagsOK ==
  /\ recipients \in Recipients
  /\ state \in States
  /\ command \in Commands /\ index \in Indices
  /\ isLinePending \in BOOLEAN
  /\ status \in BOOLEAN
  /\ closed \in BOOLEAN
  /\ mishaps \subseteq {"cr", "fresh", "refused", "unsent", "down"}

\* They are the type invariant.
LEMMA TypesAre ==
  TypeOK <=> /\ FlagsOK
             /\ lines \in Seq(Seq(Bytes)) /\ wire \in Seq(Bytes)
             /\ requests \in Seq(Commands \X Indices)
             /\ granted \subseteq Commands \X Indices
BY DEF TypeOK, FlagsOK

\* The text of a reply that arrives is behind the bytes on their way.
LEMMA RepliedIs ==
  ASSUME NEW name, NEW code \in Codes, Replied(name, code)
  PROVE  \E text \in Seq(Bytes) : text # <<>> /\ Told(text, {code}) /\ wire' = wire \o text
<1>1. PICK reply \in Replies[code] : wire' = wire \o Join(reply)
  BY DEF Replied
<1>2. Join(reply) \in Seq(Bytes) /\ Join(reply) # <<>> /\ Told(Join(reply), {code})
  BY ReplyTold
<1>3. QED
  BY <1>1, <1>2

\* A chunk and what follows it, as they are taken from the wire.
Reads(bytes, rest) ==
  /\ state = "READING" /\ ~closed
  /\ wire = bytes \o rest /\ wire' = rest
  /\ mishaps' = mishaps \cup Cuts(bytes, rest)
  /\ UNCHANGED <<recipients, granted, closed>>

\* What Receive does with a chunk: the reply fails, is complete, or goes on.
FailsWith(array) ==
  /\ Fails(array)
  /\ Ends(IF command = "QUIT" THEN "CONNECTION_BROKEN" ELSE "IDLE")
  /\ UNCHANGED status
CompletesWith(array) == IsComplete(array) /\ Callback(Last(LinesWith(array))[1])
GoesOnWith(array) ==
  /\ ~Fails(array) /\ ~IsComplete(array)
  /\ lines' = LinesWith(array)
  /\ isLinePending' = StillPending(array)
  /\ UNCHANGED <<state, command, index, status, requests>>

\* These are the steps of Receive.
LEMMA ReceiveIs ==
  ASSUME wire \in Seq(Bytes), Receive
  PROVE  \E bytes \in Seq(Bytes), rest \in Seq(Bytes) :
           /\ Reads(bytes, rest)
           /\ FailsWith(Split(bytes)) \/ CompletesWith(Split(bytes)) \/ GoesOnWith(Split(bytes))
<1>1. PICK length \in 1..Len(wire) :
        LET bytes == SubSeq(wire, 1, length)
            rest  == SubSeq(wire, length + 1, Len(wire))
            array == Split(bytes)
        IN /\ state = "READING" /\ ~closed
           /\ wire' = rest
           /\ mishaps' = mishaps \cup Cuts(bytes, rest)
           /\ FailsWith(array) \/ CompletesWith(array) \/ GoesOnWith(array)
           /\ UNCHANGED <<recipients, granted, closed>>
  BY DEF Receive, FailsWith, CompletesWith, GoesOnWith
<1> DEFINE bytes == SubSeq(wire, 1, length)
           rest  == SubSeq(wire, length + 1, Len(wire))
<1>2. length \in 0..Len(wire)
  OBVIOUS
<1>3. bytes \in Seq(Bytes) /\ rest \in Seq(Bytes) /\ bytes \o rest = wire
  BY <1>2, Cut
<1>4. /\ Reads(bytes, rest)
      /\ FailsWith(Split(bytes)) \/ CompletesWith(Split(bytes)) \/ GoesOnWith(Split(bytes))
  <2>1. /\ state = "READING" /\ ~closed
        /\ wire' = rest
        /\ mishaps' = mishaps \cup Cuts(bytes, rest)
        /\ FailsWith(Split(bytes)) \/ CompletesWith(Split(bytes)) \/ GoesOnWith(Split(bytes))
        /\ UNCHANGED <<recipients, granted, closed>>
    BY <1>1
  <2> HIDE DEF bytes, rest
  <2>2. QED
    BY <1>3, <2>1 DEF Reads
<1> HIDE DEF bytes, rest
<1>5. QED
  BY <1>3, <1>4

\* What a command or an end of the wait does to the reader: it starts again, or it is
\* left alone.
Starts == lines' = <<>> /\ isLinePending' = TRUE
CallbackDoes ==
  \/ /\ state' = "READING" /\ Starts
     /\ requests' = Append(requests, <<command', index'>>)
     /\ command' # "greeting"
     /\ status' <=> command' = "QUIT"
     /\ command \in {"content", "QUIT"} => command' = "QUIT"
  \/ /\ state' \in {"exiting", "IDLE"} /\ UNCHANGED <<command, index, readerVars, requests>>
     /\ status' <=> command' = "QUIT"
     /\ state' = "exiting" => command \notin {"hello", "MAIL", "RCPT", "DATA", "content"}

\* The first index is one of the indices, without recipients too.
LEMMA FirstIndex ==
  ASSUME recipients \in Nat
  PROVE  1 \in Indices
<1>1. PICK n \in Nat : n = recipients
  OBVIOUS
<1>2. n # 0 => 1 \in 1..n
  OBVIOUS
<1>3. 1 \in 1..1
  OBVIOUS
<1>4. QED
  BY <1>1, <1>2, <1>3 DEF Indices

\* Every callback does one or the other.
LEMMA CallbackIs ==
  ASSUME NEW code, Callback(code), status <=> command = "QUIT", command \in Commands,
         recipients \in Nat, index \in Indices
  PROVE  /\ CallbackDoes
         /\ status' \in BOOLEAN /\ command' \in Commands /\ index' \in Indices
<1> USE DEF CallbackDoes, Starts, Commands
<1>1. CASE command \in {"greeting", "hello", "HELO"} /\ Connected(code) /\ UNCHANGED status
  BY <1>1 DEF Connected, Send, Ends, readerVars
<1>2. CASE command \in {"AUTH LOGIN", "user", "password"} /\ Authenticates(code) /\ UNCHANGED status
  BY <1>2 DEF Authenticates, Send, Ends, readerVars
<1>3. CASE command \in {"MAIL", "RCPT", "DATA"} /\ Sends(code) /\ UNCHANGED status
  <2>1. 1 \in Indices
    BY FirstIndex
  <2>2. CASE code # IF command = "DATA" THEN "3" ELSE "2"
    BY <1>3, <2>2 DEF Sends, Ends, readerVars, Send
  <2>3. CASE command = "MAIL" /\ Send("RCPT", 1)
    BY <1>3, <2>1, <2>3 DEF Send
  <2>4. CASE command = "RCPT" /\ ~AllNamed /\ Send("RCPT", NextIndex)
    <3>1. NextIndex \in Indices
      BY <2>4 DEF NextIndex, Indices, AllNamed
    <3>2. QED
      BY <1>3, <2>4, <3>1 DEF Send
  <2>5. CASE command = "RCPT" /\ Send("DATA", index)
    BY <1>3, <2>5 DEF Send
  <2>6. CASE command = "DATA" /\ Send("content", index)
    BY <1>3, <2>6 DEF Send
  <2>7. QED
    BY <1>3, <2>2, <2>3, <2>4, <2>5, <2>6 DEF Sends
<1>4. CASE command = "content" /\ status' = (code = "2")
           /\ IF code = "2" THEN Send("QUIT", index) ELSE Ends("IDLE")
  <2>1. CASE code = "2"
    BY <1>4, <2>1 DEF Send
  <2>2. CASE code # "2"
    BY <1>4, <2>2 DEF Ends, readerVars
  <2>3. QED
    BY <2>1, <2>2
<1>5. CASE command = "QUIT" /\ Ends("exiting") /\ UNCHANGED status
  BY <1>5 DEF Ends, readerVars
<1>6. QED
  BY <1>1, <1>2, <1>3, <1>4, <1>5 DEF Callback

\* Every step keeps the types.
LEMMA TypeStep ==
  ASSUME TypeOK, Control, [Next]_vars
  PROVE  TypeOK'
<1>1. /\ FlagsOK
      /\ lines \in Seq(Seq(Bytes)) /\ wire \in Seq(Bytes)
      /\ requests \in Seq(Commands \X Indices)
      /\ granted \subseteq Commands \X Indices
  BY TypesAre
<1>2. recipients \in Nat
  BY <1>1, RecipientsAssumption DEF FlagsOK
<1>3. ReaderOK
  BY <1>1 DEF Control, ReaderOK, FlagsOK
<1>4. TypeOK' <=> /\ FlagsOK'
                  /\ lines' \in Seq(Seq(Bytes)) /\ wire' \in Seq(Bytes)
                  /\ requests' \in Seq(Commands \X Indices')
                  /\ granted' \subseteq Commands \X Indices'
  BY TypesAre DEF TypeOK, FlagsOK
<1>5. ASSUME UNCHANGED recipients
      PROVE  Indices' = Indices
  BY <1>5 DEF Indices
<1>6. ASSUME NEW name, NEW code \in Codes, Replied(name, code)
      PROVE  wire' \in Seq(Bytes)
  BY <1>1, <1>6, RepliedIs, ConcatProperties
<1>7. ASSUME NEW name, NEW code, Replied(name, code)
      PROVE  mishaps' \subseteq {"cr", "fresh", "refused", "unsent", "down"}
  BY <1>1, <1>7 DEF Replied, FlagsOK
<1>8. CASE Connect
  <2>1. wire' \in Seq(Bytes) /\ mishaps' \subseteq {"cr", "fresh", "refused", "unsent", "down"}
    <3>1. "2" \in Codes /\ "5" \in Codes
      BY DEF Codes
    <3>2. QED
      BY <1>6, <1>7, <1>8, <3>1 DEF Connect
  <2>2. UNCHANGED <<recipients, command, index, lines, isLinePending, status, requests, granted, closed>>
        /\ state' \in States
    BY <1>8 DEF Connect, readerVars, States
  <2>3. QED
    BY <1>1, <1>4, <1>5, <2>1, <2>2 DEF FlagsOK
<1>9. CASE Receive
  <2>1. PICK bytes \in Seq(Bytes), rest \in Seq(Bytes) :
          /\ Reads(bytes, rest)
          /\ FailsWith(Split(bytes)) \/ CompletesWith(Split(bytes)) \/ GoesOnWith(Split(bytes))
    BY <1>1, <1>9, ReceiveIs
  <2>2. PICK array \in Pieces(Bytes) : array = Split(bytes)
    BY SplitType
  <2>3. /\ wire' \in Seq(Bytes) /\ UNCHANGED <<recipients, granted, closed>>
        /\ mishaps' \subseteq {"cr", "fresh", "refused", "unsent", "down"}
    BY <1>1, <2>1 DEF Reads, FlagsOK, Cuts
  <2>4. Indices' = Indices
    BY <1>5, <2>3
  <2>5. SUFFICES /\ state' \in States /\ command' \in Commands /\ index' \in Indices
                 /\ isLinePending' \in BOOLEAN /\ status' \in BOOLEAN
                 /\ lines' \in Seq(Seq(Bytes))
                 /\ requests' \in Seq(Commands \X Indices)
    BY <1>1, <1>4, <2>3, <2>4 DEF FlagsOK
  <2>6. CASE FailsWith(array)
    BY <1>1, <2>6 DEF FailsWith, Ends, readerVars, FlagsOK, States
  <2>7. CASE CompletesWith(array)
    <3>1. /\ CallbackDoes
          /\ status' \in BOOLEAN /\ command' \in Commands /\ index' \in Indices
      <4>1. status <=> command = "QUIT"
        BY DEF Control
      <4>2. command \in Commands /\ index \in Indices
        BY <1>1 DEF FlagsOK
      <4>3. PICK code : Callback(code)
        BY <2>7 DEF CompletesWith
      <4>4. QED
        BY <1>2, <4>1, <4>2, <4>3, CallbackIs
    <3>2. CASE state' = "READING" /\ Starts /\ requests' = Append(requests, <<command', index'>>)
      <4>1. PICK sent \in Commands \X Indices : sent = <<command', index'>>
        BY <3>1
      <4>2. requests' \in Seq(Commands \X Indices)
        BY <1>1, <3>2, <4>1, AppendProperties
      <4>3. lines' \in Seq(Seq(Bytes)) /\ isLinePending' \in BOOLEAN
        BY <3>2, EmptySeq DEF Starts
      <4>4. state' \in States
        BY <3>2 DEF States
      <4>5. QED
        BY <3>1, <4>2, <4>3, <4>4
    <3>3. CASE /\ state' \in {"exiting", "IDLE"}
               /\ UNCHANGED <<command, index, readerVars, requests>>
      BY <1>1, <3>1, <3>3 DEF readerVars, FlagsOK, States
    <3>4. QED
      BY <3>1, <3>2, <3>3 DEF CallbackDoes
  <2>8. CASE GoesOnWith(array)
    <3>1. lines' \in Seq(Seq(Bytes))
      <4>1. PICK n \in Nat : n = Len(array)
        BY DEF Pieces
      <4>2. LinesWith(array) \in Seq(Seq(Bytes))
        BY <1>3, <4>1, LinesWithAre
      <4>3. QED
        BY <2>8, <4>2 DEF GoesOnWith
    <3>2. isLinePending' \in BOOLEAN
      BY <1>1, <2>8 DEF GoesOnWith, StillPending, FlagsOK
    <3>3. QED
      BY <1>1, <2>8, <3>1, <3>2 DEF GoesOnWith, FlagsOK
  <2>9. QED
    BY <2>1, <2>2, <2>6, <2>7, <2>8
<1>10. CASE Close
  BY <1>1, <1>4, <1>5, <1>10 DEF Close, readerVars, FlagsOK, States
<1>11. CASE Return
  BY <1>1, <1>4, <1>5, <1>11 DEF Return, readerVars, FlagsOK, States
<1>12. CASE Answer
  <2>1. requests # <<>> /\ requests' = Tail(requests)
    BY <1>12 DEF Answer
  <2>2. Head(requests) \in Commands \X Indices /\ requests' \in Seq(Commands \X Indices)
    BY <1>1, <2>1, HeadTailProperties
  <2>3. PICK name \in Commands, i \in Indices : Head(requests) = <<name, i>>
    BY <2>2
  <2>4. \/ Replied(name, "5") /\ UNCHANGED granted
        \/ Replied(name, Yes(name)) /\ granted' = granted \cup {Head(requests)}
    BY <1>12, <2>3 DEF Answer
  <2>5. "5" \in Codes /\ Yes(name) \in Codes
    BY DEF Codes, Yes
  <2>6. wire' \in Seq(Bytes) /\ mishaps' \subseteq {"cr", "fresh", "refused", "unsent", "down"}
    BY <1>6, <1>7, <2>4, <2>5
  <2>7. UNCHANGED <<recipients, clientVars, closed>>
    BY <1>12 DEF Answer
  <2>8. granted' \subseteq Commands \X Indices
    BY <1>1, <2>2, <2>4
  <2>9. QED
    BY <1>1, <1>4, <1>5, <2>2, <2>6, <2>7, <2>8 DEF clientVars, readerVars, FlagsOK
<1>13. CASE ShutDown
  <2>1. PICK reply \in Replies["4"] : wire' = wire \o Join(reply)
    BY <1>13 DEF ShutDown
  <2>2. wire' \in Seq(Bytes)
    <3>1. "4" \in Codes
      BY DEF Codes
    <3>2. Join(reply) \in Seq(Bytes)
      BY <3>1, ReplyTold
    <3>3. QED
      BY <1>1, <2>1, <3>2, ConcatProperties
  <2>3. /\ UNCHANGED <<recipients, clientVars, requests, granted, closed>>
        /\ mishaps' = mishaps \cup {"down"}
    BY <1>13 DEF ShutDown
  <2>4. QED
    BY <1>1, <1>4, <1>5, <2>2, <2>3 DEF clientVars, readerVars, FlagsOK
<1>14. CASE UNCHANGED vars
  BY <1>1, <1>4, <1>5, <1>14 DEF vars, clientVars, readerVars, FlagsOK
<1>15. QED
  BY <1>8, <1>9, <1>10, <1>11, <1>12, <1>13, <1>14 DEF Next

\* Every step keeps the order of the commands.
LEMMA ControlStep ==
  ASSUME TypeOK, Control, [Next]_vars
  PROVE  Control'
<1>1. /\ FlagsOK
      /\ lines \in Seq(Seq(Bytes)) /\ wire \in Seq(Bytes)
      /\ requests \in Seq(Commands \X Indices)
      /\ granted \subseteq Commands \X Indices
  BY TypesAre
<1>2. /\ ~isLinePending => lines # <<>>
      /\ state = "CONNECTING" => /\ command = "greeting" /\ requests = <<>> /\ wire = <<>>
                                 /\ lines = <<>> /\ isLinePending /\ mishaps = {}
      /\ \A k \in 1..Len(requests) : requests[k][1] = "content" => command \in {"content", "QUIT"}
      /\ Grants("content") => command \in {"content", "QUIT"}
      /\ status <=> command = "QUIT"
      /\ state \in {"exiting", "returned"} =>
           command \notin {"hello", "MAIL", "RCPT", "DATA", "content"}
  BY DEF Control
<1>3. ReaderOK
  BY <1>1, <1>2 DEF ReaderOK, FlagsOK
<1>4. recipients \in Nat
  BY <1>1, RecipientsAssumption DEF FlagsOK
<1>5. ASSUME UNCHANGED <<command, index, readerVars, status, requests, granted>>,
             state' # "CONNECTING", state' \in {"exiting", "returned"} => state \in {"exiting", "returned"}
      PROVE  Control'
  BY <1>2, <1>5 DEF Control, Grants, readerVars
<1>6. CASE Connect
  BY <1>5, <1>6 DEF Connect
<1>7. CASE Receive
  <2>1. PICK bytes \in Seq(Bytes), rest \in Seq(Bytes) :
          /\ Reads(bytes, rest)
          /\ FailsWith(Split(bytes)) \/ CompletesWith(Split(bytes)) \/ GoesOnWith(Split(bytes))
    BY <1>1, <1>7, ReceiveIs
  <2>2. PICK array \in Pieces(Bytes) : array = Split(bytes)
    BY SplitType
  <2>3. state = "READING" /\ UNCHANGED granted
    BY <2>1 DEF Reads
  <2>4. CASE FailsWith(array)
    BY <1>5, <2>3, <2>4 DEF FailsWith, Ends
  <2>5. CASE CompletesWith(array)
    <3>1. /\ CallbackDoes
          /\ status' \in BOOLEAN /\ command' \in Commands /\ index' \in Indices
      <4>1. command \in Commands /\ index \in Indices
        BY <1>1 DEF FlagsOK
      <4>2. PICK code : Callback(code)
        BY <2>5 DEF CompletesWith
      <4>3. QED
        BY <1>2, <1>4, <4>1, <4>2, CallbackIs
    <3>2. CASE /\ state' = "READING" /\ Starts
               /\ requests' = Append(requests, <<command', index'>>)
               /\ command' # "greeting"
               /\ status' <=> command' = "QUIT"
               /\ command \in {"content", "QUIT"} => command' = "QUIT"
      <4>1. Grants("content")' => command' \in {"content", "QUIT"}
        BY <1>2, <2>3, <3>2 DEF Grants
      <4>2. ASSUME NEW k \in 1..Len(requests'), requests'[k][1] = "content"
            PROVE  command' \in {"content", "QUIT"}
        <5>1. PICK sent \in Commands \X Indices : sent = <<command', index'>> /\ sent[1] = command'
          <6>1. PICK name \in Commands, i \in Indices : name = command' /\ i = index'
            BY <3>1
          <6>2. <<name, i>> \in Commands \X Indices /\ <<name, i>>[1] = name
            OBVIOUS
          <6>3. QED
            BY <6>1, <6>2
        <5>2. /\ Len(requests') = Len(requests) + 1 /\ Len(requests) \in Nat
              /\ requests'[Len(requests) + 1] = sent
              /\ \A j \in 1..Len(requests) : requests'[j] = requests[j]
          BY <1>1, <3>2, <5>1, AppendProperties, LenProperties
        <5>3. k \in 1..Len(requests) \/ k = Len(requests) + 1
          <6>1. PICK m \in Nat : m = Len(requests)
            BY <5>2
          <6>2. k \in 1..(m + 1)
            BY <4>2, <5>2, <6>1
          <6>3. k \in 1..m \/ k = m + 1
            BY <6>2
          <6>4. QED
            BY <6>1, <6>3
        <5>4. CASE k \in 1..Len(requests)
          BY <1>2, <3>2, <4>2, <5>2, <5>4
        <5>5. CASE k = Len(requests) + 1
          BY <4>2, <5>1, <5>2, <5>5
        <5>6. QED
          BY <5>3, <5>4, <5>5
      <4>3. QED
        BY <3>2, <4>1, <4>2 DEF Control, Starts
    <3>3. CASE /\ state' \in {"exiting", "IDLE"}
               /\ UNCHANGED <<command, index, readerVars, requests>>
               /\ status' <=> command' = "QUIT"
               /\ state' = "exiting" => command \notin {"hello", "MAIL", "RCPT", "DATA", "content"}
      BY <1>2, <2>3, <3>3 DEF Control, Grants, readerVars
    <3>4. QED
      BY <3>1, <3>2, <3>3 DEF CallbackDoes
  <2>6. CASE GoesOnWith(array)
    <3>1. lines' # <<>>
      <4>1. PICK n \in Nat : n = Len(array)
        BY DEF Pieces
      <4>2. LinesWith(array) # <<>>
        BY <1>3, <4>1, LinesWithAre
      <4>3. QED
        BY <2>6, <4>2 DEF GoesOnWith
    <3>2. QED
      BY <1>2, <2>3, <2>6, <3>1 DEF GoesOnWith, Control, Grants
  <2>7. QED
    BY <2>1, <2>2, <2>4, <2>5, <2>6
<1>8. CASE Close
  <2>1. UNCHANGED <<command, index, readerVars, status, requests, granted, wire, mishaps>>
        /\ (state' = "CONNECTING" => state = "CONNECTING")
        /\ (state' \in {"exiting", "returned"} => state \in {"exiting", "returned"})
    BY <1>8 DEF Close
  <2>2. QED
    BY <1>2, <2>1 DEF Control, Grants, readerVars
<1>9. CASE Return
  BY <1>5, <1>9 DEF Return
<1>10. CASE Answer
  <2>1. /\ requests # <<>> /\ requests' = Tail(requests)
        /\ granted' = granted \/ granted' = granted \cup {Head(requests)}
        /\ UNCHANGED <<state, command, index, lines, isLinePending, status>>
    BY <1>10 DEF Answer, clientVars, readerVars
  <2>2. /\ Len(Tail(requests)) = Len(requests) - 1 /\ Len(requests) \in Nat \ {0}
        /\ \A k \in 1..Len(Tail(requests)) : Tail(requests)[k] = requests[k + 1]
        /\ Head(requests) = requests[1]
    BY <1>1, <2>1, HeadTailProperties, EmptySeq
  <2>3. ASSUME NEW k \in 1..Len(requests'), requests'[k][1] = "content"
        PROVE  command' \in {"content", "QUIT"}
    <3>1. k + 1 \in 1..Len(requests)
      <4>1. PICK m \in Nat : m = Len(requests) /\ m # 0
        BY <2>2
      <4>2. k \in 1..(m - 1)
        BY <2>1, <2>2, <2>3, <4>1
      <4>3. k + 1 \in 1..m
        BY <4>2
      <4>4. QED
        BY <4>1, <4>3
    <3>2. requests'[k] = requests[k + 1]
      BY <2>1, <2>2, <2>3
    <3>3. QED
      BY <1>2, <2>1, <2>3, <3>1, <3>2
  <2>4. Grants("content")' => command' \in {"content", "QUIT"}
    <3>1. 1 \in 1..Len(requests)
      BY <2>2
    <3>2. Head(requests)[1] = "content" => command \in {"content", "QUIT"}
      BY <1>2, <2>2, <3>1
    <3>3. QED
      BY <1>2, <2>1, <3>2 DEF Grants
  <2>5. state' # "CONNECTING"
    BY <1>2, <2>1
  <2>6. QED
    BY <1>2, <2>1, <2>3, <2>4, <2>5 DEF Control
<1>11. CASE ShutDown
  <2>1. UNCHANGED <<state, command, index, readerVars, status, requests, granted>>
        /\ state # "CONNECTING"
    BY <1>11 DEF ShutDown, clientVars
  <2>2. QED
    BY <1>5, <2>1
<1>12. CASE UNCHANGED vars
  BY <1>2, <1>12 DEF Control, Grants, vars, clientVars, readerVars
<1>13. QED
  BY <1>6, <1>7, <1>8, <1>9, <1>10, <1>11, <1>12 DEF Next

\* What has been said: that the server shuts down, a refusal, or the answer that the
\* command asks for, when it has been given.
LEMMA SaidIs ==
  ASSUME NEW code \in Said
  PROVE  /\ code \in Codes
         /\ \/ code = "4" /\ "down" \in mishaps
            \/ code = "5" /\ requests = <<>> /\ mishaps \cap {"refused", "unsent"} # {}
            \/ /\ code = Yes(command) /\ requests = <<>>
               /\ command = "greeting" \/ <<command, index>> \in granted
         /\ code = Yes(command) =>
              requests = <<>> /\ (command = "greeting" \/ <<command, index>> \in granted)
         /\ code # Yes(command) /\ command \notin {"MAIL", "RCPT", "DATA", "content"} =>
              mishaps \cap {"refused", "down"} # {}
BY DEF Said, Codes, Yes, Refusal

\* Sending a command puts it alone on its way, when none is, or the server is down.
LEMMA SentAlone ==
  ASSUME NEW name, NEW i, Send(name, i), requests = <<>> \/ "down" \in mishaps,
         mishaps \subseteq mishaps'
  PROVE  "down" \notin mishaps' => requests' = << <<command', index'>> >>
<1>1. /\ requests' = Append(requests, <<name, i>>) /\ command' = name /\ index' = i
  BY DEF Send
<1>2. Append(<<>>, <<name, i>>) = << <<name, i>> >>
  OBVIOUS
<1>3. QED
  BY <1>1, <1>2

\* A callback keeps the chain of what was granted, and the wait is left without
\* success only for a reason.
LEMMA CallbackChain ==
  ASSUME TypeOK, Control, Chain, NEW code \in Said, Callback(code),
         UNCHANGED <<recipients, granted>>, mishaps \subseteq mishaps'
  PROVE  Chain' /\ Excuse'
<1>1. FlagsOK /\ recipients \in Nat
  BY TypesAre, RecipientsAssumption DEF FlagsOK
<1>2. /\ code = Yes(command) =>
           requests = <<>> /\ (command = "greeting" \/ <<command, index>> \in granted)
      /\ code # Yes(command) /\ command \notin {"MAIL", "RCPT", "DATA", "content"} =>
           mishaps' \cap {"refused", "down"} # {}
      /\ requests = <<>> \/ "down" \in mishaps
  BY SaidIs
<1>3. /\ "down" \notin mishaps => requests \in {<<>>, << <<command, index>> >>}
      /\ command \in {"RCPT", "DATA", "content", "QUIT"} => Grants("MAIL")
      /\ command = "RCPT" => \A i \in 1..(index - 1) : <<"RCPT", i>> \in granted
      /\ command \in {"DATA", "content", "QUIT"} =>
           recipients > 0 /\ \A i \in 1..recipients : <<"RCPT", i>> \in granted
      /\ command \in {"content", "QUIT"} => Grants("DATA")
      /\ command = "QUIT" => Grants("content")
  BY DEF Chain
<1>4. status <=> command = "QUIT"
  BY DEF Control
<1>5. \A name : Grants(name) => Grants(name)'
  BY DEF Grants
<1>6. ASSUME NEW how, Ends(how), UNCHANGED status, how = "IDLE" \/ command = "QUIT"
                                                   \/ mishaps' \cap {"refused", "down"} # {}
      PROVE  Chain' /\ Excuse'
  <2>1. UNCHANGED <<command, index, requests, granted, recipients>> /\ state' = how
    BY <1>6 DEF Ends
  <2>2. Chain'
    BY <1>3, <2>1 DEF Chain, Grants
  <2>3. Excuse'
    BY <1>4, <1>6, <2>1 DEF Excuse
  <2>4. QED
    BY <2>2, <2>3
<1>7. ASSUME NEW name \in {"hello", "HELO", "AUTH LOGIN", "user", "password", "MAIL"}, NEW i,
             Send(name, i)
      PROVE  Chain' /\ Excuse'
  <2>1. "down" \notin mishaps' => requests' = << <<command', index'>> >>
    BY <1>2, <1>7, SentAlone
  <2>2. state' = "READING" /\ command' \notin {"RCPT", "DATA", "content", "QUIT"}
    BY <1>7 DEF Send
  <2>3. QED
    BY <2>1, <2>2 DEF Chain, Excuse
<1>8. CASE command \in {"greeting", "hello", "HELO"} /\ Connected(code) /\ UNCHANGED status
  <2>1. Yes(command) = "2"
    BY <1>8 DEF Yes
  <2>2. CASE \E name \in {"hello", "HELO", "AUTH LOGIN"} : \E i : Send(name, i)
    BY <1>7, <2>2
  <2>3. CASE code # "2" /\ Ends("exiting")
    BY <1>2, <1>6, <1>8, <2>1, <2>3
  <2>4. QED
    BY <1>8, <2>2, <2>3 DEF Connected
<1>9. CASE command \in {"AUTH LOGIN", "user", "password"} /\ Authenticates(code) /\ UNCHANGED status
  <2>1. Yes(command) = IF command = "password" THEN "2" ELSE "3"
    BY <1>9 DEF Yes
  <2>2. CASE \E name \in {"user", "password", "MAIL"} : \E i : Send(name, i)
    BY <1>7, <2>2
  <2>3. CASE code # Yes(command) /\ Ends("exiting")
    BY <1>2, <1>6, <1>9, <2>3
  <2>4. QED
    BY <1>9, <2>1, <2>2, <2>3 DEF Authenticates
<1>10. CASE command \in {"MAIL", "RCPT", "DATA"} /\ Sends(code) /\ UNCHANGED status
  <2>1. Yes(command) = IF command = "DATA" THEN "3" ELSE "2"
    BY <1>10 DEF Yes
  <2>2. CASE Ends("IDLE")
    BY <1>6, <1>10, <2>2
  <2>3. CASE command = "MAIL" /\ code = "2" /\ Send("RCPT", 1)
    <3>1. <<command, index>> \in granted
      BY <1>2, <2>1, <2>3
    <3>2. <<"MAIL", index>>[1] = "MAIL"
      OBVIOUS
    <3>3. Grants("MAIL")'
      BY <1>5, <2>3, <3>1, <3>2 DEF Grants
    <3>4. "down" \notin mishaps' => requests' = << <<command', index'>> >>
      BY <1>2, <2>3, SentAlone
    <3>5. state' = "READING" /\ command' = "RCPT" /\ index' = 1
      BY <2>3 DEF Send
    <3>6. 1..(index' - 1) = {}
      BY <3>5
    <3>7. QED
      BY <3>3, <3>4, <3>5, <3>6 DEF Chain, Excuse
  <2>4. CASE command = "RCPT" /\ code = "2" /\ ~AllNamed /\ Send("RCPT", NextIndex)
    <3>1. <<"RCPT", index>> \in granted
      BY <1>2, <2>1, <2>4
    <3>2. "down" \notin mishaps' => requests' = << <<command', index'>> >>
      BY <1>2, <2>4, SentAlone
    <3>3. state' = "READING" /\ command' = "RCPT" /\ index' = NextIndex
      BY <2>4 DEF Send
    <3>4. PICK n \in Nat, r \in Nat : n = index /\ r = recipients
      BY <1>1 DEF FlagsOK, Indices
    <3>5. index' = IF r = 0 THEN 1 ELSE n + 1
      BY <3>3, <3>4 DEF NextIndex
    <3>6. ASSUME NEW i \in 1..(index' - 1)
          PROVE  <<"RCPT", i>> \in granted'
      <4>1. r # 0 /\ (i \in 1..(n - 1) \/ i = n)
        <5>1. PICK m : m = index'
          OBVIOUS
        <5>2. i \in 1..(m - 1)
          BY <3>6, <5>1
        <5>3. CASE r = 0
          <6>1. m = 1
            BY <3>5, <5>1, <5>3
          <6>2. FALSE
            BY <5>2, <6>1
          <6>3. QED
            BY <6>2
        <5>4. CASE r # 0
          <6>1. m = n + 1
            BY <3>5, <5>1, <5>4
          <6>2. QED
            BY <5>2, <5>4, <6>1
        <5>5. QED
          BY <5>3, <5>4
      <4>2. CASE i \in 1..(n - 1)
        BY <1>3, <2>4, <3>4, <4>2
      <4>3. CASE i = n
        BY <3>1, <3>4, <4>3
      <4>4. QED
        BY <4>1, <4>2, <4>3
    <3>7. Grants("MAIL")'
      BY <1>3, <1>5, <2>4
    <3>8. QED
      BY <3>2, <3>3, <3>6, <3>7 DEF Chain, Excuse
  <2>5. CASE command = "RCPT" /\ code = "2" /\ AllNamed /\ Send("DATA", index)
    <3>1. <<"RCPT", index>> \in granted
      BY <1>2, <2>1, <2>5
    <3>2. "down" \notin mishaps' => requests' = << <<command', index'>> >>
      BY <1>2, <2>5, SentAlone
    <3>3. state' = "READING" /\ command' = "DATA"
      BY <2>5 DEF Send
    <3>4. PICK n \in Nat : n = index /\ n = recipients
      BY <1>1, <2>5 DEF FlagsOK, Indices, AllNamed
    <3>5. recipients > 0
      <4>1. n # 0
        <5>1. n \in 1..(IF n = 0 THEN 1 ELSE n)
          BY <1>1, <3>4 DEF FlagsOK, Indices
        <5>2. QED
          BY <5>1
      <4>2. n > 0
        BY <4>1
      <4>3. QED
        BY <3>4, <4>2
    <3>6. ASSUME NEW i \in 1..recipients
          PROVE  <<"RCPT", i>> \in granted
      <4>1. i \in 1..(n - 1) \/ i = n
        <5>1. i \in 1..n
          BY <3>4
        <5>2. QED
          BY <5>1
      <4>2. CASE i \in 1..(n - 1)
        BY <1>3, <2>5, <3>4, <4>2
      <4>3. CASE i = n
        BY <3>1, <3>4, <4>3
      <4>4. QED
        BY <4>1, <4>2, <4>3
    <3>7. Grants("MAIL")'
      BY <1>3, <1>5, <2>5
    <3>8. QED
      BY <3>2, <3>3, <3>5, <3>6, <3>7 DEF Chain, Excuse
  <2>6. CASE command = "DATA" /\ code = "3" /\ Send("content", index)
    <3>1. <<"DATA", index>> \in granted
      BY <1>2, <2>1, <2>6
    <3>2. "down" \notin mishaps' => requests' = << <<command', index'>> >>
      BY <1>2, <2>6, SentAlone
    <3>3. state' = "READING" /\ command' = "content"
      BY <2>6 DEF Send
    <3>4. <<"DATA", index>>[1] = "DATA"
      OBVIOUS
    <3>5. Grants("DATA")' /\ Grants("MAIL")'
      BY <1>3, <1>5, <2>6, <3>1, <3>4 DEF Grants
    <3>6. QED
      BY <1>3, <2>6, <3>2, <3>3, <3>5 DEF Chain, Excuse
  <2>7. QED
    BY <1>10, <2>2, <2>3, <2>4, <2>5, <2>6 DEF Sends
<1>11. CASE command = "content" /\ status' = (code = "2")
            /\ IF code = "2" THEN Send("QUIT", index) ELSE Ends("IDLE")
  <2>1. CASE code = "2"
    <3>1. <<"content", index>> \in granted
      BY <1>2, <1>11, <2>1 DEF Yes
    <3>2. Send("QUIT", index)
      BY <1>11, <2>1
    <3>3. "down" \notin mishaps' => requests' = << <<command', index'>> >>
      BY <1>2, <3>2, SentAlone
    <3>4. state' = "READING" /\ command' = "QUIT"
      BY <3>2 DEF Send
    <3>5. <<"content", index>>[1] = "content"
      OBVIOUS
    <3>6. Grants("DATA")' /\ Grants("MAIL")' /\ Grants("content")'
      BY <1>3, <1>5, <1>11, <3>1, <3>5 DEF Grants
    <3>7. QED
      BY <1>3, <1>11, <3>3, <3>4, <3>6 DEF Chain, Excuse
  <2>2. CASE code # "2"
    <3>1. UNCHANGED <<command, index, requests, granted, recipients>> /\ state' = "IDLE"
      BY <1>11, <2>2 DEF Ends
    <3>2. QED
      BY <1>3, <3>1 DEF Chain, Grants, Excuse
  <2>3. QED
    BY <2>1, <2>2
<1>12. CASE command = "QUIT" /\ Ends("exiting") /\ UNCHANGED status
  BY <1>6, <1>12
<1>13. QED
  BY <1>8, <1>9, <1>10, <1>11, <1>12 DEF Callback

\* A text that says only what the server has said, and of that only the shutdown, is
\* true of whatever the server has said afterwards.
LEMMA OnlyShutdownTold ==
  ASSUME NEW text, NEW codes, NEW more, Told(text, codes), OnlyShutdown(text),
         "4" \in codes => "4" \in more
  PROVE  Told(text, more)
<1>1. \A p \in 1..Len(text) : Visible(text, p) => text[p] \in more
  BY DEF Told, OnlyShutdown
<1>2. QED
  BY <1>1 DEF Told

\* A command is sent when only the shutdown can be among the bytes on their way.
LEMMA CallbackWire ==
  ASSUME NEW code, Callback(code), NEW rest \in Seq(Bytes), wire' = rest,
         Told(rest, Said), OnlyShutdown(rest), mishaps \subseteq mishaps',
         TypeOK, Control
  PROVE  Wire'
<1>1. recipients \in Nat /\ command \in Commands /\ index \in Indices
  BY TypesAre, RecipientsAssumption DEF FlagsOK
<1>2. CallbackDoes
  <2>1. status <=> command = "QUIT"
    BY DEF Control
  <2>2. QED
    BY <1>1, <2>1, CallbackIs
<1>3. SUFFICES ASSUME state' = "READING"
               PROVE  Reading(Text, Last(lines), Said)'
  BY DEF Wire
<1>4. lines' = <<>> /\ isLinePending' = TRUE
  BY <1>2, <1>3 DEF CallbackDoes, Starts
<1>5. Text' = rest
  <2>1. Text' = <<>> \o rest
    BY <1>4 DEF Text, Pending
  <2>2. <<>> \o rest = rest
    BY ConcatEmptySeq
  <2>3. QED
    BY <2>1, <2>2
<1>6. "4" \in Said => "4" \in Said'
  <2>1. "4" \in Said => "down" \in mishaps
    BY DEF Said, Yes
  <2>2. "down" \in mishaps' => "4" \in Said'
    BY DEF Said, Codes
  <2>3. QED
    BY <2>1, <2>2
<1>7. PICK codes, more : codes = Said /\ more = Said'
  OBVIOUS
<1>8. Told(rest, more)
  BY <1>6, <1>7, OnlyShutdownTold
<1>9. PICK last, text : last = Last(lines)' /\ text = Text'
  OBVIOUS
<1>10. Reading(text, last, more)'
  BY <1>4, <1>5, <1>8, <1>9 DEF Reading
<1>11. QED
  BY <1>7, <1>9, <1>10

\* What happened stays known, so that a client that was not deceived was not before.
LEMMA MishapsGrow ==
  ASSUME [Next]_vars, wire \in Seq(Bytes)
  PROVE  mishaps \subseteq mishaps' /\ (Deceived => Deceived')
<1>1. mishaps \subseteq mishaps'
  <2>1. ASSUME NEW name, NEW code, Replied(name, code)
        PROVE  mishaps \subseteq mishaps'
    BY <2>1 DEF Replied
  <2>2. CASE Receive
    <3>1. PICK bytes, rest : mishaps' = mishaps \cup Cuts(bytes, rest)
      BY <2>2, ReceiveIs DEF Reads
    <3>2. QED
      BY <3>1
  <2>3. CASE UNCHANGED mishaps
    BY <2>3
  <2>4. QED
    BY <2>1, <2>2, <2>3 DEF Next, Connect, Close, Return, Answer, ShutDown, vars
<1>2. QED
  BY <1>1 DEF Deceived

\* A reply that arrives while the client reads: the reader's text grows by it.
LEMMA ReplyRead ==
  ASSUME ReaderOK, wire \in Seq(Bytes), NEW text \in Seq(Bytes), text # <<>>,
         wire' = wire \o text, NEW code, Told(text, {code}),
         UNCHANGED <<lines, isLinePending>>,
         NEW codes, NEW more, codes \subseteq more, code \in more,
         Reading(Text, Last(lines), codes),
         code = "4" \/ codes = {}
  PROVE  Reading(Text, Last(lines), more)'
<1>1. PICK pend \in Seq(Bytes) : pend = Pending
  BY ContinuedIs, OnePieceType
<1>2. PICK t \in Seq(Bytes) : t = pend \o wire
  BY ConcatProperties
<1>3. PICK u \in Seq(Bytes) : u = t \o text /\ IsConcat(t, text, u)
  BY Concat, Zenon
<1>4. t = Text
  BY <1>1, <1>2 DEF Text
<1>5. u = Text'
  <2>1. Pending' = pend
    BY <1>1 DEF Pending
  <2>2. PICK w \in Seq(Bytes) : w = wire
    OBVIOUS
  <2>3. AreSame((pend \o w) \o text, pend \o (w \o text))
    BY Regroup1, Zenon
  <2>4. QED
    BY <1>2, <1>3, <2>1, <2>2, <2>3 DEF Text, AreSame
<1>6. /\ Told(t, codes)
      /\ ~isLinePending /\ HasCode(Last(lines)) =>
           Last(lines)[1] \in codes /\ (IsLastLine(Last(lines)) => OnlyShutdown(t))
  BY <1>4 DEF Reading
<1>7. code = "4" \/ \A p \in 1..Len(t) : ~Visible(t, p)
  BY <1>6 DEF Told
<1>8. /\ Told(u, codes \cup {code})
      /\ code = "4" /\ OnlyShutdown(t) => OnlyShutdown(u)
  BY <1>3, <1>6, <1>7, ReplyAppended
<1>9. Told(u, more)
  <2>1. codes \cup {code} \subseteq more
    OBVIOUS
  <2>2. QED
    BY <1>8, <2>1, ToldMore
<1>10. ASSUME ~isLinePending, HasCode(Last(lines))
       PROVE  Last(lines)[1] \in more /\ (IsLastLine(Last(lines)) => OnlyShutdown(u))
  BY <1>6, <1>8, <1>10
<1>11. QED
  BY <1>5, <1>9, <1>10 DEF Reading

\* The greeting is the first that is read.
LEMMA GreetingRead ==
  ASSUME NEW text \in Seq(Bytes), wire = <<>>, wire' = wire \o text, NEW code, Told(text, {code}),
         lines = <<>>, isLinePending, UNCHANGED <<lines, isLinePending>>,
         NEW more, code \in more
  PROVE  Reading(Text, Last(lines), more)'
<1>1. Pending' = <<>>
  BY DEF Pending
<1>2. <<>> \o text = text /\ <<>> \o (<<>> \o text) = text
  BY ConcatEmptySeq
<1>3. Text' = text
  BY <1>1, <1>2 DEF Text
<1>4. Told(text, more)
  <2>1. {code} \subseteq more
    OBVIOUS
  <2>2. QED
    BY <2>1, ToldMore
<1>5. QED
  BY <1>3, <1>4 DEF Reading

\* What the server may have said is known from four variables and the mishaps.
SameSaid == UNCHANGED <<requests, command, index, granted>>

\* What may have been said is not taken back while the client sends nothing.
LEMMA SaidGrows ==
  ASSUME SameSaid, mishaps \subseteq mishaps'
  PROVE  Said \subseteq Said'
BY DEF SameSaid, Said, Refusal, Yes

\* A bad cut says nothing.
LEMMA SaidStays ==
  ASSUME SameSaid, NEW more \in SUBSET {"cr", "fresh"}, mishaps' = mishaps \cup more
  PROVE  Said' = Said
<1>1. /\ "down" \in mishaps' <=> "down" \in mishaps
      /\ Refusal(command) \in mishaps' <=> Refusal(command) \in mishaps
  BY DEF Refusal
<1>2. Refusal(command)' = Refusal(command) /\ Yes(command)' = Yes(command)
  BY DEF SameSaid, Refusal, Yes
<1>3. QED
  BY <1>1, <1>2 DEF SameSaid, Said

\* A client that was not deceived: what it reads is what the server has said, and
\* what has been granted is what it has asked for.
Honest == Wire /\ Chain /\ Excuse

\* A chunk that is read: the reply fails, is complete, or goes on.
LEMMA ReceiveStep ==
  ASSUME TypeOK, Control, Honest, Receive, ~Deceived'
  PROVE  Honest'
<1>1. /\ FlagsOK
      /\ lines \in Seq(Seq(Bytes)) /\ wire \in Seq(Bytes)
  BY TypesAre
<1>2. ReaderOK
  BY <1>1 DEF Control, ReaderOK, FlagsOK
<1>3. PICK bytes \in Seq(Bytes), rest \in Seq(Bytes) :
        /\ Reads(bytes, rest)
        /\ FailsWith(Split(bytes)) \/ CompletesWith(Split(bytes)) \/ GoesOnWith(Split(bytes))
  BY <1>1, ReceiveIs
<1>4. PICK array : array = Split(bytes)
  OBVIOUS
<1>5. /\ state = "READING" /\ wire = bytes \o rest /\ wire' = rest
      /\ mishaps' = mishaps \cup Cuts(bytes, rest)
      /\ UNCHANGED <<recipients, granted>>
  BY <1>3 DEF Reads
<1>6. Drops(array) => ~Lookalikes
  BY <1>4, <1>5 DEF Cuts, Deceived
<1>7. PICK codes : codes = Said
  OBVIOUS
<1>8. Reading(Text, Last(lines), codes)
  BY <1>5, <1>7 DEF Honest, Wire
<1>9. /\ IsComplete(array) => Completes(array, rest, codes)
      /\ Continues(array, rest, codes)
      /\ LinesWith(array) # <<>>
  BY <1>2, <1>4, <1>5, <1>6, <1>8, WireRead
<1>10. mishaps \subseteq mishaps'
  BY <1>5
<1>11. CASE FailsWith(array)
  <2>1. /\ UNCHANGED <<command, index, requests, status>>
        /\ state' \notin {"READING", "exiting", "returned"}
    BY <1>11 DEF FailsWith, Ends
  <2>2. Chain'
    BY <1>5, <1>10, <2>1 DEF Honest, Chain, Grants
  <2>3. QED
    BY <2>1, <2>2 DEF Honest, Wire, Excuse
<1>12. CASE CompletesWith(array)
  <2>1. PICK code : code = Last(LinesWith(array))[1]
    OBVIOUS
  <2>2. IsComplete(array) /\ Callback(code)
    BY <1>12, <2>1 DEF CompletesWith
  <2>3. code \in Said /\ Told(rest, Said) /\ OnlyShutdown(rest)
    BY <1>7, <1>9, <2>1, <2>2 DEF Completes
  <2>4. Chain' /\ Excuse'
    BY <1>5, <1>10, <2>2, <2>3, CallbackChain DEF Honest
  <2>5. Wire'
    BY <1>5, <1>10, <2>2, <2>3, CallbackWire
  <2>6. QED
    BY <2>4, <2>5 DEF Honest
<1>13. CASE GoesOnWith(array)
  <2>1. /\ lines' = LinesWith(array) /\ isLinePending' = StillPending(array)
        /\ UNCHANGED <<state, command, index, status, requests>>
    BY <1>13 DEF GoesOnWith
  <2>2. Chain'
    BY <1>5, <1>10, <2>1 DEF Honest, Chain, Grants
  <2>3. Excuse'
    BY <1>10, <2>1 DEF Honest, Excuse
  <2>4. Said' = codes
    <3>1. PICK more \in SUBSET {"cr", "fresh"} : mishaps' = mishaps \cup more
      BY <1>5 DEF Cuts
    <3>2. SameSaid
      BY <1>5, <2>1 DEF SameSaid
    <3>3. QED
      BY <1>7, <3>1, <3>2, SaidStays
  <2>5. PICK last, pending : last = Last(LinesWith(array)) /\ pending = StillPending(array)
    OBVIOUS
  <2>6. PICK text : text = (IF pending THEN last ELSE <<>>) \o rest
    OBVIOUS
  <2>7. /\ Told(text, codes)
        /\ ~pending /\ HasCode(last) =>
             last[1] \in codes /\ (IsLastLine(last) => OnlyShutdown(text))
    BY <1>9, <2>5, <2>6 DEF Continues
  <2>8. Text' = text /\ Last(lines)' = last /\ (isLinePending' = pending)
    BY <1>5, <1>9, <2>1, <2>5, <2>6 DEF Text, Pending
  <2>9. Reading(Text, Last(lines), codes)'
    BY <2>7, <2>8 DEF Reading
  <2>10. Wire'
    BY <2>4, <2>9 DEF Wire
  <2>11. QED
    BY <2>2, <2>3, <2>10 DEF Honest
<1>14. QED
  BY <1>3, <1>4, <1>11, <1>12, <1>13

\* The server answers the one command that is on its way, so that its code is the first
\* that the client sees.
LEMMA AnswerStep ==
  ASSUME TypeOK, Control, Honest, Answer
  PROVE  Honest'
<1>1. /\ FlagsOK
      /\ lines \in Seq(Seq(Bytes)) /\ wire \in Seq(Bytes)
  BY TypesAre
<1>2. ReaderOK
  BY <1>1 DEF Control, ReaderOK, FlagsOK
<1>3. /\ requests # <<>> /\ "down" \notin mishaps /\ requests' = Tail(requests)
      /\ UNCHANGED <<recipients, state, command, index, lines, isLinePending, status>>
  BY DEF Answer, clientVars, readerVars
<1>4. requests = << <<command, index>> >>
  BY <1>3 DEF Honest, Chain
<1>5. requests' = <<>> /\ Head(requests) = <<command, index>>
  BY <1>3, <1>4
<1>6. PICK name, i : name = command /\ i = index
  OBVIOUS
<1>7. <<name, i>>[1] = name
  OBVIOUS
<1>8. PICK code \in {"5", Yes(name)} :
        /\ Replied(name, code)
        /\ code = "5" => UNCHANGED granted
        /\ code # "5" => granted' = granted \cup {<<name, i>>}
  <2>1. "5" # Yes(name)
    BY DEF Yes
  <2>2. \/ Replied(name, "5") /\ UNCHANGED granted
        \/ Replied(name, Yes(name)) /\ granted' = granted \cup {<<name, i>>}
    BY <1>5, <1>6, <1>7 DEF Answer
  <2>3. QED
    BY <2>1, <2>2
<1>9. code \in Codes
  BY DEF Codes, Yes
<1>10. PICK text \in Seq(Bytes) : text # <<>> /\ Told(text, {code}) /\ wire' = wire \o text
  BY <1>8, <1>9, RepliedIs
<1>11. mishaps \subseteq mishaps' /\ (code = "5" => Refusal(name) \in mishaps')
  BY <1>8 DEF Replied, Refusal
<1>12. granted \subseteq granted'
  BY <1>8
<1>13. code \in Said'
  <2>1. command' = name /\ index' = i /\ requests' = <<>>
    BY <1>3, <1>5, <1>6
  <2>2. CASE code = "5"
    BY <1>9, <1>11, <2>1, <2>2 DEF Said
  <2>3. CASE code = Yes(name) /\ code # "5"
    BY <1>8, <1>9, <2>1, <2>3 DEF Said
  <2>4. QED
    BY <2>2, <2>3
<1>14. Said = {}
  BY <1>3, <1>4 DEF Said
<1>15. Wire'
  <2>1. SUFFICES ASSUME state' = "READING"
                 PROVE  Reading(Text, Last(lines), Said)'
    BY DEF Wire
  <2>2. Reading(Text, Last(lines), {})
    BY <1>3, <1>14, <2>1 DEF Honest, Wire
  <2>3. PICK more : more = Said'
    OBVIOUS
  <2>4. PICK none : none = {}
    OBVIOUS
  <2>5. Reading(Text, Last(lines), none) /\ none \subseteq more /\ code \in more
    BY <1>13, <2>2, <2>3, <2>4
  <2>6. Reading(Text, Last(lines), more)'
    BY <1>1, <1>2, <1>3, <1>10, <2>4, <2>5, ReplyRead
  <2>7. QED
    BY <2>3, <2>6
<1>16. Chain'
  <2>1. \A some : Grants(some) => Grants(some)'
    BY <1>12 DEF Grants
  <2>2. QED
    BY <1>3, <1>5, <1>12, <2>1 DEF Honest, Chain
<1>17. Excuse'
  BY <1>3, <1>11 DEF Honest, Excuse
<1>18. QED
  BY <1>15, <1>16, <1>17 DEF Honest

\* The server says that it shuts down, behind whatever it has said.
LEMMA ShutDownStep ==
  ASSUME TypeOK, Control, Honest, ShutDown
  PROVE  Honest'
<1>1. /\ FlagsOK
      /\ lines \in Seq(Seq(Bytes)) /\ wire \in Seq(Bytes)
  BY TypesAre
<1>2. ReaderOK
  BY <1>1 DEF Control, ReaderOK, FlagsOK
<1>3. /\ UNCHANGED <<recipients, state, command, index, lines, isLinePending, status, requests, granted>>
      /\ mishaps' = mishaps \cup {"down"}
  BY DEF ShutDown, clientVars, readerVars
<1>4. "4" \in Codes
  BY DEF Codes
<1>5. PICK text \in Seq(Bytes) : text # <<>> /\ Told(text, {"4"}) /\ wire' = wire \o text
  <2>1. PICK reply \in Replies["4"] : wire' = wire \o Join(reply)
    BY DEF ShutDown
  <2>2. QED
    BY <1>4, <2>1, ReplyTold
<1>6. Wire'
  <2>1. SUFFICES ASSUME state' = "READING"
                 PROVE  Reading(Text, Last(lines), Said)'
    BY DEF Wire
  <2>2. PICK codes, more : codes = Said /\ more = Said'
    OBVIOUS
  <2>3. Reading(Text, Last(lines), codes)
    BY <1>3, <2>1, <2>2 DEF Honest, Wire
  <2>4. SameSaid
    BY <1>3 DEF SameSaid
  <2>5. codes \subseteq more
    BY <1>3, <2>2, <2>4, SaidGrows
  <2>6. "4" \in more
    BY <1>3, <1>4, <2>2 DEF Said
  <2>7. PICK code : code = "4"
    OBVIOUS
  <2>8. Reading(Text, Last(lines), more)'
    BY <1>1, <1>2, <1>3, <1>5, <2>3, <2>5, <2>6, <2>7, ReplyRead
  <2>9. QED
    BY <2>2, <2>8
<1>7. Chain'
  BY <1>3 DEF Honest, Chain, Grants
<1>8. Excuse'
  BY <1>3 DEF Honest, Excuse
<1>9. QED
  BY <1>6, <1>7, <1>8 DEF Honest

\* The connection is made.
LEMMA ConnectStep ==
  ASSUME TypeOK, Control, Honest, Connect
  PROVE  Honest'
<1>1. /\ command = "greeting" /\ requests = <<>> /\ wire = <<>> /\ lines = <<>> /\ isLinePending
      /\ UNCHANGED <<recipients, command, index, lines, isLinePending, status, requests, granted>>
      /\ state' = "READING"
  BY DEF Connect, Control, readerVars
<1>2. PICK code \in {"2", "5"} : Replied("greeting", code)
  BY DEF Connect
<1>3. code \in Codes
  BY DEF Codes
<1>4. PICK text \in Seq(Bytes) : text # <<>> /\ Told(text, {code}) /\ wire' = wire \o text
  BY <1>2, <1>3, RepliedIs
<1>5. mishaps \subseteq mishaps' /\ (code = "5" => "refused" \in mishaps')
  BY <1>2 DEF Replied
<1>6. code \in Said'
  <2>1. command' = "greeting" /\ requests' = <<>>
    BY <1>1
  <2>2. QED
    BY <1>3, <1>5, <2>1 DEF Said, Refusal, Yes
<1>7. Wire'
  <2>1. PICK more : more = Said'
    OBVIOUS
  <2>2. Reading(Text, Last(lines), more)'
    BY <1>1, <1>4, <1>6, <2>1, GreetingRead
  <2>3. QED
    BY <2>1, <2>2 DEF Wire
<1>8. Chain'
  BY <1>1 DEF Chain
<1>9. Excuse'
  BY <1>1 DEF Excuse
<1>10. QED
  BY <1>7, <1>8, <1>9 DEF Honest

\* The other steps: the connection is lost, or send returns.
LEMMA EndStep ==
  ASSUME TypeOK, Control, Honest, Close \/ Return \/ UNCHANGED vars
  PROVE  Honest'
<1>1. UNCHANGED <<recipients, command, index, lines, isLinePending, status, requests, wire, granted, mishaps>>
  BY DEF Close, Return, vars, clientVars, readerVars
<1>2. Chain'
  BY <1>1 DEF Honest, Chain, Grants
<1>3. state' = state \/ state' # "READING"
  BY DEF Close, Return, vars, clientVars
<1>4. Wire'
  BY <1>1, <1>3 DEF Honest, Wire, Reading, Text, Pending, Said
<1>5. state' \in {"exiting", "returned"} => state \in {"exiting", "returned"}
  BY DEF Close, Return, vars, clientVars
<1>6. Excuse'
  BY <1>1, <1>5 DEF Honest, Excuse
<1>7. QED
  BY <1>2, <1>4, <1>6 DEF Honest

\* The invariant holds at the start.
LEMMA InitInv == Init => IInv
<1>1. SUFFICES ASSUME Init
               PROVE  IInv
  OBVIOUS
<1>2. /\ recipients \in Recipients
      /\ state = "CONNECTING" /\ command = "greeting" /\ index = 1
      /\ lines = <<>> /\ isLinePending = TRUE
      /\ status = FALSE
      /\ requests = <<>> /\ wire = <<>>
      /\ granted = {} /\ closed = FALSE /\ mishaps = {}
  BY <1>1 DEF Init
<1>3. TypeOK
  <2>1. index \in Indices
    <3>1. recipients \in Nat
      BY <1>2, RecipientsAssumption
    <3>2. QED
      BY <1>2, <3>1, FirstIndex
  <2>2. FlagsOK
    BY <1>2, <2>1 DEF FlagsOK, States, Commands
  <2>3. /\ lines \in Seq(Seq(Bytes)) /\ wire \in Seq(Bytes)
        /\ requests \in Seq(Commands \X Indices)
    BY <1>2, EmptySeq
  <2>4. granted \subseteq Commands \X Indices
    BY <1>2
  <2>5. QED
    BY <2>2, <2>3, <2>4, TypesAre
<1>4. Control
  <2>1. Len(requests) = 0 /\ 1..0 = {}
    BY <1>2, EmptySeq
  <2>2. \A k \in 1..Len(requests) : requests[k][1] = "content" => command \in {"content", "QUIT"}
    BY <2>1
  <2>3. QED
    BY <1>2, <2>2 DEF Control, Grants
<1>5. Honest
  BY <1>2 DEF Honest, Wire, Chain, Excuse
<1>6. QED
  BY <1>3, <1>4, <1>5 DEF IInv, Honest

\* Every step keeps it.
LEMMA NextInv == IInv /\ [Next]_vars => IInv'
<1>1. SUFFICES ASSUME IInv, [Next]_vars
               PROVE  IInv'
  OBVIOUS
<1>2. TypeOK /\ Control /\ (~Deceived => Honest)
  BY <1>1 DEF IInv, Honest
<1>3. TypeOK'
  BY <1>1, <1>2, TypeStep
<1>4. Control'
  BY <1>1, <1>2, ControlStep
<1>5. ASSUME ~Deceived'
      PROVE  Honest'
  <2>1. wire \in Seq(Bytes)
    BY <1>2 DEF TypeOK
  <2>2. Honest
    BY <1>1, <1>2, <1>5, <2>1, MishapsGrow
  <2>3. CASE Connect
    BY <1>2, <2>2, <2>3, ConnectStep
  <2>4. CASE Receive
    BY <1>2, <1>5, <2>2, <2>4, ReceiveStep
  <2>5. CASE Close \/ Return \/ UNCHANGED vars
    BY <1>2, <2>2, <2>5, EndStep
  <2>6. CASE Answer
    BY <1>2, <2>2, <2>6, AnswerStep
  <2>7. CASE ShutDown
    BY <1>2, <2>2, <2>7, ShutDownStep
  <2>8. QED
    BY <1>1, <2>3, <2>4, <2>5, <2>6, <2>7 DEF Next
<1>6. QED
  BY <1>3, <1>4, <1>5 DEF IInv, Honest

\* The invariant: the types; the order of the commands; and, of a client that has
\* read no text as a code, that it has before it only what the server has said, that
\* the server has granted all that was asked before the current command, and that it
\* gave a reason to a client that left its wait without success.
THEOREM Invariant == Spec => []IInv
<1>1. Init => IInv
  BY InitInv
<1>2. IInv /\ [Next]_vars => IInv'
  BY NextInv
<1>3. QED
  BY <1>1, <1>2, PTL DEF Spec

\* The variables keep their types.
THEOREM TypeCorrect == Spec => []TypeOK
<1>1. IInv => TypeOK
  BY DEF IInv
<1>2. QED
  BY <1>1, Invariant, PTL

\* The content is sent only to a server that has said yes to the sender, to every
\* recipient and to DATA.
THEOREM ContentAwaited == Spec => []ContentIsAwaited
<1>1. IInv => ContentIsAwaited
  <2>1. SUFFICES ASSUME IInv, ~Deceived, NEW k \in 1..Len(requests), requests[k][1] = "content"
                 PROVE  EnvelopeGranted
    BY DEF ContentIsAwaited
  <2>2. command \in {"content", "QUIT"}
    BY <2>1 DEF IInv, Control
  <2>3. QED
    BY <2>1, <2>2 DEF IInv, Chain, EnvelopeGranted
<1>2. QED
  BY <1>1, Invariant, PTL

\* The result of send: true only when the server has taken the mail, and whenever it
\* has.
THEOREM StatusTrue == Spec => []StatusIsTrue
<1>1. IInv => StatusIsTrue
  <2>1. SUFFICES ASSUME IInv, state = "returned"
                 PROVE  /\ status /\ ~Deceived => Grants("content")
                        /\ Grants("content") => status
    BY DEF StatusIsTrue
  <2>2. ASSUME status, ~Deceived
        PROVE  Grants("content")
    BY <2>1, <2>2 DEF IInv, Control, Chain
  <2>3. ASSUME Grants("content")
        PROVE  status
    BY <2>1, <2>3 DEF IInv, Control
  <2>4. QED
    BY <2>2, <2>3
<1>2. QED
  BY <1>1, Invariant, PTL

\* A result that is false has a reason: a refusal of the session, or a shutdown.
THEOREM FailureReason == Spec => []FailureHasAReason
<1>1. IInv => FailureHasAReason
  BY DEF IInv, Excuse, FailureHasAReason
<1>2. QED
  BY <1>1, Invariant, PTL
==================================================================================

---------------------------- MODULE POP3GetAllProofs ----------------------------
(***************************************************************************)
(* getAll, proved for every mailbox and every way to cut the replies.      *)
(*                                                                         *)
(* The invariant says, of every state in which a reply is read, that what  *)
(* has been read and what is on its way make the text of that reply; what  *)
(* has been read is a text by ReaderText, which puts the doubled dots back.*)
(* A chunk moves bytes from one to the other, and Split and Join are       *)
(* inverses, so that a reply that is complete has the text of its message. *)
(* A second invariant, Exact, keeps line ends out of the lines that are    *)
(* read, and two dots out of those that have ended, as long as no chunk    *)
(* ends inside one: the text then has only one way to be lines.            *)
(***************************************************************************)
EXTENDS POP3GetAll, CRLFLinesProofs

-----------------------------------------------------------------------------
(* The replies of the server.                                               *)

\* The replies of one line, as bytes.
LEMMA Texts ==
  /\ CRLF \in Seq(Bytes)
  /\ Positive \in Seq(Seq(Bytes)) /\ Negative \in Seq(Seq(Bytes))
  /\ Join(Positive) = <<"+OK", "CR", "LF">> /\ Join(Negative) = <<"-ERR", "CR", "LF">>
<1>1. CRLF \in Seq(Bytes) /\ <<"+OK">> \in Seq(Bytes) /\ <<"-ERR">> \in Seq(Bytes)
  BY DEF CRLF, Bytes
<1>2. Positive \in Seq(Seq(Bytes)) /\ Negative \in Seq(Seq(Bytes))
  BY <1>1 DEF Positive, Negative
<1>3. Join(Positive) = <<"+OK">> \o CRLF /\ Join(Negative) = <<"-ERR">> \o CRLF
  BY <1>1, JoinOne DEF Positive, Negative
<1>4. /\ <<"+OK">> \o <<"CR", "LF">> = <<"+OK", "CR", "LF">>
      /\ <<"-ERR">> \o <<"CR", "LF">> = <<"-ERR", "CR", "LF">>
  BY Literal3
<1>5. QED
  BY <1>1, <1>2, <1>3, <1>4 DEF CRLF

\* The lines of a message are sequences of bytes without LF, and none is the end of a
\* reply.
LEMMA MessageType ==
  ASSUME mailbox \in Mailboxes, NEW m \in Messages
  PROVE  /\ mailbox[m] \in Seq(Seq(Bytes))
         /\ \A k \in 1..Len(mailbox[m]) :
              /\ mailbox[m][k] # <<".">>
              /\ \A i \in 1..Len(mailbox[m][k]) : mailbox[m][k][i] \in Bytes \ {"LF"}
<1> DEFINE Clean == Bytes \ {"LF"}
<1>1. mailbox \in Seq(Seq(Seq(Clean)))
  BY MailboxesAssumption
<1>2. \A k \in 1..Len(mailbox[m]) : mailbox[m][k] # <<".">>
  BY MailboxesAssumption DEF Messages
<1> HIDE DEF Clean
<1>3. mailbox[m] \in Seq(Seq(Clean))
  BY <1>1, ElementOfSeq DEF Messages
<1>4. ASSUME NEW k \in 1..Len(mailbox[m])
      PROVE  \A i \in 1..Len(mailbox[m][k]) : mailbox[m][k][i] \in Clean
  BY <1>3, ElementOfSeq
<1>5. Seq(Clean) \subseteq Seq(Bytes)
  BY DEF Clean
<1>6. mailbox[m] \in Seq(Seq(Bytes))
  BY <1>3, <1>5
<1>7. QED
  BY <1>2, <1>4, <1>6 DEF Clean

\* The reply to RETR consists of unbroken lines, of which only the last one can be a
\* dot.
LEMMA RetrievedType ==
  ASSUME mailbox \in Mailboxes, NEW m \in Messages
  PROVE  /\ Retrieved(m) \in Seq(Seq(Bytes))
         /\ IsUnbroken(Retrieved(m))
         /\ \A k \in 1..Len(Retrieved(m)) : Retrieved(m)[k] = <<".">> => k = Len(Retrieved(m))
<1> DEFINE L == Seq(Bytes)
           body == mailbox[m]
           most == Positive \o body
           dot == << <<".">> >>
<1>1. body \in Seq(L) /\ Positive \in Seq(L) /\ dot \in Seq(L)
  BY MessageType, Texts DEF Bytes
<1>1a. /\ Len(Positive) = 1 /\ Positive[1] = <<"+OK">>
       /\ Len(dot) = 1 /\ dot[1] = <<".">>
  BY DEF Positive
<1>2. \A k \in 1..Len(body) : body[k] # <<".">> /\ \A i \in 1..Len(body[k]) : body[k][i] # "LF"
  BY MessageType
<1>3. Retrieved(m) = most \o dot
  BY DEF Retrieved
<1> HIDE DEF L, body, dot
<1>4. /\ most \in Seq(L) /\ Len(most) = 1 + Len(body) /\ Len(body) \in Nat
      /\ most[1] = <<"+OK">>
      /\ \A i \in 1..Len(body) : most[1 + i] = body[i]
  <2>1. most \in Seq(L) /\ IsConcat(Positive, body, most)
    BY <1>1, Concat, Zenon
  <2> HIDE DEF most
  <2>2. QED
    BY <1>1a, <2>1 DEF IsConcat
<1> HIDE DEF most
<1>5. /\ most \o dot \in Seq(L) /\ Len(most \o dot) = Len(most) + 1
      /\ \A i \in 1..Len(most) : (most \o dot)[i] = most[i]
      /\ (most \o dot)[Len(most) + 1] = <<".">>
  <2>1. PICK r : r = most \o dot
    OBVIOUS
  <2>2. r \in Seq(L) /\ IsConcat(most, dot, r)
    BY <1>1, <1>4, <2>1, Concat, Zenon
  <2>3. QED
    BY <1>1a, <2>1, <2>2 DEF IsConcat
<1>6. ASSUME NEW k \in 1..Len(most)
      PROVE  most[k] # <<".">> /\ \A i \in 1..Len(most[k]) : most[k][i] # "LF"
  <2>1. CASE k = 1
    BY <1>4, <2>1
  <2>2. CASE k # 1
    <3>1. PICK i \in 1..Len(body) : k = 1 + i
      <4>1. k - 1 \in 1..Len(body) /\ k = 1 + (k - 1)
        BY <1>4, <2>2
      <4>2. QED
        BY <4>1
    <3>2. most[k] = body[i]
      BY <1>4, <3>1
    <3>3. QED
      BY <1>2, <3>2
  <2>3. QED
    BY <2>1, <2>2
<1>7. ASSUME NEW k \in 1..(Len(most) + 1)
      PROVE  /\ (most \o dot)[k] = <<".">> => k = Len(most) + 1
             /\ \A i \in 1..Len((most \o dot)[k]) : (most \o dot)[k][i] # "LF"
  <2>1. CASE k = Len(most) + 1
    <3>1. \A i \in 1..Len(<<".">>) : <<".">>[i] # "LF"
      OBVIOUS
    <3>2. QED
      BY <1>5, <2>1, <3>1
  <2>2. CASE k # Len(most) + 1
    <3>1. k \in 1..Len(most)
      BY <1>4, <2>2
    <3>2. QED
      BY <1>5, <1>6, <2>2, <3>1
  <2>3. QED
    BY <2>1, <2>2
<1>8. QED
  BY <1>3, <1>5, <1>7 DEF L, IsUnbroken

\* The text of the reply to RETR: the positive line, the message, and the dot.
LEMMA ReplyText ==
  ASSUME mailbox \in Mailboxes, NEW m \in Messages
  PROVE  /\ Join(Retrieved(m)) \in Seq(Bytes)
         /\ Join(mailbox[m]) \in Seq(Bytes)
         /\ Join(Retrieved(m)) = <<"+OK", "CR", "LF">> \o (Join(mailbox[m]) \o <<".", "CR", "LF">>)
<1> DEFINE dot == << <<".">> >>
           last == <<".", "CR", "LF">>
           first == <<"+OK", "CR", "LF">>
<1>1. /\ mailbox[m] \in Seq(Seq(Bytes)) /\ Positive \in Seq(Seq(Bytes)) /\ dot \in Seq(Seq(Bytes))
      /\ CRLF \in Seq(Bytes)
  BY MessageType, Texts DEF Bytes
<1>2. Join(dot) = last /\ last \in Seq(Bytes) /\ first \in Seq(Bytes)
  <2>1. <<".">> \in Seq(Bytes) /\ last \in Seq(Bytes) /\ first \in Seq(Bytes)
    BY DEF Bytes
  <2>2. <<".">> \o <<"CR", "LF">> = last
    BY Literal3
  <2>3. Join(dot) = <<".">> \o CRLF
    BY <1>1, <2>1, JoinOne
  <2>4. QED
    BY <2>1, <2>2, <2>3 DEF CRLF
<1>3. Join(Positive) = first
  BY Texts
<1> HIDE DEF dot, last, first
<1>4. Positive \o mailbox[m] \in Seq(Seq(Bytes))
  BY <1>1, ConcatProperties
<1>5. Join((Positive \o mailbox[m]) \o dot) = (Join(Positive) \o Join(mailbox[m])) \o Join(dot)
  <2>1. Join(Positive \o mailbox[m]) = Join(Positive) \o Join(mailbox[m])
    BY <1>1, JoinConcat
  <2> DEFINE most == Positive \o mailbox[m]
  <2> HIDE DEF most
  <2>2. Join(most \o dot) = Join(most) \o Join(dot)
    BY <1>1, <1>4, JoinConcat DEF most
  <2>3. QED
    BY <2>1, <2>2 DEF most
<1>6. PICK J \in Seq(Bytes), f \in Seq(Bytes), l \in Seq(Bytes) :
        J = Join(mailbox[m]) /\ f = first /\ l = last
  BY <1>1, <1>2, JoinType
<1>7. (f \o J) \o l = f \o (J \o l)
  <2> HIDE <1>6
  <2> QED OBVIOUS
<1>8. Join(Retrieved(m)) = f \o (J \o l)
  BY <1>2, <1>3, <1>5, <1>6, <1>7 DEF Retrieved, dot
<1>9. Join(Retrieved(m)) \in Seq(Bytes)
  BY RetrievedType, Texts, JoinType
<1>10. QED
  BY <1>6, <1>8, <1>9 DEF first, last

\* Where the text of a message says ".", CR, LF at the beginning of a line, it ends.
LEMMA DotEnds ==
  ASSUME mailbox \in Mailboxes, NEW m \in Messages,
         NEW u \in Seq(Bytes), NEW v \in Seq(Bytes)
  PROVE  /\ Join(Retrieved(m)) = (u \o (<<".">> \o CRLF)) \o v
         /\ u = <<>> \/ Last(u) = "LF"
         => v = <<>>
<1> DEFINE L == Retrieved(m)
           text == Join(L)
           p == Len(u) + 1
           dot == <<".">> \o CRLF
<1>0. SUFFICES ASSUME Join(Retrieved(m)) = (u \o (<<".">> \o CRLF)) \o v,
                      u = <<>> \/ Last(u) = "LF"
               PROVE  v = <<>>
  OBVIOUS
<1>1. /\ L \in Seq(Seq(Bytes)) /\ IsUnbroken(L) /\ CRLF \in Seq(Bytes)
      /\ \A k \in 1..Len(L) : L[k] = <<".">> => k = Len(L)
  BY RetrievedType, Texts
<1> HIDE DEF L
<1>2. text = (u \o dot) \o v
  BY <1>0 DEF L
<1>3. dot \in Seq(Bytes) /\ Len(dot) = 3 /\ dot[1] = "." /\ dot[2] = "CR" /\ dot[3] = "LF"
  BY DEF CRLF, Bytes
<1> HIDE DEF dot
<1>4. text \in Seq(Bytes) /\ IsConcat3(u, dot, v, text)
  BY <1>2, <1>3, Concat3, Zenon
<1> HIDE DEF text
<1>5. /\ Len(text) = Len(u) + 3 + Len(v) /\ Len(v) \in Nat /\ Len(u) \in Nat
      /\ \A i \in 1..Len(u) : text[i] = u[i]
      /\ \A i \in 1..3 : text[Len(u) + i] = dot[i]
  BY <1>3, <1>4 DEF IsConcat3
<1>6. p \in 1..Len(text) /\ IsStart(text, p)
  <2>1. p \in 1..Len(text)
    BY <1>5
  <2>2. CASE u = <<>>
    BY <2>1, <2>2 DEF IsStart
  <2>3. CASE u # <<>>
    <3>1. Len(u) \in 1..Len(u) /\ u[Len(u)] = "LF"
      BY <1>0, <1>5, <2>3, EmptySeq DEF Last
    <3>2. text[p - 1] = "LF"
      BY <1>5, <3>1
    <3>3. QED
      BY <2>1, <3>2 DEF IsStart
  <2>4. QED
    BY <2>1, <2>2, <2>3
<1>7. PICK k \in 1..Len(L) : BeginsAt(L, k, p, Bytes)
  BY <1>1, <1>6, LineStart DEF text
<1>8. PICK before \in Seq(Bytes), after \in Seq(Bytes) :
        /\ text = (before \o (L[k] \o CRLF)) \o after
        /\ Len(before) = p - 1
        /\ k = Len(L) => after = <<>>
  BY <1>7 DEF BeginsAt, text
<1> DEFINE line == L[k]
           ended == line \o CRLF
<1>9. line \in Seq(Bytes) /\ \A i \in 1..Len(line) : line[i] # "LF"
  BY <1>1, ElementOfSeq DEF IsUnbroken
<1>9a. text = (before \o ended) \o after
  BY <1>8
<1> HIDE DEF line
<1>10. /\ ended \in Seq(Bytes) /\ Len(ended) = Len(line) + 2 /\ Len(line) \in Nat
       /\ \A i \in 1..Len(line) : ended[i] = line[i]
       /\ ended[Len(line) + 1] = "CR" /\ ended[Len(line) + 2] = "LF"
  <2>1. Len(CRLF) = 2 /\ CRLF[1] = "CR" /\ CRLF[2] = "LF"
    BY DEF CRLF
  <2>3. ended \in Seq(Bytes) /\ IsConcat(line, CRLF, ended)
    BY <1>1, <1>9, Concat, Zenon
  <2> HIDE DEF ended
  <2>2. QED
    BY <2>1, <2>3 DEF IsConcat
<1> HIDE DEF ended
<1>11. /\ Len(before) = Len(u)
       /\ Len(text) = Len(u) + Len(ended) + Len(after) /\ Len(after) \in Nat
       /\ \A i \in 1..Len(ended) : text[Len(u) + i] = ended[i]
  <2>1. Len(before) = Len(u)
    BY <1>5, <1>8
  <2>2. IsConcat3(before, ended, after, text)
    BY <1>9a, <1>10, Concat3, Zenon
  <2>3. QED
    BY <2>1, <2>2 DEF IsConcat3
<1>12. ended[1] = "." /\ ended[2] = "CR" /\ (3 <= Len(ended) => ended[3] = "LF")
  <2>1. Len(ended) >= 2
    BY <1>10
  <2>2. \A i \in 1..3 : i <= Len(ended) => ended[i] = dot[i]
    BY <1>5, <1>10, <1>11
  <2>3. QED
    BY <1>3, <2>1, <2>2
<1>13. Len(line) = 1
  <2>1. Len(line) # 0
    BY <1>10, <1>12
  <2>2. Len(line) # 2
    <3>1. SUFFICES ASSUME Len(line) = 2 PROVE FALSE
      OBVIOUS
    <3>2. Len(ended) = 4 /\ ended[3] = "CR"
      BY <1>10, <3>1
    <3>3. QED
      BY <1>12, <3>2
  <2>3. ~(Len(line) >= 3)
    <3>1. SUFFICES ASSUME Len(line) >= 3 PROVE FALSE
      OBVIOUS
    <3>2. 3 \in 1..Len(line) /\ ended[3] = "LF"
      BY <1>10, <1>12, <3>1
    <3>3. ended[3] # "LF"
      BY <1>9, <1>10, <3>2
    <3>4. QED
      BY <3>2, <3>3
  <2>4. QED
    <3>1. PICK n \in Nat : n = Len(line)
      BY <1>10
    <3>2. n # 0 /\ n # 2 /\ ~(n >= 3)
      BY <2>1, <2>2, <2>3, <3>1
    <3>3. n = 1
      BY <3>2
    <3>4. QED
      BY <3>1, <3>3
<1>14. line = <<".">>
  BY <1>9, <1>10, <1>12, <1>13
<1>15. after = <<>>
  BY <1>1, <1>8, <1>14 DEF line
<1>16. Len(v) = 0
  <2>1. Len(after) = 0
    BY <1>15
  <2>2. QED
    BY <1>3, <1>5, <1>10, <1>11, <1>13, <2>1
<1>17. QED
  BY <1>16, EmptySeq

-----------------------------------------------------------------------------
(* Dots that are doubled.                                                   *)

\* The server doubles a dot that is a line of a message.
Double(line) == IF line = <<".">> THEN <<".", ".">> ELSE line
Doubled(lines) == [k \in 1..Len(lines) |-> Double(lines[k])]

\* The text that the reader has of the response.
ReaderText ==
  IF isLinePending THEN Join(Doubled(Front(responseLines))) \o Last(responseLines)
                   ELSE Join(Doubled(responseLines))

\* The dot that is doubled is a line.
LEMMA DoubleType ==
  ASSUME NEW line \in Seq(Bytes)
  PROVE  Double(line) \in Seq(Bytes)
BY DEF Double, Bytes

\* The lines with their dots doubled, one by one.
LEMMA DoubledType ==
  ASSUME NEW lines \in Seq(Seq(Bytes))
  PROVE  /\ Doubled(lines) \in Seq(Seq(Bytes)) /\ Len(Doubled(lines)) = Len(lines)
         /\ \A k \in 1..Len(lines) : Doubled(lines)[k] = Double(lines[k])
<1> DEFINE L == Seq(Bytes)
<1>1. \A k \in 1..Len(lines) : Double(lines[k]) \in L
  BY DoubleType
<1> HIDE DEF L
<1>2. QED
  BY <1>1 DEF L, Doubled

\* The lines with their doubled dots replaced, one by one.
LEMMA UnstuffedType ==
  ASSUME NEW lines \in Seq(Seq(Bytes))
  PROVE  /\ Unstuffed(lines) \in Seq(Seq(Bytes)) /\ Len(Unstuffed(lines)) = Len(lines)
         /\ \A k \in 1..Len(lines) :
              Unstuffed(lines)[k] = IF lines[k] = <<".", ".">> THEN <<".">> ELSE lines[k]
<1> DEFINE L == Seq(Bytes)
           single(line) == IF line = <<".", ".">> THEN <<".">> ELSE line
<1>1. \A k \in 1..Len(lines) : single(lines[k]) \in L
  <2>1. <<".">> \in L
    BY DEF Bytes
  <2>2. QED
    BY <2>1
<1>2. Unstuffed(lines) = [k \in 1..Len(lines) |-> single(lines[k])]
  BY DEF Unstuffed
<1> HIDE DEF L, single
<1>3. /\ Unstuffed(lines) \in Seq(L) /\ Len(Unstuffed(lines)) = Len(lines)
      /\ \A k \in 1..Len(lines) : Unstuffed(lines)[k] = single(lines[k])
  BY <1>1, <1>2
<1>4. QED
  BY <1>3 DEF L, single

\* Dots are doubled line by line.
LEMMA DoubledConcat ==
  ASSUME NEW s \in Seq(Seq(Bytes)), NEW t \in Seq(Seq(Bytes))
  PROVE  Doubled(s \o t) = Doubled(s) \o Doubled(t)
<1> DEFINE L == Seq(Bytes)
           r == s \o t
           d == Doubled(s)
           e == Doubled(t)
           f == Doubled(r)
           g == d \o e
<1>1. r \in Seq(L) /\ IsConcat(s, t, r)
  BY Concat, Zenon
<1>2. /\ d \in Seq(L) /\ Len(d) = Len(s) /\ \A k \in 1..Len(s) : d[k] = Double(s[k])
      /\ e \in Seq(L) /\ Len(e) = Len(t) /\ \A k \in 1..Len(t) : e[k] = Double(t[k])
  BY DoubledType
<1> HIDE DEF d, e, r, L
<1>3. f \in Seq(L) /\ Len(f) = Len(r) /\ \A k \in 1..Len(r) : f[k] = Double(r[k])
  BY <1>1, DoubledType DEF L
<1>4. g \in Seq(L) /\ IsConcat(d, e, g)
  BY <1>2, Concat, Zenon
<1> HIDE DEF f, g
<1>5. Len(f) = Len(g)
  BY <1>1, <1>2, <1>3, <1>4 DEF IsConcat
<1>6. ASSUME NEW k \in 1..Len(f) PROVE f[k] = g[k]
  <2>1. CASE k <= Len(s)
    <3>1. k \in 1..Len(s) /\ k \in 1..Len(r)
      BY <1>1, <1>3, <2>1 DEF IsConcat
    <3>2. r[k] = s[k] /\ g[k] = d[k]
      BY <1>1, <1>2, <1>4, <3>1 DEF IsConcat
    <3>3. QED
      BY <1>2, <1>3, <3>1, <3>2
  <2>2. CASE k > Len(s)
    <3>1. PICK i \in 1..Len(t) : k = Len(s) + i
      <4>1. k - Len(s) \in 1..Len(t) /\ k = Len(s) + (k - Len(s))
        BY <1>1, <1>3, <2>2 DEF IsConcat
      <4>2. QED
        BY <4>1
    <3>2. r[k] = t[i] /\ g[k] = e[i]
      BY <1>1, <1>2, <1>4, <3>1 DEF IsConcat
    <3>3. k \in 1..Len(r)
      BY <1>3
    <3>4. QED
      BY <1>2, <1>3, <3>1, <3>2, <3>3
  <2>3. QED
    BY <1>1, <1>3, <2>1, <2>2 DEF IsConcat
<1>7. f = g
  BY <1>3, <1>4, <1>5, <1>6, SeqEqual
<1>8. QED
  BY <1>7 DEF f, g, d, e, r

\* Doubling undoes the replacement, where no line is a single dot.
LEMMA DoubledUnstuffed ==
  ASSUME NEW lines \in Seq(Seq(Bytes)), \A k \in 1..Len(lines) : lines[k] # <<".">>
  PROVE  Doubled(Unstuffed(lines)) = lines
<1> DEFINE L == Seq(Bytes)
           u == Unstuffed(lines)
           d == Doubled(u)
<1>1. /\ u \in Seq(L) /\ Len(u) = Len(lines)
      /\ \A k \in 1..Len(lines) : u[k] = IF lines[k] = <<".", ".">> THEN <<".">> ELSE lines[k]
  BY UnstuffedType
<1> HIDE DEF u
<1>2. d \in Seq(L) /\ Len(d) = Len(u) /\ \A k \in 1..Len(u) : d[k] = Double(u[k])
  BY <1>1, DoubledType
<1> HIDE DEF d, L
<1>3. \A k \in 1..Len(lines) : d[k] = lines[k]
  BY <1>1, <1>2 DEF Double
<1>4. d = lines
  <2>1. lines \in Seq(L) /\ Len(d) = Len(lines)
    BY <1>1, <1>2 DEF L
  <2>2. QED
    BY <1>2, <1>3, <2>1, SeqEqual
<1>5. QED
  BY <1>4 DEF d, u

\* Doubling a single line.
LEMMA DoubledOne ==
  ASSUME NEW line \in Seq(Bytes)
  PROVE  Doubled(<<line>>) = <<Double(line)>>
<1> DEFINE one == <<line>>
           two == <<Double(line)>>
<1>1. /\ one \in Seq(Seq(Bytes)) /\ Len(one) = 1 /\ one[1] = line
      /\ two \in Seq(Seq(Bytes)) /\ Len(two) = 1 /\ two[1] = Double(line)
  BY DoubleType
<1> HIDE DEF one, two
<1>2. /\ Doubled(one) \in Seq(Seq(Bytes)) /\ Len(Doubled(one)) = 1
      /\ \A k \in 1..Len(one) : Doubled(one)[k] = Double(one[k])
  BY <1>1, DoubledType
<1>3. \A k \in 1..Len(two) : Doubled(one)[k] = two[k]
  BY <1>1, <1>2
<1>4. Doubled(one) = two
  BY <1>1, <1>2, <1>3, SeqEqual
<1>5. QED
  BY <1>4 DEF one, two

\* Stuffing doubles all lines but the last one.
LEMMA StuffedOf ==
  ASSUME NEW s \in Seq(Seq(Bytes)), NEW e \in Seq(Bytes)
  PROVE  Stuffed(s \o <<e>>) = Doubled(s) \o <<e>>
<1> DEFINE L == Seq(Bytes)
           one == <<e>>
           r == s \o one
           d == Doubled(s)
           f == Stuffed(r)
           g == d \o one
<1>1. one \in Seq(L) /\ Len(one) = 1 /\ one[1] = e /\ e \in L
  OBVIOUS
<1> HIDE DEF one
<1>2. r \in Seq(L) /\ IsConcat(s, one, r)
  BY <1>1, Concat, Zenon
<1>3. d \in Seq(L) /\ Len(d) = Len(s) /\ \A k \in 1..Len(s) : d[k] = Double(s[k])
  BY DoubledType
<1> HIDE DEF d, r
<1>4. g \in Seq(L) /\ IsConcat(d, one, g)
  BY <1>1, <1>3, Concat, Zenon
<1> HIDE DEF g
<1>5. f = [k \in 1..Len(r) |-> IF k < Len(r) THEN Double(r[k]) ELSE r[k]]
  BY <1>2 DEF Stuffed, Double
<1>6. /\ f \in Seq(L) /\ Len(f) = Len(r)
      /\ \A k \in 1..Len(r) : f[k] = IF k < Len(r) THEN Double(r[k]) ELSE r[k]
  <2>1. \A k \in 1..Len(r) : r[k] \in L /\ Double(r[k]) \in L
    BY <1>2, DoubleType
  <2> HIDE DEF L, f
  <2>2. QED
    BY <1>2, <1>5, <2>1
<1> HIDE DEF f, L
<1>7. Len(r) = Len(s) + 1 /\ Len(g) = Len(s) + 1 /\ Len(s) \in Nat
  BY <1>1, <1>2, <1>3, <1>4 DEF IsConcat
<1>8. ASSUME NEW k \in 1..Len(g) PROVE f[k] = g[k]
  <2>1. CASE k <= Len(s)
    <3>1. k \in 1..Len(s) /\ k \in 1..Len(r) /\ k < Len(r)
      BY <1>7, <2>1
    <3>2. r[k] = s[k] /\ g[k] = d[k]
      BY <1>2, <1>3, <1>4, <3>1 DEF IsConcat
    <3>3. QED
      BY <1>3, <1>6, <3>1, <3>2
  <2>2. CASE k = Len(s) + 1
    <3>1. k \in 1..Len(r) /\ ~(k < Len(r)) /\ 1 \in 1..Len(one)
      BY <1>1, <1>7, <2>2
    <3>2. r[k] = e /\ g[k] = e
      BY <1>1, <1>2, <1>3, <1>4, <2>2, <3>1 DEF IsConcat
    <3>3. QED
      BY <1>6, <3>1, <3>2
  <2>3. QED
    BY <1>7, <2>1, <2>2
<1>9. f = g
  BY <1>4, <1>6, <1>7, <1>8, SeqEqual
<1>10. QED
  BY <1>9 DEF f, g, d, r, one

-----------------------------------------------------------------------------
(* The parts of a chunk.                                                    *)

\* The parts of a chunk in which a line ends: the first line, those in the middle, and
\* the one that goes on.
LEMMA ChunkParts ==
  ASSUME NEW bytes \in Seq(Bytes), Len(Split(bytes)) >= 2
  PROVE  LET lines == Split(bytes)
             front == SubSeq(lines, 1, Len(lines) - 1)
             mid == SubSeq(lines, 2, Len(lines) - 1)
         IN /\ lines \in Seq(Seq(Bytes)) /\ Len(lines) \in Nat
            /\ lines[1] \in Seq(Bytes) /\ Last(lines) \in Seq(Bytes)
            /\ front \in Seq(Seq(Bytes)) /\ mid \in Seq(Seq(Bytes))
            /\ Len(front) = Len(lines) - 1 /\ Len(mid) = Len(lines) - 2
            /\ \A k \in 1..(Len(lines) - 1) : front[k] = lines[k]
            /\ \A k \in 1..(Len(lines) - 2) : mid[k] = lines[k + 1]
            /\ front = << lines[1] >> \o mid
            /\ bytes = Join(front) \o Last(lines)
<1> DEFINE L == Seq(Bytes)
           lines == Split(bytes)
           front == SubSeq(lines, 1, Len(lines) - 1)
           mid == SubSeq(lines, 2, Len(lines) - 1)
           n == Len(lines)
<1>1. lines \in Seq(L) /\ lines # <<>> /\ n >= 2
  BY SplitType DEF Pieces
<1>2. bytes = Join(Front(lines)) \o Last(lines)
  BY Texts, JoinSplit
<1> HIDE DEF lines, L
<1>3. front = Front(lines) /\ n \in Nat
  BY <1>1 DEF Front
<1>4. front \in Seq(L) /\ Last(lines) \in L /\ Len(front) = n - 1 /\ \A k \in 1..(n - 1) : front[k] = lines[k]
  <2>1. /\ Front(lines) \in Seq(L) /\ Last(lines) \in L /\ Len(Front(lines)) = n - 1
        /\ \A k \in 1..(n - 1) : Front(lines)[k] = lines[k]
    BY <1>1, FrontLast
  <2>2. QED
    BY <1>3, <2>1
<1>5. 1 \in Int /\ 2 \in Int /\ n - 1 \in Int /\ \A i \in 2..(n - 1) : lines[i] \in L
  BY <1>1, <1>3
<1>6. /\ mid \in Seq(L)
      /\ Len(mid) = IF 2 <= n - 1 THEN (n - 1) - 2 + 1 ELSE 0
      /\ \A i \in 1..((n - 1) - 2 + 1) : mid[i] = lines[2 + i - 1]
  <2> DEFINE h == n - 1
             m == SubSeq(lines, 2, h)
  <2>1. 2 \in Int /\ h \in Int /\ \A i \in 2..h : lines[i] \in L
    BY <1>5
  <2> HIDE DEF h, L
  <2>2. /\ m \in Seq(L)
        /\ Len(m) = IF 2 <= h THEN h - 2 + 1 ELSE 0
        /\ \A i \in 1..(h - 2 + 1) : m[i] = lines[2 + i - 1]
    BY <2>1, SubSeqProperties
  <2>3. QED
    BY <2>2 DEF h
<1>7. Len(mid) = n - 2 /\ \A k \in 1..(n - 2) : mid[k] = lines[k + 1]
  <2> HIDE DEF mid, n
  <2>1. Len(mid) = n - 2
    BY <1>1, <1>3, <1>6
  <2>2. ASSUME NEW k \in 1..(n - 2) PROVE mid[k] = lines[k + 1]
    <3>1. k \in 1..((n - 1) - 2 + 1) /\ 2 + k - 1 = k + 1
      BY <1>3
    <3>2. QED
      BY <1>6, <3>1
  <2>3. QED
    BY <2>1, <2>2
<1>8. front = <<lines[1]>> \o mid
  <2>1. 1 \in 1..Len(lines) /\ Len(lines) - 1 \in 1..Len(lines)
    BY <1>1, <1>3
  <2>2. SubSeq(lines, 1, Len(lines) - 1) = <<lines[1]>> \o SubSeq(lines, 1 + 1, Len(lines) - 1)
    BY <1>1, <2>1, SubSeqRecursiveFirst
  <2>3. 1 + 1 = 2
    OBVIOUS
  <2>4. QED
    BY <2>2, <2>3, Zenon
<1>9. lines[1] \in L
  BY <1>1, ElementOfSeq
<1> HIDE DEF front, mid, n
<1>10. QED
  BY <1>1, <1>2, <1>3, <1>4, <1>6, <1>7, <1>8, <1>9 DEF L, lines, n, front, mid

\* A chunk in which no line ends is its only line.
LEMMA OnePiece ==
  ASSUME NEW bytes \in Seq(Bytes), Len(Split(bytes)) = 1
  PROVE  Split(bytes)[1] = bytes /\ Last(Split(bytes)) = bytes
<1> DEFINE lines == Split(bytes)
<1>1. lines \in Seq(Seq(Bytes)) /\ lines # <<>>
  BY SplitType DEF Pieces
<1>2. bytes = Join(Front(lines)) \o Last(lines)
  BY Texts, JoinSplit
<1> HIDE DEF lines
<1>3. Len(lines) = 1
  BY DEF lines
<1>4. Front(lines) = <<>> /\ Last(lines) \in Seq(Bytes)
  <2>1. Front(lines) \in Seq(Seq(Bytes)) /\ Last(lines) \in Seq(Bytes) /\ Len(Front(lines)) = 0
    <3>1. /\ Front(lines) \in Seq(Seq(Bytes)) /\ Last(lines) \in Seq(Bytes)
          /\ Len(Front(lines)) = Len(lines) - 1
      BY <1>1, FrontLast
    <3>2. QED
      BY <1>3, <3>1
  <2>2. QED
    BY <2>1, EmptySeq, Zenon
<1>5. bytes = Last(lines)
  BY <1>2, <1>4, JoinEmpty, ConcatEmptySeq
<1>6. Last(lines) = lines[1]
  BY <1>3 DEF Last
<1>7. QED
  BY <1>5, <1>6 DEF lines

\* Line k as the reader completes it: continued, if one is pending.
Completed(lines, k) == IF isLinePending /\ k = 1 THEN Last(responseLines) \o lines[1] ELSE lines[k]

\* The single dot at the end is not touched.
LEMMA UnstuffedDot ==
  ASSUME NEW s \in Seq(Seq(Bytes))
  PROVE  Unstuffed(s \o << <<".">> >>) = Unstuffed(s) \o << <<".">> >>
<1> DEFINE L == Seq(Bytes)
           one == << <<".">> >>
           r == s \o one
           d == Unstuffed(s)
           f == Unstuffed(r)
           g == d \o one
<1>1. one \in Seq(L) /\ Len(one) = 1 /\ one[1] = <<".">> /\ <<".">> # <<".", ".">>
  BY DEF Bytes
<1> HIDE DEF one
<1>2. r \in Seq(L) /\ IsConcat(s, one, r)
  BY <1>1, Concat, Zenon
<1>3. /\ d \in Seq(L) /\ Len(d) = Len(s)
      /\ \A k \in 1..Len(s) : d[k] = IF s[k] = <<".", ".">> THEN <<".">> ELSE s[k]
  BY UnstuffedType
<1> HIDE DEF d, r
<1>4. g \in Seq(L) /\ IsConcat(d, one, g)
  BY <1>1, <1>3, Concat, Zenon
<1> HIDE DEF g
<1>5. /\ f \in Seq(L) /\ Len(f) = Len(r)
      /\ \A k \in 1..Len(r) : f[k] = IF r[k] = <<".", ".">> THEN <<".">> ELSE r[k]
  BY <1>2, UnstuffedType
<1> HIDE DEF f, L
<1>6. Len(r) = Len(s) + 1 /\ Len(g) = Len(s) + 1 /\ Len(s) \in Nat
  BY <1>1, <1>2, <1>3, <1>4 DEF IsConcat
<1>7. ASSUME NEW k \in 1..Len(g) PROVE f[k] = g[k]
  <2>1. CASE k <= Len(s)
    <3>1. k \in 1..Len(s) /\ k \in 1..Len(r)
      BY <1>6, <2>1
    <3>2. r[k] = s[k] /\ g[k] = d[k]
      BY <1>2, <1>3, <1>4, <3>1 DEF IsConcat
    <3>3. QED
      BY <1>3, <1>5, <3>1, <3>2
  <2>2. CASE k = Len(s) + 1
    <3>1. k \in 1..Len(r) /\ 1 \in 1..Len(one)
      BY <1>1, <1>6, <2>2
    <3>2. r[k] = <<".">> /\ g[k] = <<".">>
      BY <1>1, <1>2, <1>3, <1>4, <2>2, <3>1 DEF IsConcat
    <3>3. QED
      BY <1>1, <1>5, <3>1, <3>2
  <2>3. QED
    BY <1>6, <2>1, <2>2
<1>8. f = g
  BY <1>4, <1>5, <1>6, <1>7, SeqEqual
<1>9. QED
  BY <1>8 DEF f, g, d, r, one

-----------------------------------------------------------------------------
(* What the reader has read: a chunk that goes on.                          *)

\* A reader that can be.
ReaderType ==
  /\ responseLines \in Seq(Seq(Bytes)) /\ isLinePending \in BOOLEAN
  /\ isLinePending => responseLines # <<>>

\* The lines that are read, and the one that is pending.
LEMMA PendingParts ==
  ASSUME ReaderType, isLinePending
  PROVE  /\ Front(responseLines) \in Seq(Seq(Bytes)) /\ Last(responseLines) \in Seq(Bytes)
         /\ responseLines = Front(responseLines) \o << Last(responseLines) >>
BY FrontLast DEF ReaderType

\* What is read is a text.
LEMMA ReaderTextType ==
  ASSUME ReaderType
  PROVE  ReaderText \in Seq(Bytes)
<1>1. CASE isLinePending
  <2>1. Join(Doubled(Front(responseLines))) \in Seq(Bytes) /\ Last(responseLines) \in Seq(Bytes)
    BY <1>1, PendingParts, DoubledType, Texts, JoinType
  <2>2. Join(Doubled(Front(responseLines))) \o Last(responseLines) \in Seq(Bytes)
    BY <2>1, ConcatProperties
  <2>3. QED
    BY <1>1, <2>2, Zenon DEF ReaderText
<1>2. CASE ~isLinePending
  BY <1>2, DoubledType, Texts, JoinType DEF ReaderText, ReaderType
<1>3. QED
  BY <1>1, <1>2

\* The text of a single line, as a regrouping.
LEMMA OneText ==
  ASSUME NEW e \in Seq(Bytes)
  PROVE  <<e>> \in Seq(Seq(Bytes)) /\ AreSame(Join(<<e>>), e \o CRLF)
<1>1. CRLF \in Seq(Bytes)
  BY Texts
<1>2. Join(<<e>>) = e \o CRLF
  BY <1>1, JoinOne
<1>3. <<e>> \in Seq(Seq(Bytes))
  OBVIOUS
<1>4. QED
  BY <1>2, <1>3 DEF AreSame

\* The text of lines and one line more.
LEMMA JoinMore ==
  ASSUME NEW s \in Seq(Seq(Bytes)), NEW e \in Seq(Bytes)
  PROVE  /\ s \o <<e>> \in Seq(Seq(Bytes))
         /\ AreSame(Join(s \o <<e>>), Join(s) \o (e \o CRLF))
<1> DEFINE one == <<e>>
<1>1. one \in Seq(Seq(Bytes)) /\ CRLF \in Seq(Bytes) /\ Join(one) = e \o CRLF
  <2>1. CRLF \in Seq(Bytes)
    BY Texts
  <2>2. one \in Seq(Seq(Bytes)) /\ AreSame(Join(one), e \o CRLF)
    BY OneText, Zenon
  <2>3. QED
    BY <2>1, <2>2 DEF AreSame
<1> HIDE DEF one
<1>2. s \o one \in Seq(Seq(Bytes)) /\ Join(s \o one) = Join(s) \o Join(one)
  BY <1>1, JoinConcat, ConcatProperties
<1>3. QED
  BY <1>1, <1>2 DEF AreSame, one

\* The text of lines and more lines, as a regrouping.
LEMMA JoinTwo ==
  ASSUME NEW s \in Seq(Seq(Bytes)), NEW t \in Seq(Seq(Bytes))
  PROVE  /\ s \o t \in Seq(Seq(Bytes))
         /\ AreSame(Join(s \o t), Join(s) \o Join(t))
<1>1. CRLF \in Seq(Bytes)
  BY Texts
<1>2. QED
  BY <1>1, JoinConcat, ConcatProperties DEF AreSame

\* The doubled lines of two parts, as a regrouping.
LEMMA DoubledTwo ==
  ASSUME NEW s \in Seq(Seq(Bytes)), NEW t \in Seq(Seq(Bytes))
  PROVE  AreSame(Doubled(s \o t), Doubled(s) \o Doubled(t))
BY DoubledConcat DEF AreSame

\* More of the response has been read, with line ends in it: the text goes on.
LEMMA ReadMore ==
  ASSUME ReaderType, NEW bytes \in Seq(Bytes), Len(Split(bytes)) >= 2,
         \A k \in 1..(Len(Split(bytes)) - 1) : Completed(Split(bytes), k) # <<".">>
  PROVE  /\ LinesWith(Split(bytes)) \in Seq(Seq(Bytes))
         /\ AreSame(Join(Doubled(LinesWith(Split(bytes)))) \o Last(Split(bytes)),
                    ReaderText \o bytes)
<1> DEFINE L == Seq(Bytes)
           lines == Split(bytes)
           front == SubSeq(lines, 1, Len(lines) - 1)
           mid == SubSeq(lines, 2, Len(lines) - 1)
           last == Last(lines)
           first == lines[1]
<1>1. /\ lines \in Seq(L) /\ Len(lines) \in Nat /\ first \in L /\ last \in L
      /\ front \in Seq(L) /\ mid \in Seq(L)
      /\ Len(front) = Len(lines) - 1 /\ Len(mid) = Len(lines) - 2
      /\ \A k \in 1..(Len(lines) - 1) : front[k] = lines[k]
      /\ \A k \in 1..(Len(lines) - 2) : mid[k] = lines[k + 1]
      /\ front = << first >> \o mid
      /\ bytes = Join(front) \o last
  BY ChunkParts
<1>2. \A k \in 1..(Len(lines) - 1) : Completed(lines, k) # <<".">>
  OBVIOUS
<1>3. LinesWith(lines) =
        IF isLinePending THEN Append(Front(responseLines), Last(responseLines) \o first) \o Unstuffed(mid)
                         ELSE responseLines \o Unstuffed(front)
  BY DEF LinesWith
<1>4. Len(lines) >= 2
  OBVIOUS
<1>5. CRLF \in Seq(Bytes)
  BY Texts
<1> DEFINE read == LinesWith(lines)
<1> HIDE DEF lines, front, mid, last, first, read
<1>6. CASE ~isLinePending
  <2>1. \A k \in 1..Len(front) : front[k] # <<".">>
    BY <1>1, <1>2, <1>6 DEF Completed
  <2>2. /\ responseLines \in Seq(L) /\ Unstuffed(front) \in Seq(L)
        /\ Doubled(Unstuffed(front)) = front
    BY <1>1, <2>1, UnstuffedType, DoubledUnstuffed DEF ReaderType
  <2>3. read = responseLines \o Unstuffed(front)
    BY <1>3, <1>6 DEF read
  <2> DEFINE u == Unstuffed(front)
  <2> HIDE DEF u, L
  <2>4. read \in Seq(L) /\ AreSame(Doubled(read), Doubled(responseLines) \o front)
    <3>1. AreSame(Doubled(responseLines \o u), Doubled(responseLines) \o Doubled(u))
      BY <2>2, DoubledTwo, Zenon DEF u, L
    <3>2. responseLines \o u \in Seq(L)
      BY <2>2, ConcatProperties, Zenon DEF u
    <3>3. QED
      BY <2>2, <2>3, <3>1, <3>2 DEF AreSame, u
  <2>5. PICK d \in Seq(L) : d = Doubled(responseLines)
    BY <2>2, DoubledType DEF L
  <2>6. AreSame(Join(d \o front), Join(d) \o Join(front))
    BY <1>1, <2>5, JoinTwo, Zenon DEF L
  <2>7. PICK D \in Seq(Bytes), F \in Seq(Bytes), z \in Seq(Bytes) :
          D = Join(d) /\ F = Join(front) /\ z = last
    BY <1>1, <1>5, <2>5, JoinType DEF L
  <2>8. (D \o F) \o z = D \o (F \o z)
    <3> HIDE <2>7, <2>6, <2>5, <2>4, <2>3
    <3> QED OBVIOUS
  <2>9. ReaderText = D
    BY <1>6, <2>5, <2>7 DEF ReaderText
  <2>10. Join(Doubled(read)) = D \o F
    BY <2>4, <2>5, <2>6, <2>7 DEF AreSame
  <2>11. bytes = F \o z
    BY <1>1, <2>7
  <2>12. AreSame(Join(Doubled(read)) \o last, ReaderText \o bytes)
    BY <2>7, <2>8, <2>9, <2>10, <2>11 DEF AreSame
  <2>13. QED
    BY <2>4, <2>12 DEF read, lines, last, L
<1>7. CASE isLinePending
  <2> DEFINE base == Front(responseLines)
             pending == Last(responseLines)
             whole == pending \o first
             u == Unstuffed(mid)
  <2>1. base \in Seq(L) /\ pending \in L
    BY <1>7, PendingParts
  <2>2. whole \in L
    BY <1>1, <2>1, ConcatProperties, Zenon
  <2>3. \A k \in 1..Len(mid) : mid[k] # <<".">>
    <3>1. ASSUME NEW k \in 1..Len(mid) PROVE mid[k] # <<".">>
      <4>1. k + 1 \in 1..(Len(lines) - 1) /\ k + 1 # 1 /\ mid[k] = lines[k + 1]
        <5>1. PICK n \in Nat, j \in Nat : n = Len(lines) /\ j = Len(mid)
          BY <1>1
        <5>2. j = n - 2 /\ k \in 1..(n - 2) /\ mid[k] = lines[k + 1]
          BY <1>1, <5>1
        <5>3. k + 1 \in 1..(n - 1) /\ k + 1 # 1
          BY <5>1, <5>2
        <5>4. QED
          BY <5>1, <5>2, <5>3
      <4>2. QED
        BY <1>2, <4>1 DEF Completed
    <3>2. QED
      BY <3>1
  <2>4. whole # <<".">>
    <3>1. 1 \in 1..(Len(lines) - 1)
      BY <1>1, <1>4
    <3>2. Completed(lines, 1) = whole
      BY <1>7 DEF Completed, first
    <3>3. QED
      BY <1>2, <3>1, <3>2
  <2>5. u \in Seq(L) /\ Doubled(u) = mid
    BY <1>1, <2>3, UnstuffedType, DoubledUnstuffed
  <2>6. read = Append(base, whole) \o u
    BY <1>3, <1>7 DEF read
  <2> HIDE DEF base, pending, whole, u, L
  <2>7. Append(base, whole) = base \o <<whole>>
    BY <2>1, <2>2, AppendIsConcat
  <2> DEFINE most == base \o <<whole>>
  <2>8. most \in Seq(L) /\ Doubled(most) = Doubled(base) \o <<whole>>
    <3> DEFINE one == <<whole>>
    <3>1. one \in Seq(L) /\ Doubled(one) = one
      BY <2>2, <2>4, DoubledOne DEF Double, L
    <3> HIDE DEF one
    <3>2. AreSame(Doubled(base \o one), Doubled(base) \o Doubled(one))
      BY <2>1, <3>1, DoubledTwo, Zenon DEF L
    <3>3. base \o one \in Seq(L)
      BY <2>1, <3>1, ConcatProperties, Zenon
    <3>4. QED
      BY <3>1, <3>2, <3>3 DEF AreSame, one
  <2> HIDE DEF most
  <2>9. read \in Seq(L) /\ AreSame(Doubled(read), Doubled(most) \o mid)
    <3>1. AreSame(Doubled(most \o u), Doubled(most) \o Doubled(u))
      BY <2>5, <2>8, DoubledTwo, Zenon DEF L
    <3>2. most \o u \in Seq(L)
      BY <2>5, <2>8, ConcatProperties, Zenon
    <3>3. QED
      BY <2>5, <2>6, <2>7, <3>1, <3>2 DEF AreSame, most
  <2>10. PICK d \in Seq(L) : d = Doubled(base)
    BY <2>1, DoubledType DEF L
  <2>11. PICK dm \in Seq(L) : dm = Doubled(most)
    BY <2>8, DoubledType DEF L
  <2>12. AreSame(Join(d \o <<whole>>), Join(d) \o (whole \o CRLF))
    BY <2>2, <2>10, JoinMore, Zenon DEF L
  <2>13. AreSame(Join(dm \o mid), Join(dm) \o Join(mid))
    BY <1>1, <2>11, JoinTwo, Zenon DEF L
  <2>14. Join(front) = (first \o CRLF) \o Join(mid)
    <3> DEFINE one == <<first>>
    <3>1. one \in Seq(L) /\ AreSame(Join(one), first \o CRLF)
      BY <1>1, OneText, Zenon DEF L
    <3> HIDE DEF one
    <3>2. AreSame(Join(one \o mid), Join(one) \o Join(mid))
      BY <1>1, <3>1, JoinTwo, Zenon DEF L
    <3>3. QED
      BY <1>1, <3>1, <3>2 DEF AreSame, one
  <2>15. PICK D \in Seq(Bytes), e \in Seq(Bytes), l \in Seq(Bytes), c \in Seq(Bytes),
              m \in Seq(Bytes), z \in Seq(Bytes) :
           D = Join(d) /\ e = pending /\ l = first /\ c = CRLF /\ m = Join(mid) /\ z = last
    BY <1>1, <1>5, <2>1, <2>10, JoinType DEF L
  <2>16. AreSame(((D \o ((e \o l) \o c)) \o m) \o z, (D \o e) \o (((l \o c) \o m) \o z))
    BY Regroup4, Zenon
  <2>17. ReaderText = D \o e
    BY <1>7, <2>10, <2>15 DEF ReaderText, base, pending
  <2>18. bytes = ((l \o c) \o m) \o z
    BY <1>1, <2>14, <2>15
  <2>19. Join(dm) = D \o ((e \o l) \o c)
    BY <2>8, <2>10, <2>11, <2>12, <2>15 DEF AreSame, whole
  <2>20. Join(Doubled(read)) = (D \o ((e \o l) \o c)) \o m
    BY <2>9, <2>11, <2>13, <2>15, <2>19 DEF AreSame
  <2>21. AreSame(Join(Doubled(read)) \o last, ReaderText \o bytes)
    BY <2>15, <2>16, <2>17, <2>18, <2>20 DEF AreSame
  <2>22. QED
    BY <2>9, <2>21 DEF read, lines, last, L
<1>8. QED
  BY <1>6, <1>7

-----------------------------------------------------------------------------
(* What the reader has read: a chunk that ends the reply.                   *)

\* Stuffing, as a regrouping.
LEMMA StuffedTwo ==
  ASSUME NEW s \in Seq(Seq(Bytes)), NEW e \in Seq(Bytes)
  PROVE  AreSame(Stuffed(s \o <<e>>), Doubled(s) \o <<e>>)
BY StuffedOf DEF AreSame

\* The replacement, as a regrouping.
LEMMA UnstuffedTwo ==
  ASSUME NEW s \in Seq(Seq(Bytes))
  PROVE  AreSame(Unstuffed(s \o << <<".">> >>), Unstuffed(s) \o << <<".">> >>)
BY UnstuffedDot DEF AreSame

\* Lines of which the last is a dot.
LEMMA DotIsLast ==
  ASSUME NEW s \in Seq(Seq(Bytes)), s # <<>>, s[Len(s)] = <<".">>
  PROVE  \E most \in Seq(Seq(Bytes)) :
           /\ s = most \o << <<".">> >> /\ Len(most) = Len(s) - 1
           /\ \A k \in 1..(Len(s) - 1) : most[k] = s[k]
<1>1. /\ Front(s) \in Seq(Seq(Bytes)) /\ s = Front(s) \o << Last(s) >>
      /\ Len(Front(s)) = Len(s) - 1 /\ \A k \in 1..(Len(s) - 1) : Front(s)[k] = s[k]
  BY FrontLast
<1>2. Last(s) = <<".">>
  BY DEF Last
<1>3. s = Front(s) \o << <<".">> >>
  BY <1>1, <1>2
<1>4. QED
  BY <1>1, <1>3

\* The end of a response of many lines has been read: its lines are its text.
LEMMA ReadLast ==
  ASSUME ReaderType, NEW bytes \in Seq(Bytes)
  PROVE  /\ Len(Split(bytes)) >= 2
         /\ Last(Split(bytes)) = <<>> /\ Split(bytes)[Len(Split(bytes)) - 1] = <<".">>
         /\ \A k \in 1..(Len(Split(bytes)) - 2) : Completed(Split(bytes), k) # <<".">>
         => /\ LinesWith(Split(bytes)) \in Seq(Seq(Bytes))
            /\ AreSame(Join(Stuffed(LinesWith(Split(bytes)))), ReaderText \o bytes)
<1> DEFINE L == Seq(Bytes)
           dot == <<".">>
           dots == << dot >>
           lines == Split(bytes)
           front == SubSeq(lines, 1, Len(lines) - 1)
           mid == SubSeq(lines, 2, Len(lines) - 1)
           last == Last(lines)
           first == lines[1]
           read == LinesWith(lines)
<1>0. SUFFICES ASSUME Len(lines) >= 2, Last(lines) = <<>>,
                      lines[Len(lines) - 1] = <<".">>,
                      \A k \in 1..(Len(lines) - 2) : Completed(lines, k) # <<".">>
               PROVE  read \in Seq(L) /\ AreSame(Join(Stuffed(read)), ReaderText \o bytes)
  OBVIOUS
<1>1. /\ lines \in Seq(L) /\ Len(lines) \in Nat /\ first \in L /\ last \in L
      /\ front \in Seq(L) /\ mid \in Seq(L)
      /\ Len(front) = Len(lines) - 1 /\ Len(mid) = Len(lines) - 2
      /\ \A k \in 1..(Len(lines) - 1) : front[k] = lines[k]
      /\ \A k \in 1..(Len(lines) - 2) : mid[k] = lines[k + 1]
      /\ front = << first >> \o mid
      /\ bytes = Join(front) \o last
  BY <1>0, ChunkParts
<1>2. /\ \A k \in 1..(Len(lines) - 2) : Completed(lines, k) # <<".">>
      /\ Len(lines) >= 2 /\ last = <<>> /\ lines[Len(lines) - 1] = dot
  BY <1>0
<1>2a. PICK n \in Nat : n = Len(lines) /\ n >= 2 /\ Len(front) = n - 1 /\ Len(mid) = n - 2
  BY <1>1, <1>2
<1>2b. n - 2 # 0 => 1 \in 1..(n - 2)
  BY <1>2a
<1>3. read =
        IF isLinePending THEN Append(Front(responseLines), Last(responseLines) \o first) \o Unstuffed(mid)
                         ELSE responseLines \o Unstuffed(front)
  BY DEF LinesWith
<1>4. CRLF \in Seq(Bytes) /\ dot \in L /\ dots \in Seq(L)
  BY Texts DEF Bytes
<1> HIDE DEF lines, front, mid, last, first, read
<1>5. bytes = Join(front)
  <2>1. Join(front) \in Seq(Bytes)
    BY <1>1, <1>4, JoinType
  <2>2. QED
    BY <1>1, <1>2, <2>1, ConcatEmptySeq
<1>6. CASE ~isLinePending
  <2>1. front # <<>> /\ front[Len(front)] = dot
    <3>1. Len(front) # 0 /\ Len(front) \in 1..(Len(lines) - 1) /\ Len(front) = Len(lines) - 1
      BY <1>2a
    <3>2. QED
      BY <1>1, <1>2, <3>1, EmptySeq
  <2>2. PICK most \in Seq(L) :
          /\ front = most \o dots /\ Len(most) = Len(front) - 1
          /\ \A k \in 1..(Len(front) - 1) : most[k] = front[k]
    BY <1>1, <2>1, DotIsLast
  <2>3. \A k \in 1..Len(most) : most[k] # <<".">>
    <3>1. ASSUME NEW k \in 1..Len(most) PROVE most[k] # <<".">>
      <4>1. k \in 1..(Len(lines) - 2) /\ k \in 1..(Len(lines) - 1) /\ k \in 1..(Len(front) - 1)
        <5>1. Len(most) = n - 2
          BY <1>2a, <2>2
        <5>2. k \in 1..(n - 2)
          BY <5>1
        <5>3. QED
          BY <1>2a, <5>2
      <4>2. most[k] = lines[k]
        BY <1>1, <2>2, <4>1
      <4>3. QED
        BY <1>2, <1>6, <4>1, <4>2 DEF Completed
    <3>2. QED
      BY <3>1
  <2> DEFINE u == Unstuffed(most)
  <2>4. u \in Seq(L) /\ Doubled(u) = most /\ responseLines \in Seq(L)
    BY <2>3, UnstuffedType, DoubledUnstuffed DEF ReaderType
  <2>5. AreSame(Unstuffed(most \o dots), u \o dots)
    BY UnstuffedTwo, Zenon
  <2> HIDE DEF u
  <2> DEFINE all == responseLines \o u
  <2>6. all \in Seq(L) /\ AreSame(Doubled(all), Doubled(responseLines) \o Doubled(u))
    BY <2>4, DoubledTwo, ConcatProperties, Zenon
  <2>7. read = all \o dots
    <3>1. read = responseLines \o (u \o dots)
      BY <1>3, <1>6, <2>2, <2>5 DEF AreSame
    <3>2. AreSame((responseLines \o u) \o dots, responseLines \o (u \o dots))
      BY <1>4, <2>4, Regroup1, Zenon
    <3>3. QED
      BY <3>1, <3>2 DEF AreSame
  <2> HIDE DEF all
  <2>8. AreSame(Stuffed(all \o dots), Doubled(all) \o dots)
    BY <1>4, <2>6, StuffedTwo, Zenon
  <2>9. PICK d \in Seq(L) : d = Doubled(responseLines)
    BY <2>4, DoubledType
  <2>10. d \o most \in Seq(L) /\ AreSame(Join(d \o most), Join(d) \o Join(most))
    BY <2>2, <2>9, JoinTwo, Zenon
  <2> DEFINE dm == d \o most
  <2>11. Doubled(all) = dm
    BY <2>4, <2>6, <2>9 DEF AreSame
  <2>12. dm \in Seq(L)
    BY <2>10
  <2> HIDE DEF dm
  <2>13. AreSame(Join(dm \o dots), Join(dm) \o (dot \o CRLF)) /\ dm \o dots \in Seq(L)
    BY <1>4, <2>12, JoinMore, Zenon
  <2>14. AreSame(Join(most \o dots), Join(most) \o (dot \o CRLF))
    BY <1>4, <2>2, JoinMore, Zenon
  <2>15. PICK D \in Seq(Bytes), m \in Seq(Bytes), x \in Seq(Bytes) :
           D = Join(d) /\ m = Join(most) /\ x = dot \o CRLF
    <3>1. dot \o CRLF \in Seq(Bytes)
      BY <1>4, ConcatProperties, Zenon
    <3>2. QED
      BY <1>4, <2>2, <2>9, <3>1, JoinType
  <2>16. AreSame((D \o m) \o x, D \o (m \o x))
    BY Regroup1, Zenon
  <2>17. ReaderText = D
    BY <1>6, <2>9, <2>15 DEF ReaderText
  <2>18. bytes = m \o x
    BY <1>5, <2>2, <2>14, <2>15 DEF AreSame
  <2>19. Stuffed(read) = dm \o dots
    BY <2>7, <2>8, <2>11 DEF AreSame
  <2>20. Join(dm \o dots) = (D \o m) \o x
    BY <2>10, <2>13, <2>15 DEF AreSame, dm
  <2>21. AreSame(Join(Stuffed(read)), ReaderText \o bytes)
    BY <2>16, <2>17, <2>18, <2>19, <2>20 DEF AreSame
  <2>22. read \in Seq(L)
    BY <1>4, <2>6, <2>7, ConcatProperties, Zenon
  <2>23. QED
    BY <2>21, <2>22 DEF read, lines, L
<1>7. CASE isLinePending
  <2> DEFINE base == Front(responseLines)
             pending == Last(responseLines)
             whole == pending \o first
             wholes == << whole >>
             firsts == << first >>
  <2>1. base \in Seq(L) /\ pending \in L
    BY <1>7, PendingParts
  <2>2. whole \in L
    BY <1>1, <2>1, ConcatProperties, Zenon
  <2>3. read = Append(base, whole) \o Unstuffed(mid)
    BY <1>3, <1>7 DEF read
  <2> HIDE DEF base, pending, whole, L
  <2>4. wholes \in Seq(L) /\ firsts \in Seq(L) /\ Append(base, whole) = base \o wholes
    BY <1>1, <2>1, <2>2, AppendIsConcat
  <2>5. PICK d \in Seq(L) : d = Doubled(base)
    BY <2>1, DoubledType DEF L
  <2>6. PICK D \in Seq(Bytes), e \in Seq(Bytes), l \in Seq(Bytes), c \in Seq(Bytes) :
           D = Join(d) /\ e = pending /\ l = first /\ c = CRLF
    BY <1>1, <1>4, <2>1, <2>5, JoinType DEF L
  <2>7. ReaderText = D \o e
    BY <1>7, <2>5, <2>6 DEF ReaderText, base, pending
  <2>8. whole = e \o l
    BY <2>6 DEF whole
  <2>9. AreSame(Join(d \o wholes), Join(d) \o (whole \o CRLF)) /\ d \o wholes \in Seq(L)
    BY <2>2, <2>5, JoinMore, Zenon DEF L
  <2>10. AreSame(Join(firsts), first \o CRLF)
    BY <1>1, OneText, Zenon DEF L
  <2> HIDE DEF wholes, firsts
  <2>11. Join(d \o wholes) = D \o ((e \o l) \o c)
    BY <2>6, <2>8, <2>9 DEF AreSame
  <2>12. Join(firsts) = l \o c
    BY <2>6, <2>10 DEF AreSame
  <2>13. front = firsts \o mid
    BY <1>1 DEF firsts
  <2>14. CASE Len(mid) = 0
    <3>1. mid = <<>>
      BY <1>1, <2>14, EmptySeq
    <3>2. Unstuffed(<<>>) = <<>>
      <4>1. Unstuffed(<<>>) \in Seq(L) /\ Len(Unstuffed(<<>>)) = 0
        <5>1. <<>> \in Seq(L) /\ Len(<<>>) = 0
          BY EmptySeq
        <5>2. QED
          BY <5>1, UnstuffedType DEF L
      <4>2. QED
        BY <4>1, EmptySeq
    <3>3. read = base \o wholes
      <4>1. base \o wholes \in Seq(L)
        BY <2>1, <2>4, ConcatProperties, Zenon
      <4>2. QED
        BY <2>3, <2>4, <3>1, <3>2, <4>1, ConcatEmptySeq
    <3>4. AreSame(Stuffed(base \o wholes), Doubled(base) \o wholes)
      BY <2>1, <2>2, StuffedTwo, Zenon DEF L, wholes
    <3>5. Join(Stuffed(read)) = D \o ((e \o l) \o c)
      BY <2>5, <2>11, <3>3, <3>4 DEF AreSame
    <3>6. bytes = l \o c
      <4>1. front = firsts
        BY <2>4, <2>13, <3>1, ConcatEmptySeq
      <4>2. QED
        BY <1>5, <2>12, <4>1
    <3>7. AreSame(D \o ((e \o l) \o c), (D \o e) \o (l \o c))
      BY Regroup3, Zenon
    <3>8. AreSame(Join(Stuffed(read)), ReaderText \o bytes)
      BY <2>7, <3>5, <3>6, <3>7 DEF AreSame
    <3>9. read \in Seq(L)
      BY <2>1, <2>4, <3>3, ConcatProperties, Zenon
    <3>10. QED
      BY <3>8, <3>9 DEF read, lines, L
  <2>15. CASE Len(mid) # 0
    <3>1. mid # <<>> /\ mid[Len(mid)] = dot
      <4>1. Len(mid) \in 1..(Len(lines) - 2) /\ Len(mid) + 1 = Len(lines) - 1
        BY <1>1, <1>2, <2>15
      <4>2. mid[Len(mid)] = lines[Len(lines) - 1]
        BY <1>1, <4>1
      <4>3. QED
        BY <1>2, <2>15, <4>2, EmptySeq
    <3>2. PICK most \in Seq(L) :
            /\ mid = most \o dots /\ Len(most) = Len(mid) - 1
            /\ \A k \in 1..(Len(mid) - 1) : most[k] = mid[k]
      BY <1>1, <3>1, DotIsLast DEF L
    <3>3. \A k \in 1..Len(most) : most[k] # <<".">>
      <4>1. ASSUME NEW k \in 1..Len(most) PROVE most[k] # <<".">>
        <5>1. /\ k + 1 \in 1..(Len(lines) - 2) /\ k + 1 # 1
              /\ k \in 1..(Len(lines) - 2) /\ k \in 1..(Len(mid) - 1)
          BY <1>1, <3>2
        <5>2. most[k] = lines[k + 1]
          BY <1>1, <3>2, <5>1
        <5>3. QED
          BY <1>2, <5>1, <5>2 DEF Completed
      <4>2. QED
        BY <4>1
    <3>4. whole # <<".">>
      <4>1. 1 \in 1..(Len(lines) - 2)
        <5>1. n - 2 # 0
          BY <1>2a, <2>15
        <5>2. 1 \in 1..(n - 2)
          BY <1>2b, <5>1
        <5>3. QED
          BY <1>2a, <5>2
      <4>2. Completed(lines, 1) = whole
        BY <1>7 DEF Completed, first, whole, pending
      <4>3. QED
        BY <1>2, <4>1, <4>2
    <3> DEFINE u == Unstuffed(most)
    <3>5. u \in Seq(L) /\ Doubled(u) = most
      BY <3>3, UnstuffedType, DoubledUnstuffed DEF L
    <3>6. AreSame(Unstuffed(most \o dots), u \o dots)
      BY UnstuffedTwo, Zenon DEF L
    <3> HIDE DEF u, dots
    <3> DEFINE head == base \o wholes
               all == head \o u
    <3>7. head \in Seq(L) /\ AreSame(Doubled(head), Doubled(base) \o Doubled(wholes))
      BY <2>1, <2>4, DoubledTwo, ConcatProperties, Zenon DEF L
    <3>8. Doubled(wholes) = wholes
      BY <2>2, <3>4, DoubledOne DEF Double, L, wholes
    <3>9. Doubled(head) = d \o wholes
      BY <2>5, <3>7, <3>8 DEF AreSame
    <3> HIDE DEF head
    <3>10. all \in Seq(L) /\ AreSame(Doubled(all), Doubled(head) \o Doubled(u))
      BY <3>5, <3>7, DoubledTwo, ConcatProperties, Zenon DEF L
    <3>11. read = all \o dots
      <4>1. read = head \o (u \o dots)
        BY <2>3, <2>4, <3>2, <3>6 DEF AreSame, head
      <4>2. AreSame((head \o u) \o dots, head \o (u \o dots))
        BY <1>4, <3>5, <3>7, Regroup1, Zenon
      <4>3. QED
        BY <4>1, <4>2 DEF AreSame
    <3> HIDE DEF all
    <3>12. AreSame(Stuffed(all \o dots), Doubled(all) \o dots)
      BY <1>4, <3>10, StuffedTwo, Zenon DEF L, dots
    <3>13. PICK dh \in Seq(L) : dh = d \o wholes
      BY <2>9
    <3>14. dh \o most \in Seq(L) /\ AreSame(Join(dh \o most), Join(dh) \o Join(most))
      BY <3>2, <3>13, JoinTwo, Zenon DEF L
    <3> DEFINE dm == dh \o most
    <3>15. Doubled(all) = dm
      BY <3>5, <3>9, <3>10, <3>13 DEF AreSame
    <3>16. dm \in Seq(L)
      BY <3>14
    <3> HIDE DEF dm
    <3>17. AreSame(Join(dm \o dots), Join(dm) \o (dot \o CRLF)) /\ dm \o dots \in Seq(L)
      BY <1>4, <3>16, JoinMore, Zenon DEF L, dots
    <3>18. AreSame(Join(most \o dots), Join(most) \o (dot \o CRLF))
      BY <1>4, <3>2, JoinMore, Zenon DEF L, dots
    <3>19. PICK m \in Seq(Bytes), x \in Seq(Bytes) : m = Join(most) /\ x = dot \o CRLF
      <4>1. dot \o CRLF \in Seq(Bytes)
        BY <1>4, ConcatProperties, Zenon DEF L
      <4>2. QED
        BY <1>4, <3>2, <4>1, JoinType DEF L
    <3>20. AreSame(Join(firsts \o mid), Join(firsts) \o Join(mid))
      BY <1>1, <2>4, JoinTwo, Zenon DEF L
    <3>21. PICK y \in Seq(Bytes) : y = l \o c
      BY ConcatProperties
    <3>22. AreSame((y \o m) \o x, y \o (m \o x))
      BY Regroup1, Zenon
    <3>23. bytes = ((l \o c) \o m) \o x
      BY <1>5, <2>12, <2>13, <3>2, <3>18, <3>19, <3>20, <3>21, <3>22 DEF AreSame
    <3>24. Stuffed(read) = dm \o dots
      BY <3>11, <3>12, <3>15 DEF AreSame
    <3>25. Join(dm \o dots) = ((D \o ((e \o l) \o c)) \o m) \o x
      BY <2>11, <3>13, <3>14, <3>17, <3>19 DEF AreSame, dm
    <3>26. AreSame(((D \o ((e \o l) \o c)) \o m) \o x, (D \o e) \o (((l \o c) \o m) \o x))
      BY Regroup4, Zenon
    <3>27. AreSame(Join(Stuffed(read)), ReaderText \o bytes)
      BY <2>7, <3>23, <3>24, <3>25, <3>26 DEF AreSame
    <3>28. read \in Seq(L)
      BY <1>4, <3>10, <3>11, ConcatProperties, Zenon
    <3>29. QED
      BY <3>27, <3>28 DEF read, lines, L
  <2>16. QED
    BY <2>14, <2>15
<1>8. QED
  BY <1>6, <1>7

-----------------------------------------------------------------------------
(* The kinds of a chunk.                                                    *)

\* The first byte of a chunk is that of its first line, if the line has one.
LEMMA FirstByte ==
  ASSUME NEW bytes \in Seq(Bytes), Len(Split(bytes)) >= 2
  PROVE  /\ Split(bytes)[1] \in Seq(Bytes)
         /\ Split(bytes)[1] = <<>> => bytes[1] = "CR"
         /\ Split(bytes)[1] # <<>> => bytes[1] = Head(Split(bytes)[1])
<1> DEFINE line == Split(bytes)[1]
           ended == line \o CRLF
<1>1. 1 \in 1..(Len(Split(bytes)) - 1) /\ CRLF \in Seq(Bytes)
  BY ChunkParts, Texts
<1>2. line \in Seq(Bytes)
  BY <1>1, LineInChunk
<1>3. PICK before \in Seq(Bytes), after \in Seq(Bytes) :
        bytes = (before \o ended) \o after /\ before = <<>>
  BY <1>1, LineInChunk, ZenonT(40)
<1> HIDE DEF line
<1>4. ended \in Seq(Bytes) /\ IsConcat(line, CRLF, ended)
  BY <1>1, <1>2, Concat, Zenon
<1> HIDE DEF ended
<1>5. bytes = ended \o after
  BY <1>3, <1>4, ConcatEmptySeq
<1>6. AreSame(bytes, ended \o after) /\ IsConcat(ended, after, ended \o after)
  BY <1>4, <1>5, Concat, Zenon DEF AreSame
<1>7. IsConcat(ended, after, bytes)
  BY <1>6 DEF AreSame
<1>8. Len(CRLF) = 2 /\ CRLF[1] = "CR"
  BY DEF CRLF
<1>9. bytes[1] = ended[1]
  BY <1>4, <1>7, <1>8 DEF IsConcat
<1>10. CASE line = <<>>
  <2>1. Len(line) = 0 /\ 1 \in 1..2
    BY <1>10
  <2>2. ended[1] = "CR"
    BY <1>4, <1>8, <2>1 DEF IsConcat
  <2>3. QED
    BY <1>2, <1>9, <1>10, <2>2 DEF line
<1>11. CASE line # <<>>
  <2>1. Len(line) >= 1 /\ Head(line) = line[1]
    BY <1>2, <1>11, EmptySeq
  <2>2. ended[1] = line[1]
    BY <1>4, <2>1 DEF IsConcat
  <2>3. QED
    BY <1>2, <1>9, <1>11, <2>1, <2>2 DEF line
<1>12. QED
  BY <1>10, <1>11

\* What is read with a chunk that has a line end.
LEMMA ReadType ==
  ASSUME ReaderType, NEW bytes \in Seq(Bytes), Len(Split(bytes)) >= 2
  PROVE  LinesWith(Split(bytes)) \in Seq(Seq(Bytes)) /\ LinesWith(Split(bytes)) # <<>>
<1> DEFINE L == Seq(Bytes)
           lines == Split(bytes)
           front == SubSeq(lines, 1, Len(lines) - 1)
           mid == SubSeq(lines, 2, Len(lines) - 1)
           read == LinesWith(lines)
<1>1. /\ lines[1] \in L /\ front \in Seq(L) /\ mid \in Seq(L) /\ Len(front) = Len(lines) - 1
      /\ Len(lines) \in Nat /\ Len(lines) >= 2
  BY ChunkParts
<1>2. Unstuffed(front) \in Seq(L) /\ Unstuffed(mid) \in Seq(L) /\ Len(Unstuffed(front)) = Len(front)
  BY <1>1, UnstuffedType
<1>3. CASE isLinePending
  <2> DEFINE whole == Last(responseLines) \o lines[1]
             head == Append(Front(responseLines), whole)
  <2>1. read = head \o Unstuffed(mid)
    BY <1>3 DEF LinesWith
  <2>2. Front(responseLines) \in Seq(L) /\ Last(responseLines) \in L
    BY <1>3, PendingParts
  <2> HIDE DEF lines, mid, front, read
  <2>3. whole \in L
    BY <1>1, <2>2, ConcatProperties, Zenon
  <2> HIDE DEF whole, L
  <2>4. head \in Seq(L) /\ Len(head) = Len(Front(responseLines)) + 1 /\ Len(Front(responseLines)) \in Nat
    BY <2>2, <2>3, AppendProperties, LenProperties
  <2> HIDE DEF head
  <2>5. head \o Unstuffed(mid) \in Seq(L) /\ IsConcat(head, Unstuffed(mid), head \o Unstuffed(mid))
    BY <1>2, <2>4, Concat, Zenon
  <2>6. read \in Seq(L) /\ Len(read) # 0
    BY <2>1, <2>4, <2>5 DEF IsConcat
  <2>7. QED
    BY <2>6, EmptySeq DEF read, lines, L
<1>4. CASE ~isLinePending
  <2> DEFINE u == Unstuffed(front)
  <2>1. read = responseLines \o u
    BY <1>4 DEF LinesWith
  <2>2. responseLines \in Seq(L) /\ u \in Seq(L) /\ Len(u) # 0
    BY <1>1, <1>2 DEF ReaderType
  <2> HIDE DEF lines, mid, front, read, L, u
  <2>3. responseLines \o u \in Seq(L) /\ IsConcat(responseLines, u, responseLines \o u)
    BY <2>2, Concat, Zenon
  <2>4. read \in Seq(L) /\ Len(read) # 0
    BY <2>1, <2>2, <2>3 DEF IsConcat
  <2>5. QED
    BY <2>4, EmptySeq DEF read, lines, L
<1>5. QED
  BY <1>3, <1>4

\* The verdict of the first chunk with a line end is in its first byte.
LEMMA VerdictOfFirst ==
  ASSUME ReaderType, NEW bytes \in Seq(Bytes), Len(Split(bytes)) >= 2,
         isOkResponse = "unknown", responseLines = <<>>, ~isLinePending
  PROVE  Verdict(LinesWith(Split(bytes))) = IF bytes[1] = "+OK" THEN "ok" ELSE "error"
<1> DEFINE L == Seq(Bytes)
           lines == Split(bytes)
           front == SubSeq(lines, 1, Len(lines) - 1)
           u == Unstuffed(front)
           read == LinesWith(lines)
<1>1. /\ lines[1] \in L /\ front \in Seq(L) /\ Len(front) = Len(lines) - 1
      /\ Len(lines) \in Nat /\ Len(lines) >= 2 /\ \A k \in 1..(Len(lines) - 1) : front[k] = lines[k]
  BY ChunkParts
<1>2. /\ u \in Seq(L) /\ Len(u) = Len(front)
      /\ \A k \in 1..Len(front) : u[k] = IF front[k] = <<".", ".">> THEN <<".">> ELSE front[k]
  BY <1>1, UnstuffedType
<1>3. read = responseLines \o u
  BY DEF LinesWith
<1>4. read = u
  <2> HIDE DEF u, read, L
  <2> QED BY <1>2, <1>3, ConcatEmptySeq
<1>5. /\ lines[1] = <<>> => bytes[1] = "CR"
      /\ lines[1] # <<>> => bytes[1] = Head(lines[1])
  BY FirstByte
<1> HIDE DEF lines, front, u, read
<1>6. u[1] = IF lines[1] = <<".", ".">> THEN <<".">> ELSE lines[1]
  <2>1. 1 \in 1..(Len(lines) - 1) /\ 1 \in 1..Len(front)
    BY <1>1
  <2>2. front[1] = lines[1]
    BY <1>1, <2>1
  <2>3. QED
    BY <1>2, <2>1, <2>2, Zenon
<1>7. Verdict(read) = IF u[1] # <<>> /\ Head(u[1]) = "+OK" THEN "ok" ELSE "error"
  BY <1>4 DEF Verdict
<1>8. CASE lines[1] = <<".", ".">>
  <2>1. Head(<<".", ".">>) = "." /\ Head(<<".">>) = "." /\ <<".", ".">> # <<>> /\ <<".">> # <<>>
    OBVIOUS
  <2>2. QED
    BY <1>5, <1>6, <1>7, <1>8, <2>1 DEF read, lines
<1>9. CASE lines[1] # <<".", ".">>
  <2>1. u[1] = lines[1]
    BY <1>6, <1>9
  <2>2. QED
    BY <1>5, <1>7, <2>1 DEF read, lines
<1>10. QED
  BY <1>8, <1>9

\* A chunk without a line end.
LEMMA PieceRead ==
  ASSUME ReaderType, NEW bytes \in Seq(Bytes), Len(Split(bytes)) = 1
  PROVE  LinesWith(Split(bytes)) =
           IF isLinePending THEN Append(Front(responseLines), Last(responseLines) \o bytes)
                            ELSE responseLines
<1> DEFINE L == Seq(Bytes)
           lines == Split(bytes)
<1>1. lines[1] = bytes /\ Len(lines) = 1
  BY OnePiece
<1>2. SubSeq(lines, 1, Len(lines) - 1) = <<>> /\ SubSeq(lines, 2, Len(lines) - 1) = <<>>
  <2>1. Len(lines) - 1 = 0 /\ 0 \in Int /\ 1 \in Int /\ 2 \in Int /\ 0 < 1 /\ 0 < 2
    BY <1>1
  <2>2. SubSeq(lines, 1, 0) = <<>> /\ SubSeq(lines, 2, 0) = <<>>
    BY <2>1, SubSeqEmpty
  <2>3. QED
    BY <2>1, <2>2
<1>3. Unstuffed(<<>>) = <<>>
  <2>1. <<>> \in Seq(L) /\ Len(<<>>) = 0
    BY EmptySeq
  <2>2. Unstuffed(<<>>) \in Seq(L) /\ Len(Unstuffed(<<>>)) = 0
    BY <2>1, UnstuffedType
  <2>3. QED
    BY <2>2, EmptySeq
<1> HIDE DEF lines
<1>4. CASE isLinePending
  <2> DEFINE whole == Last(responseLines) \o bytes
             head == Append(Front(responseLines), whole)
  <2>1. LinesWith(lines) = head \o <<>>
    BY <1>1, <1>2, <1>3, <1>4 DEF LinesWith
  <2>2. Front(responseLines) \in Seq(L) /\ Last(responseLines) \in L
    BY <1>4, PendingParts
  <2>3. whole \in L
    BY <2>2, ConcatProperties, Zenon
  <2> HIDE DEF whole, L
  <2>4. head \in Seq(L)
    BY <2>2, <2>3, AppendProperties
  <2> HIDE DEF head
  <2>5. LinesWith(lines) = head
    BY <2>1, <2>4, ConcatEmptySeq
  <2>6. QED
    BY <1>4, <2>5 DEF lines, head, whole
<1>5. CASE ~isLinePending
  <2>1. LinesWith(lines) = responseLines \o <<>>
    BY <1>2, <1>3, <1>5 DEF LinesWith
  <2>2. responseLines \o <<>> = responseLines
    BY ConcatEmptySeq DEF ReaderType
  <2>3. QED
    BY <1>5, <2>1, <2>2 DEF lines
<1>6. QED
  BY <1>4, <1>5

-----------------------------------------------------------------------------
(* What the reader keeps.                                                   *)

\* The lines that the reader keeps of a chunk that does not complete the response.
Kept(lines) ==
  IF Last(lines) = <<>> \/ (isLinePending /\ Len(lines) = 1)
  THEN LinesWith(lines) ELSE Append(LinesWith(lines), Last(lines))

\* The text of a reader that is in the midst of a line, or not.
TextOf(pending, read) ==
  IF pending THEN Join(Doubled(Front(read))) \o Last(read) ELSE Join(Doubled(read))

\* What has been read and the line behind it.
LEMMA FrontLastOf ==
  ASSUME NEW read \in Seq(Seq(Bytes)), NEW line \in Seq(Bytes)
  PROVE  /\ Append(read, line) \in Seq(Seq(Bytes)) /\ Append(read, line) # <<>>
         /\ Front(Append(read, line)) = read /\ Last(Append(read, line)) = line
<1> DEFINE L == Seq(Bytes)
<1>1. read \in Seq(L) /\ line \in L
  OBVIOUS
<1> HIDE DEF L
<1>2. Append(read, line) \in Seq(L) /\ Append(read, line) # <<>>
  BY <1>1, AppendProperties
<1>3. Front(Append(read, line)) = read /\ Last(Append(read, line)) = line
  BY <1>1, FrontLastOfAppend
<1>4. QED
  BY <1>2, <1>3 DEF L

\* The last piece of a chunk that is kept: the type of the reader is kept.
LEMMA KeptType ==
  ASSUME ReaderType, NEW bytes \in Seq(Bytes), bytes # <<>>,
         isLinePending => Last(responseLines) # <<>>
  PROVE  LET lines == Split(bytes)
         IN /\ Kept(lines) \in Seq(Seq(Bytes))
            /\ Last(lines) # <<>> => Kept(lines) # <<>> /\ Last(Kept(lines)) # <<>>
            /\ Len(lines) >= 2 => Kept(lines) # <<>>
            /\ responseLines # <<>> => Kept(lines) # <<>>
<1> DEFINE L == Seq(Bytes)
           lines == Split(bytes)
           read == LinesWith(lines)
           last == Last(lines)
<1>0. /\ Len(lines) = 1 \/ Len(lines) >= 2
      /\ Len(lines) >= 2 => Len(lines) # 1
  <2>1. lines \in Seq(L) /\ lines # <<>>
    BY SplitType DEF Pieces
  <2> HIDE DEF lines
  <2>2. PICK n \in Nat : n = Len(lines) /\ n # 0
    BY <2>1, EmptySeq
  <2>3. (n = 1 \/ n >= 2) /\ (n >= 2 => n # 1)
    BY <2>2
  <2>4. QED
    BY <2>2, <2>3
<1>1. CASE Len(lines) >= 2
  <2>1. read \in Seq(L) /\ read # <<>> /\ last \in L
    BY <1>1, ReadType, ChunkParts
  <2>2. CASE last = <<>>
    <3>1. Kept(lines) = read
      BY <2>2 DEF Kept
    <3>2. QED
      BY <2>1, <2>2, <3>1
  <2>3. CASE last # <<>>
    <3>1. Kept(lines) = Append(read, last)
      BY <1>0, <1>1, <2>3 DEF Kept
    <3> HIDE DEF read, last, lines
    <3>2. Append(read, last) \in Seq(L) /\ Append(read, last) # <<>> /\ Last(Append(read, last)) = last
      BY <2>1, FrontLastOf
    <3>3. QED
      BY <2>3, <3>1, <3>2 DEF lines, last
  <2>4. QED
    BY <2>2, <2>3
<1>2. CASE Len(lines) = 1
  <2>1. last = bytes
    BY <1>2, OnePiece
  <2>2. read = IF isLinePending THEN Append(Front(responseLines), Last(responseLines) \o bytes)
                                ELSE responseLines
    BY <1>2, PieceRead
  <2>3. CASE isLinePending
    <3> DEFINE whole == Last(responseLines) \o bytes
    <3>1. Front(responseLines) \in Seq(L) /\ Last(responseLines) \in L
      BY <2>3, PendingParts
    <3>2. whole \in L /\ IsConcat(Last(responseLines), bytes, whole)
      BY <3>1, Concat, Zenon
    <3> HIDE DEF whole
    <3>3. whole # <<>>
      <4>1. Len(bytes) # 0 /\ Len(bytes) \in Nat
        BY EmptySeq
      <4>2. Len(whole) # 0
        BY <3>2, <4>1 DEF IsConcat
      <4>3. QED
        BY <4>2, EmptySeq
    <3>4. Kept(lines) = Append(Front(responseLines), whole)
      BY <1>2, <2>2, <2>3 DEF Kept, whole
    <3> HIDE DEF lines, last, read
    <3>5. /\ Append(Front(responseLines), whole) \in Seq(L)
          /\ Append(Front(responseLines), whole) # <<>>
          /\ Last(Append(Front(responseLines), whole)) = whole
      BY <3>1, <3>2, FrontLastOf
    <3>6. QED
      BY <1>2, <3>3, <3>4, <3>5 DEF lines
  <2>4. CASE ~isLinePending
    <3>1. Kept(lines) = Append(responseLines, bytes)
      BY <1>2, <2>1, <2>2, <2>4 DEF Kept
    <3>2. /\ Append(responseLines, bytes) \in Seq(L) /\ Append(responseLines, bytes) # <<>>
          /\ Last(Append(responseLines, bytes)) = bytes
      BY FrontLastOf DEF ReaderType
    <3>3. QED
      BY <1>2, <3>1, <3>2
  <2>5. QED
    BY <2>3, <2>4
<1>3. QED
  BY <1>0, <1>1, <1>2, Zenon

\* And its text is the text so far, continued by the chunk.
LEMMA KeptText ==
  ASSUME ReaderType, NEW bytes \in Seq(Bytes), bytes # <<>>
  PROVE  (\A k \in 1..(Len(Split(bytes)) - 1) : Completed(Split(bytes), k) # <<".">>)
         => AreSame(TextOf(Last(Split(bytes)) # <<>>, Kept(Split(bytes))), ReaderText \o bytes)
<1> DEFINE L == Seq(Bytes)
           lines == Split(bytes)
           read == LinesWith(lines)
           last == Last(lines)
<1>0. /\ Len(lines) = 1 \/ Len(lines) >= 2
      /\ Len(lines) >= 2 => Len(lines) # 1
  <2>1. lines \in Seq(L) /\ lines # <<>>
    BY SplitType DEF Pieces
  <2> HIDE DEF lines
  <2>2. PICK n \in Nat : n = Len(lines) /\ n # 0
    BY <2>1, EmptySeq
  <2>3. (n = 1 \/ n >= 2) /\ (n >= 2 => n # 1)
    BY <2>2
  <2>4. QED
    BY <2>2, <2>3
<1>00. SUFFICES ASSUME \A k \in 1..(Len(lines) - 1) : Completed(lines, k) # <<".">>
                PROVE  AreSame(TextOf(last # <<>>, Kept(lines)), ReaderText \o bytes)
  OBVIOUS
<1>1. CASE Len(lines) >= 2
  <2>1. read \in Seq(L) /\ AreSame(Join(Doubled(read)) \o last, ReaderText \o bytes)
    BY <1>00, <1>1, ReadMore
  <2>2. last \in L
    BY <1>1, ChunkParts
  <2> HIDE DEF read, lines, last
  <2>3. Join(Doubled(read)) \in Seq(Bytes)
    BY <2>1, DoubledType, Texts, JoinType
  <2>4. CASE last = <<>>
    <3>1. TextOf(last # <<>>, Kept(lines)) = Join(Doubled(read))
      BY <2>4 DEF Kept, TextOf, last, read
    <3>2. Join(Doubled(read)) \o last = Join(Doubled(read))
      BY <2>3, <2>4, ConcatEmptySeq
    <3>3. QED
      BY <2>1, <3>1, <3>2 DEF AreSame
  <2>5. CASE last # <<>>
    <3>1. Kept(lines) = Append(read, last)
      BY <1>0, <1>1, <2>5 DEF Kept, last, read
    <3>2. Front(Append(read, last)) = read /\ Last(Append(read, last)) = last
      BY <2>1, <2>2, FrontLastOf
    <3>3. TextOf(last # <<>>, Kept(lines)) = Join(Doubled(read)) \o last
      BY <2>5, <3>1, <3>2 DEF TextOf
    <3>4. QED
      BY <2>1, <3>3 DEF AreSame
  <2>6. QED
    BY <2>4, <2>5
<1>2. CASE Len(lines) = 1
  <2>1. last = bytes
    BY <1>2, OnePiece
  <2>2. read = IF isLinePending THEN Append(Front(responseLines), Last(responseLines) \o bytes)
                                ELSE responseLines
    BY <1>2, PieceRead
  <2>3. CASE isLinePending
    <3> DEFINE whole == Last(responseLines) \o bytes
               base == Front(responseLines)
    <3>1. base \in Seq(L) /\ Last(responseLines) \in L
      BY <2>3, PendingParts
    <3>2. whole \in L
      BY <3>1, ConcatProperties, Zenon
    <3>3. Kept(lines) = Append(base, whole)
      BY <1>2, <2>2, <2>3 DEF Kept
    <3> HIDE DEF lines, last, read, whole, base
    <3>4. Front(Append(base, whole)) = base /\ Last(Append(base, whole)) = whole
      BY <3>1, <3>2, FrontLastOf
    <3>5. TextOf(last # <<>>, Kept(lines)) = Join(Doubled(base)) \o whole
      BY <2>1, <3>3, <3>4 DEF TextOf
    <3>6. PICK d \in Seq(Bytes), e \in Seq(Bytes) :
            d = Join(Doubled(base)) /\ e = Last(responseLines)
      BY <3>1, DoubledType, Texts, JoinType
    <3>7. AreSame((d \o e) \o bytes, d \o (e \o bytes))
      BY Regroup1, Zenon
    <3>8. ReaderText = d \o e
      BY <2>3, <3>6 DEF ReaderText, base
    <3>9. QED
      BY <3>5, <3>6, <3>7, <3>8 DEF AreSame, whole
  <2>4. CASE ~isLinePending
    <3>1. Kept(lines) = Append(responseLines, bytes)
      BY <1>2, <2>1, <2>2, <2>4 DEF Kept
    <3>2. responseLines \in Seq(L)
      BY DEF ReaderType
    <3>3. Front(Append(responseLines, bytes)) = responseLines /\ Last(Append(responseLines, bytes)) = bytes
      BY <3>2, FrontLastOf
    <3>4. TextOf(last # <<>>, Kept(lines)) = Join(Doubled(responseLines)) \o bytes
      BY <2>1, <3>1, <3>3 DEF TextOf
    <3>5. ReaderText = Join(Doubled(responseLines))
      BY <2>4 DEF ReaderText
    <3>6. QED
      BY <3>4, <3>5 DEF AreSame
  <2>5. QED
    BY <2>3, <2>4
<1>3. QED
  BY <1>0, <1>1, <1>2, Zenon

-----------------------------------------------------------------------------
(* The end of a reply in a chunk.                                           *)

\* Of the text of lines the last byte is a line end.
LEMMA JoinEnds ==
  ASSUME NEW lines \in Seq(Seq(Bytes))
  PROVE  Join(lines) \in Seq(Bytes) /\ (Join(lines) = <<>> \/ Last(Join(lines)) = "LF")
<1>1. CRLF \in Seq(Bytes)
  BY Texts
<1>2. CASE lines = <<>>
  BY <1>1, <1>2, JoinEmpty, JoinType
<1>3. CASE lines # <<>>
  BY <1>1, <1>3, JoinLen, JoinType
<1>4. QED
  BY <1>2, <1>3

\* The last element of a concatenation.
LEMMA LastOfConcat ==
  ASSUME NEW s \in Seq(Bytes), NEW t \in Seq(Bytes), t # <<>>
  PROVE  s \o t # <<>> /\ Last(s \o t) = Last(t)
<1> DEFINE r == s \o t
<1>1. IsConcat(s, t, r) /\ r \in Seq(Bytes)
  BY Concat, Zenon
<1> HIDE DEF r
<1>2. Len(t) # 0 /\ Len(t) \in 1..Len(t)
  BY EmptySeq
<1>3. r[Len(r)] = t[Len(t)] /\ Len(r) # 0
  BY <1>1, <1>2 DEF IsConcat
<1>4. QED
  BY <1>1, <1>3, EmptySeq DEF Last, r

\* A dot alone on a line of a message, or what makes it so, is at its end.
LEMMA DotsAreLast ==
  ASSUME mailbox \in Mailboxes, NEW m \in Messages, ReaderType,
         isLinePending => Last(responseLines) # <<>>,
         NEW bytes \in Seq(Bytes), NEW rest \in Seq(Bytes),
         NEW k \in 1..(Len(Split(bytes)) - 1)
  PROVE  /\ AreSame((ReaderText \o bytes) \o rest, Join(Retrieved(m)))
         /\ Completed(Split(bytes), k) = <<".">>
         => k = Len(Split(bytes)) - 1 /\ Last(Split(bytes)) = <<>> /\ rest = <<>>
<1> DEFINE lines == Split(bytes)
           dot == <<".">>
           text == Join(Retrieved(m))
           sep == CRLF
<1>0. SUFFICES ASSUME AreSame((ReaderText \o bytes) \o rest, text), Completed(lines, k) = dot
               PROVE  k = Len(lines) - 1 /\ Last(lines) = <<>> /\ rest = <<>>
  OBVIOUS
<1>1. ReaderText \in Seq(Bytes) /\ sep \in Seq(Bytes) /\ dot \in Seq(Bytes)
  BY ReaderTextType, Texts DEF Bytes
<1>2. PICK before \in Seq(Bytes), after \in Seq(Bytes) :
        /\ bytes = (before \o (lines[k] \o CRLF)) \o after
        /\ k = 1 => before = <<>>
        /\ k # 1 => before # <<>> /\ Last(before) = "LF"
        /\ after = <<>> <=> k = Len(lines) - 1 /\ Last(lines) = <<>>
  BY <1>1, LineInChunk
<1>3. lines[k] \in Seq(Bytes)
  BY <1>1, LineInChunk
<1> HIDE DEF lines, dot, text, sep
\* A text that a dot line follows, at the beginning of a line, and what follows it.
<1>4. SUFFICES \E u \in Seq(Bytes) :
                 /\ u = <<>> \/ Last(u) = "LF"
                 /\ AreSame(ReaderText \o bytes, (u \o (dot \o sep)) \o after)
  <2>1. PICK u \in Seq(Bytes) : /\ u = <<>> \/ Last(u) = "LF"
                                /\ AreSame(ReaderText \o bytes, (u \o (dot \o sep)) \o after)
    BY <1>4
  <2> DEFINE w == u \o (dot \o sep)
             v == after \o rest
  <2>2. w \in Seq(Bytes) /\ v \in Seq(Bytes)
    BY <1>1, ConcatProperties, Zenon
  <2> HIDE DEF w
  <2>3. AreSame((w \o after) \o rest, w \o (after \o rest))
    BY <2>2, Regroup1, Zenon
  <2>4. text = w \o v
    BY <1>0, <2>1, <2>3 DEF AreSame, w
  <2> HIDE DEF v
  <2>5. v = <<>>
    BY <2>1, <2>2, <2>4, DotEnds DEF w, text, dot, sep
  <2>6. IsConcat(after, rest, v)
    BY Concat, Zenon DEF v
  <2>7. after = <<>> /\ rest = <<>>
    <3>1. Len(v) = 0
      BY <2>5, EmptySeq
    <3>2. Len(after) = 0 /\ Len(rest) = 0
      <4>1. PICK a \in Nat, r \in Nat : a = Len(after) /\ r = Len(rest)
        BY <2>6 DEF IsConcat
      <4>2. a + r = 0
        BY <2>6, <3>1, <4>1 DEF IsConcat
      <4>3. QED
        BY <4>1, <4>2
    <3>3. QED
      BY <3>2, EmptySeq
  <2>8. QED
    BY <1>2, <2>7 DEF lines
<1>5. CASE k # 1
  <2>1. lines[k] = dot
    BY <1>0, <1>5 DEF Completed
  <2>2. PICK u \in Seq(Bytes) : u = ReaderText \o before
    BY <1>1, ConcatProperties
  <2>3. Last(u) = "LF"
    BY <1>1, <1>2, <1>5, <2>2, LastOfConcat
  <2>4. PICK d \in Seq(Bytes) : d = dot \o sep
    BY <1>1, ConcatProperties
  <2>5. AreSame(((ReaderText \o before) \o d) \o after, ReaderText \o ((before \o d) \o after))
    BY <1>1, Regroup2, Zenon
  <2>6. bytes = (before \o d) \o after
    BY <1>2, <2>1, <2>4 DEF sep
  <2>7. AreSame(ReaderText \o bytes, (u \o (dot \o sep)) \o after)
    BY <2>2, <2>4, <2>5, <2>6 DEF AreSame
  <2>8. QED
    BY <2>3, <2>7
<1>6. CASE k = 1 /\ ~isLinePending
  <2>1. lines[k] = dot
    BY <1>0, <1>6 DEF Completed
  <2>2. ReaderText = <<>> \/ Last(ReaderText) = "LF"
    <3>1. ReaderText = Join(Doubled(responseLines))
      BY <1>6 DEF ReaderText
    <3>2. Doubled(responseLines) \in Seq(Seq(Bytes))
      BY DoubledType DEF ReaderType
    <3>3. QED
      BY <3>1, <3>2, JoinEnds
  <2>3. PICK d \in Seq(Bytes) : d = dot \o sep
    BY <1>1, ConcatProperties
  <2>4. <<>> \o d = d
    BY ConcatEmptySeq
  <2>5. bytes = d \o after
    BY <1>2, <1>6, <2>1, <2>3, <2>4 DEF sep
  <2>6. AreSame((ReaderText \o d) \o after, ReaderText \o (d \o after))
    BY <1>1, Regroup1, Zenon
  <2>7. AreSame(ReaderText \o bytes, (ReaderText \o (dot \o sep)) \o after)
    BY <2>3, <2>5, <2>6 DEF AreSame
  <2>8. QED
    BY <1>1, <2>2, <2>7
<1>7. CASE k = 1 /\ isLinePending
  <2> DEFINE base == Join(Doubled(Front(responseLines)))
             pending == Last(responseLines)
  <2>1. Front(responseLines) \in Seq(Seq(Bytes)) /\ pending \in Seq(Bytes)
    BY <1>7, PendingParts
  <2>2. base \in Seq(Bytes) /\ (base = <<>> \/ Last(base) = "LF")
    BY <2>1, DoubledType, JoinEnds
  <2>3. pending # <<>> /\ pending \o lines[k] = dot
    BY <1>0, <1>7 DEF Completed
  <2>4. pending = dot /\ lines[k] = <<>>
    <3> DEFINE whole == pending \o lines[k]
    <3>1. IsConcat(pending, lines[k], whole)
      BY <1>3, <2>1, Concat, Zenon
    <3>2. Len(whole) = 1 /\ whole[1] = "."
      BY <2>3 DEF dot
    <3>3. Len(pending) # 0
      BY <2>1, <2>3, EmptySeq
    <3> HIDE DEF whole, pending
    <3>4. Len(pending) = 1 /\ Len(lines[k]) = 0 /\ pending[1] = "."
      <4> DEFINE line == lines[k]
      <4>1. PICK a \in Nat : a = Len(pending)
        BY <2>1 DEF pending
      <4>2. PICK b \in Nat : b = Len(line)
        BY <1>3
      <4> HIDE DEF line
      <4>3. Len(whole) = a + b /\ \A i \in 1..a : whole[i] = pending[i]
        BY <3>1, <4>1, <4>2 DEF IsConcat, line
      <4>4. a # 0 /\ a + b = 1
        BY <3>2, <3>3, <4>1, <4>3
      <4>5. a = 1 /\ b = 0 /\ 1 \in 1..a
        BY <4>4
      <4>6. QED
        BY <3>2, <4>1, <4>2, <4>3, <4>5 DEF line
    <3>5. pending = dot
      BY <2>1, <3>4 DEF dot, pending
    <3>6. QED
      BY <1>3, <3>4, <3>5, EmptySeq
  <2>5. <<>> \o sep = sep
    BY <1>1, ConcatEmptySeq
  <2>6. bytes = sep \o after
    BY <1>1, <1>2, <1>7, <2>4, <2>5 DEF sep
  <2>7. ReaderText = base \o dot
    BY <1>7, <2>4 DEF ReaderText
  <2> HIDE DEF base, pending
  <2>8. AreSame((base \o dot) \o (sep \o after), (base \o (dot \o sep)) \o after)
    <3>1. AreSame(((base \o dot) \o sep) \o after, base \o ((dot \o sep) \o after))
      BY <1>1, <2>2, Regroup2, Zenon
    <3>2. PICK x \in Seq(Bytes) : x = base \o dot
      BY <1>1, <2>2, ConcatProperties
    <3>3. PICK y \in Seq(Bytes) : y = dot \o sep
      BY <1>1, ConcatProperties
    <3>4. AreSame((x \o sep) \o after, x \o (sep \o after))
      BY <1>1, Regroup1, Zenon
    <3>5. AreSame((base \o y) \o after, base \o (y \o after))
      BY <2>2, Regroup1, Zenon
    <3>6. QED
      BY <3>1, <3>2, <3>3, <3>4, <3>5 DEF AreSame
  <2>9. AreSame(ReaderText \o bytes, (base \o (dot \o sep)) \o after)
    BY <2>6, <2>7, <2>8 DEF AreSame
  <2>10. QED
    BY <2>2, <2>9
<1>8. QED
  BY <1>5, <1>6, <1>7

\* Where a chunk ends with a dot line before the end of the message, it is the
\* end of a line that was cut before its last dot.
LEMMA EndsAtDot ==
  ASSUME mailbox \in Mailboxes, NEW m \in Messages,
         NEW done \in Seq(Bytes), NEW bytes \in Seq(Bytes), NEW rest \in Seq(Bytes)
  PROVE  /\ AreSame((done \o bytes) \o rest, Join(Retrieved(m)))
         /\ Len(Split(bytes)) >= 2
         /\ Last(Split(bytes)) = <<>> /\ Split(bytes)[Len(Split(bytes)) - 1] = <<".">>
         => rest = <<>> \/ (bytes = <<".">> \o CRLF /\ done # <<>> /\ Last(done) # "LF")
<1> DEFINE lines == Split(bytes)
           k == Len(lines) - 1
           dot == <<".">>
           text == Join(Retrieved(m))
           sep == CRLF
<1>0. SUFFICES ASSUME AreSame((done \o bytes) \o rest, text), Len(lines) >= 2,
                      Last(lines) = <<>>, lines[k] = dot,
                      ~(bytes = dot \o sep /\ done # <<>> /\ Last(done) # "LF")
               PROVE  rest = <<>>
  OBVIOUS
<1>1. sep \in Seq(Bytes) /\ dot \in Seq(Bytes) /\ k \in 1..(Len(lines) - 1)
  BY <1>0, ChunkParts, Texts DEF Bytes
<1>2. PICK before \in Seq(Bytes), after \in Seq(Bytes) :
        /\ bytes = (before \o (lines[k] \o CRLF)) \o after
        /\ k = 1 => before = <<>>
        /\ k # 1 => before # <<>> /\ Last(before) = "LF"
        /\ after = <<>> <=> k = Len(lines) - 1 /\ Last(lines) = <<>>
  BY <1>1, LineInChunk
<1> HIDE DEF lines, dot, text, sep, k
<1>3. PICK d \in Seq(Bytes) : d = dot \o sep
  BY <1>1, ConcatProperties
<1>4. bytes = before \o d
  <2>1. after = <<>>
    BY <1>0, <1>2 DEF k
  <2>2. before \o d \in Seq(Bytes)
    BY ConcatProperties
  <2>3. (before \o d) \o <<>> = before \o d
    BY <2>2, ConcatEmptySeq
  <2>4. QED
    BY <1>0, <1>2, <1>3, <2>1, <2>3 DEF sep
<1>5. PICK u \in Seq(Bytes) : u = done \o before
  BY ConcatProperties
<1>6. text = (u \o d) \o rest
  <2>1. AreSame((done \o before) \o d, done \o (before \o d))
    BY Regroup1, Zenon
  <2>2. QED
    BY <1>0, <1>4, <1>5, <2>1 DEF AreSame
<1>7. u = <<>> \/ Last(u) = "LF"
  <2>1. CASE k # 1
    BY <1>2, <1>5, <2>1, LastOfConcat
  <2>2. CASE k = 1
    <3>1. u = done
      BY <1>2, <1>5, <2>2, ConcatEmptySeq
    <3>2. <<>> \o d = d
      BY ConcatEmptySeq
    <3>3. bytes = dot \o sep
      BY <1>2, <1>3, <1>4, <2>2, <3>2
    <3>4. QED
      BY <1>0, <3>1, <3>3
  <2>3. QED
    BY <2>1, <2>2
<1>8. QED
  BY <1>3, <1>6, <1>7, DotEnds DEF text, dot, sep

-----------------------------------------------------------------------------
(* Where a yes can stand.                                                   *)

\* A byte is nowhere in a text.
HasNo(text, byte) == \A i \in 1..Len(text) : text[i] # byte

\* A part of a text without a byte has none either, nor is the byte at its head.
LEMMA HasNoPart ==
  ASSUME NEW u \in Seq(Bytes), NEW x \in Seq(Bytes), NEW w \in Seq(Bytes), NEW byte
  PROVE  AreSame(u, x \o w) /\ HasNo(u, byte) => HasNo(w, byte)
<1>1. SUFFICES ASSUME AreSame(u, x \o w), HasNo(u, byte)
               PROVE  HasNo(w, byte)
  OBVIOUS
<1>2. IsConcat(x, w, x \o w)
  BY Concat, Zenon
<1>3. PICK r : r = x \o w
  OBVIOUS
<1>4. IsConcat(x, w, r) /\ u = r
  BY <1>1, <1>2, <1>3 DEF AreSame
<1>5. PICK a \in Nat, b \in Nat : a = Len(x) /\ b = Len(w)
  OBVIOUS
<1>6. \A i \in 1..b : a + i \in 1..(a + b)
  BY <1>5
<1>7. QED
  BY <1>1, <1>4, <1>5, <1>6 DEF IsConcat, HasNo

\* After its first byte a message says no "+OK", unless a line of it does.
LEMMA NoYesAfter ==
  ASSUME mailbox \in Mailboxes, NEW m \in Messages,
         NEW s \in Seq(Bytes), NEW t \in Seq(Bytes)
  PROVE  AreSame(s \o t, Join(Retrieved(m))) /\ s # <<>> /\ ~SaysYes(mailbox[m])
         => HasNo(t, "+OK")
<1> DEFINE Others == Bytes \ {"+OK"}
           yes == <<"+OK", "CR", "LF">>
           end == <<".", "CR", "LF">>
           body == Join(mailbox[m])
           tail == body \o end
<1>1. SUFFICES ASSUME AreSame(s \o t, Join(Retrieved(m))), s # <<>>, ~SaysYes(mailbox[m])
               PROVE  HasNo(t, "+OK")
  OBVIOUS
<1>2. mailbox[m] \in Seq(Seq(Others))
  <2>1. mailbox[m] \in Seq(Seq(Bytes))
    BY MessageType
  <2>2. PICK box \in Seq(Seq(Bytes)) : box = mailbox[m]
    BY <2>1
  <2>3. ASSUME NEW k \in 1..Len(box)
        PROVE  box[k] \in Seq(Others)
    <3>1. PICK line \in Seq(Bytes) : line = box[k]
      OBVIOUS
    <3>2. \A i \in 1..Len(line) : line[i] \in Bytes /\ line[i] # "+OK"
      BY <1>1, <2>2, <3>1 DEF SaysYes
    <3>3. \A i \in 1..Len(line) : line[i] \in Others
      BY <3>2
    <3> HIDE DEF Others
    <3>4. QED
      BY <3>1, <3>3, SeqWith
  <2> HIDE DEF Others
  <2>4. box \in Seq(Seq(Others))
    BY <2>3, SeqWith
  <2>5. QED
    BY <2>2, <2>4
<1>3. CRLF \in Seq(Others) /\ end \in Seq(Others) /\ yes \in Seq(Bytes)
  BY DEF CRLF, Bytes
<1>4. body \in Seq(Others)
  BY <1>2, <1>3, JoinType
<1>5. tail \in Seq(Others)
  BY <1>3, <1>4, ConcatProperties, Zenon
<1>6. Join(Retrieved(m)) = yes \o tail
  BY ReplyText
<1>7. tail \in Seq(Bytes)
  <2>1. Others \subseteq Bytes
    OBVIOUS
  <2> HIDE DEF tail, Others
  <2>2. QED
    BY <1>5, <2>1
<1> HIDE DEF tail, Others, body
<1>8. IsConcat(yes, tail, yes \o tail)
  BY <1>3, <1>7, Concat, Zenon
<1>9. IsConcat(s, t, s \o t)
  BY Concat, Zenon
<1>10. PICK text : text = s \o t
  OBVIOUS
<1>11. IsConcat(s, t, text)
  BY <1>9, <1>10
<1>12. IsConcat(yes, tail, text)
  <2>1. text = yes \o tail
    BY <1>1, <1>6, <1>10 DEF AreSame
  <2>2. QED
    BY <1>8, <2>1
<1>13. PICK a \in Nat, b \in Nat, c \in Nat : a = Len(s) /\ b = Len(t) /\ c = Len(tail)
  BY <1>7
<1>14. a # 0
  BY <1>1, <1>13, EmptySeq
<1>15. Len(yes) = 3 /\ yes[2] = "CR" /\ yes[3] = "LF"
  OBVIOUS
<1> HIDE DEF yes
<1>16. Len(text) = 3 + c /\ Len(text) = a + b
  BY <1>11, <1>12, <1>13, <1>15 DEF IsConcat
<1>17. \A i \in 2..(3 + c) : text[i] # "+OK"
  <2>1. text[2] = "CR" /\ text[3] = "LF"
    <3>1. 2 \in 1..3 /\ 3 \in 1..3
      OBVIOUS
    <3>2. QED
      BY <1>12, <1>15, <3>1 DEF IsConcat
  <2>2. \A i \in 1..c : text[3 + i] = tail[i] /\ tail[i] # "+OK"
    <3>1. \A i \in 1..c : tail[i] \in Others
      BY <1>5, <1>13
    <3>2. QED
      BY <1>12, <1>13, <1>15, <3>1 DEF IsConcat, Others
  <2>3. SUFFICES ASSUME NEW i \in 2..(3 + c)
                 PROVE  text[i] # "+OK"
    OBVIOUS
  <2>4. CASE i \in {2, 3}
    BY <2>1, <2>4
  <2>5. CASE i \notin {2, 3}
    <3>1. PICK j \in 1..c : i = 3 + j
      <4>1. i - 3 \in 1..c /\ i = 3 + (i - 3)
        BY <2>5
      <4>2. QED
        BY <4>1
    <3>2. QED
      BY <2>2, <3>1
  <2>6. QED
    BY <2>4, <2>5
<1>18. \A i \in 1..b : a + i \in 2..(3 + c) /\ t[i] = text[a + i]
  BY <1>11, <1>13, <1>14, <1>16 DEF IsConcat
<1>19. QED
  BY <1>13, <1>17, <1>18 DEF HasNo

\* A response of one line: a chunk of it has two lines at most, and nothing
\* follows a chunk that ends with a line end.
LEMMA OneLine ==
  ASSUME NEW done \in Seq(Bytes), NEW bytes \in Seq(Bytes), NEW rest \in Seq(Bytes)
  PROVE  /\ AreSame((done \o bytes) \o rest, Join(Positive)) \/ AreSame((done \o bytes) \o rest, Join(Negative))
         => /\ Len(Split(bytes)) <= 2
            /\ Len(Split(bytes)) >= 2 /\ Last(Split(bytes)) = <<>> => rest = <<>>
<1> DEFINE lines == Split(bytes)
           front == SubSeq(lines, 1, Len(lines) - 1)
<1>1. SUFFICES ASSUME AreSame((done \o bytes) \o rest, Join(Positive)) \/ AreSame((done \o bytes) \o rest, Join(Negative))
               PROVE  /\ Len(Split(bytes)) <= 2
                      /\ Len(Split(bytes)) >= 2 /\ Last(Split(bytes)) = <<>> => rest = <<>>
  OBVIOUS
<1>2. IsConcat3(done, bytes, rest, (done \o bytes) \o rest)
  BY Concat3, Zenon
<1>3. PICK text : text = (done \o bytes) \o rest
  OBVIOUS
<1>4. IsConcat3(done, bytes, rest, text)
  BY <1>2, <1>3
<1>5. Len(text) = 3 /\ text[1] # "LF" /\ text[2] # "LF"
  <2>1. text = <<"+OK", "CR", "LF">> \/ text = <<"-ERR", "CR", "LF">>
    BY <1>1, <1>3, Texts, Zenon DEF AreSame
  <2>2. QED
    BY <2>1
<1>6. PICK a \in Nat, b \in Nat, c \in Nat : a = Len(done) /\ b = Len(bytes) /\ c = Len(rest)
  OBVIOUS
<1>7. a + b + c = 3 /\ b <= 3
  <2>1. Len(text) = Len(done) + Len(bytes) + Len(rest)
    BY <1>4 DEF IsConcat3
  <2>2. a + b + c = 3
    BY <1>5, <1>6, <2>1
  <2>3. QED
    BY <2>2
<1>8. PICK n \in Nat : n = Len(lines)
  BY SplitType DEF Pieces
<1>9. ASSUME n >= 2
      PROVE  /\ front \in Seq(Seq(Bytes)) /\ Len(front) = n - 1
             /\ Last(lines) \in Seq(Bytes)
             /\ bytes = Join(front) \o Last(lines)
  BY <1>8, <1>9, ChunkParts
<1>10. CRLF \in Seq(Bytes)
  BY Texts
<1> HIDE DEF front
<1>11. ASSUME n >= 2
       PROVE  /\ Join(front) \in Seq(Bytes) /\ Len(Join(front)) >= 2 * (n - 1)
              /\ Join(front) # <<>> /\ Last(Join(front)) = "LF"
  <2>1. front # <<>>
    BY <1>9, <1>11, EmptySeq
  <2>2. QED
    BY <1>9, <1>10, <1>11, <2>1, JoinLen, JoinType
<1> HIDE DEF lines
<1>12. n <= 2
  <2>1. SUFFICES ASSUME n > 2
                 PROVE  FALSE
    BY <1>8
  <2>2. PICK t \in Seq(Bytes) : t = Join(front)
    BY <1>11, <2>1
  <2>3. PICK l \in Seq(Bytes) : l = Last(lines)
    BY <1>9, <2>1
  <2>4. IsConcat(t, l, t \o l)
    BY Concat, Zenon
  <2>5. bytes = t \o l
    BY <1>9, <2>1, <2>2, <2>3
  <2>6. IsConcat(t, l, bytes)
    BY <2>4, <2>5
  <2>7. PICK d \in Nat, e \in Nat : d = Len(t) /\ e = Len(l)
    OBVIOUS
  <2>8. b = d + e
    BY <1>6, <2>6, <2>7 DEF IsConcat
  <2>9. d >= 2 * (n - 1)
    BY <1>11, <2>1, <2>2, <2>7
  <2>10. QED
    BY <1>7, <2>1, <2>8, <2>9
<1>13. ASSUME n >= 2, Last(lines) = <<>>
       PROVE  rest = <<>>
  <2>1. Join(front) \o <<>> = Join(front)
    BY <1>11, <1>13, ConcatEmptySeq
  <2>2. bytes = Join(front)
    BY <1>9, <1>13, <2>1
  <2>3. bytes # <<>> /\ Last(bytes) = "LF"
    BY <1>11, <1>13, <2>2
  <2>4. b # 0 /\ bytes[b] = "LF"
    BY <1>6, <2>3, EmptySeq DEF Last
  <2>5. b \in 1..b
    BY <2>4
  <2>6. text[a + b] = "LF"
    BY <1>4, <1>6, <2>4, <2>5 DEF IsConcat3
  <2>7. a + b # 1 /\ a + b # 2
    BY <1>5, <2>6
  <2>8. c = 0
    BY <1>7, <2>4, <2>7
  <2>9. QED
    BY <1>6, <2>8, EmptySeq
<1>14. QED
  BY <1>8, <1>12, <1>13 DEF lines

\* What precedes a text and what follows it are one text.
LEMMA OneMore ==
  ASSUME NEW done \in Seq(Bytes), NEW bytes \in Seq(Bytes), NEW rest \in Seq(Bytes), NEW whole
  PROVE  /\ done \o bytes \in Seq(Bytes)
         /\ bytes # <<>> => done \o bytes # <<>> /\ Last(done \o bytes) = Last(bytes)
         /\ AreSame(done \o (bytes \o rest), whole) => AreSame((done \o bytes) \o rest, whole)
<1>1. AreSame((done \o bytes) \o rest, done \o (bytes \o rest))
  BY Regroup1, Zenon
<1>2. done \o bytes \in Seq(Bytes)
  BY ConcatProperties, Zenon
<1>3. QED
  BY <1>1, <1>2, LastOfConcat DEF AreSame

\* The first byte of a text that begins with another one is its.
LEMMA HeadOf ==
  ASSUME NEW s \in Seq(Bytes), NEW t \in Seq(Bytes), s # <<>>
  PROVE  s \o t # <<>> /\ (s \o t)[1] = s[1] /\ Head(s \o t) = s[1]
<1>1. s \o t \in Seq(Bytes) /\ IsConcat(s, t, s \o t)
  BY Concat, Zenon
<1>2. PICK r \in Seq(Bytes) : r = s \o t
  BY <1>1
<1>3. IsConcat(s, t, r)
  BY <1>1, <1>2
<1>4. PICK a \in Nat, b \in Nat : a = Len(s) /\ b = Len(t)
  OBVIOUS
<1>5. a # 0
  BY <1>4, EmptySeq
<1>6. 1 \in 1..a /\ a + b # 0
  BY <1>5
<1>7. Len(r) # 0 /\ r[1] = s[1]
  BY <1>3, <1>4, <1>6 DEF IsConcat
<1>8. r # <<>> /\ Head(r) = r[1]
  BY <1>7, EmptySeq
<1>9. QED
  BY <1>2, <1>7, <1>8

-----------------------------------------------------------------------------
(* The inductive invariant.                                                 *)

\* The reader between two chunks: it has begun with nothing, and keeps no empty line
\* as the one that goes on.
Reader ==
  /\ isOkResponse = "unknown" => responseLines = <<>> /\ ~isLinePending
  /\ isOkResponse # "unknown" => responseLines # <<>>
  /\ isOkResponse # "error" => isMultiLineResponse = (command = "RETR")
  /\ isLinePending => Last(responseLines) # <<>>

\* The place in the chain of commands says which request is out, how many mails have
\* been taken, and what is marked and deleted.
Chain ==
  /\ requests \in {<<>>, << <<command, number>> >>}
  /\ state = "CONNECTING" => /\ command = "greeting" /\ requests = <<>> /\ wire = <<>>
                             /\ isOkResponse = "unknown"
  /\ command \in {"greeting", "USER", "PASS", "STAT"} => number = 1 /\ allMails = <<>>
  /\ command \in {"greeting", "USER", "PASS", "STAT", "RETR"} =>
       /\ Len(allMails) = number - 1
       /\ marked = IF doMarkForDeletion THEN 1..(number - 1) ELSE {}
  /\ command = "DELE" => /\ doMarkForDeletion /\ number \in Messages /\ Len(allMails) = number
                         /\ marked \in {1..(number - 1), 1..number}
  /\ command = "QUIT" => /\ number = Len(mailbox) /\ Len(allMails) = number
                         /\ marked = IF doMarkForDeletion THEN Messages ELSE {}
  /\ deleted # {} => command = "QUIT" /\ requests = <<>>
  /\ deleted \subseteq marked

\* What the server answers to the pending command when it says yes.
Reply == Join(IF command = "RETR" THEN Retrieved(number) ELSE Positive)

\* Why getAll may fail.  When it is to delete, and has come to the end of the commands,
\* only an answer that was cut in its first line, or a refusal, is left.
Reason ==
  \/ mailbox = <<>>
  \/ mishaps \cap {"first", "refused"} # {}
  \/ /\ mishaps \cap {"last", "dot"} # {}
     /\ Deceived \/ command # "QUIT" \/ ~doMarkForDeletion

\* The rest of the bytes: nothing, because the server has not answered yet;
Waiting(rest) ==
  /\ requests = << <<command, number>> >> /\ command # "greeting"
  /\ rest = <<>> /\ isOkResponse = "unknown"

\* or what is left of a refusal;
Refused(rest) ==
  /\ requests = <<>> /\ isOkResponse = "unknown"
  /\ "refused" \in mishaps \/ mailbox = <<>>
  /\ \E done \in Seq(Bytes) :
       AreSame(done \o rest, Join(Negative)) /\ (done # <<>> => "first" \in mishaps)

\* or what is left of the reply, to a command that the server has carried out.
Granted ==
  /\ requests = <<>>
  /\ command \in {"RETR", "DELE"} => number \in Messages
  /\ command = "DELE" => number \in marked
  /\ command = "QUIT" => deleted = marked

\* A line that is cut before a dot that is not the last one.
BeginsWithDot(rest) == IsPrefix(<<".">> \o CRLF, rest) /\ Len(rest) > 3

\* What has been read of the reply, and what has not: the reader has just that text.
Progress(done, rest) ==
  /\ isOkResponse = "unknown" /\ done # <<>> => "first" \in mishaps
  /\ isOkResponse = "ok" =>
       /\ done # <<>>
       /\ BeginsWithDot(rest) /\ Last(done) # "LF" => "dot" \in mishaps
       /\ command = "RETR" /\ "first" \notin mishaps /\ rest # <<>> => ReaderText = done

\* The reply is what has been read and the rest.
Accepted(rest) ==
  /\ Granted
  /\ \E done \in Seq(Bytes) : AreSame(done \o rest, Reply) /\ Progress(done, rest)

\* There is something of the last message, which was taken to end too early.
Leftover ==
  /\ "dot" \in mishaps /\ isOkResponse = "unknown"
  /\ command = "QUIT" => ~doMarkForDeletion

\* What is on its way: the end of a message that was taken to end too early, without
\* a yes, and the rest.
Ahead(garbage, rest) ==
  /\ AreSame(wire, garbage \o rest)
  /\ HasNo(garbage, "+OK")
  /\ garbage # <<>> => Leftover
  /\ Waiting(rest) \/ Refused(rest) \/ Accepted(rest)

\* While a reply is read, this is so.
Wire ==
  state = "READING" /\ isOkResponse # "error" =>
    \E garbage \in Seq(Bytes), rest \in Seq(Bytes) : Ahead(garbage, rest)

\* The last mail has not been read to its end: the run of commands has not come to the
\* deletion, and the next reply will be read as an error.
Spoilt ==
  /\ ~status /\ (command = "QUIT" => ~doMarkForDeletion)
  /\ state = "READING" =>
       \/ isOkResponse = "error"
       \/ isOkResponse = "unknown" /\ wire # <<>> /\ Head(wire) # "+OK"

\* All mails but a spoilt one have been read; true is returned after a granted QUIT.
Mails ==
  /\ "first" \notin mishaps =>
       \A m \in 1..Len(allMails) : IsRead(m) \/ (m = Len(allMails) /\ Spoilt)
  /\ status => /\ command = "QUIT" /\ requests = <<>> /\ deleted = marked
               /\ state \in {"exiting", "returned"}

\* An error, and a failure, has a reason.
Excuse ==
  /\ isOkResponse = "error" => Reason
  /\ state \in {"exiting", "returned"} /\ ~status => Reason

\* The inductive invariant.
IInv ==
  /\ TypeOK
  /\ Reader
  /\ Excuse
  /\ ~Deceived => Chain /\ Wire /\ Mails

-----------------------------------------------------------------------------
\* A chunk that arrives, and what is left.
Arrives(bytes, rest) ==
  /\ bytes \in Seq(Bytes) /\ bytes # <<>> /\ rest \in Seq(Bytes)
  /\ AreSame(wire, bytes \o rest)
  /\ wire' = rest /\ mishaps' = mishaps \cup Tears(bytes, rest)
  /\ state = "READING" /\ ~closed
  /\ UNCHANGED <<mailbox, doMarkForDeletion, marked, deleted, closed>>

\* The invariant has what the lemmas about the reader ask for.
LEMMA ReaderIsTyped ==
  ASSUME TypeOK, Reader
  PROVE  ReaderType
<1>1. isLinePending => responseLines # <<>>
  BY DEF TypeOK, Reader
<1>2. QED
  BY <1>1 DEF TypeOK, ReaderType

\* Lines of a chunk.
LEMMA LinesOfChunk ==
  ASSUME NEW bytes \in Seq(Bytes)
  PROVE  /\ Split(bytes) \in Seq(Seq(Bytes)) /\ Len(Split(bytes)) \in Nat \ {0}
         /\ Last(Split(bytes)) \in Seq(Bytes)
<1>1. PICK lines \in Pieces(Bytes) : lines = Split(bytes)
  BY SplitType
<1>2. lines \in Seq(Seq(Bytes)) /\ lines # <<>>
  BY DEF Pieces
<1>3. Len(lines) \in Nat \ {0} /\ Last(lines) \in Seq(Bytes)
  BY <1>2, FrontLast
<1>4. QED
  BY <1>1, <1>2, <1>3

\* A chunk may add a mishap of its place to the history, and removes none.
LEMMA TearsGrow ==
  ASSUME NEW bytes, NEW rest, Arrives(bytes, rest)
  PROVE  /\ mishaps \subseteq mishaps'
         /\ mishaps' \subseteq mishaps \cup Mishaps
         /\ isOkResponse = "unknown" /\ Len(Split(bytes)) = 1 => "first" \in mishaps'
         /\ BeginsWithDot(rest) /\ Last(bytes) # "LF" => "dot" \in mishaps'
BY DEF Arrives, Tears, BeginsWithDot, Mishaps

\* What is read of a response that was refused or that the server has granted.
LEMMA SingleReply ==
  ASSUME mailbox \in Mailboxes, Granted
  PROVE  /\ Reply \in Seq(Bytes)
         /\ command # "RETR" => Reply = Join(Positive)
         /\ command = "RETR" => Reply = Join(Retrieved(number)) /\ number \in Messages
         /\ Reply # <<>> /\ Reply[1] = "+OK"
<1>1. CASE command # "RETR"
  <2>1. Reply = Join(Positive)
    BY <1>1 DEF Reply
  <2>2. Reply = <<"+OK", "CR", "LF">>
    BY <2>1, Texts
  <2>3. QED
    BY <1>1, <2>1, <2>2 DEF Bytes
<1>2. CASE command = "RETR"
  <2>1. number \in Messages
    BY <1>2 DEF Granted
  <2>2. Reply = Join(Retrieved(number))
    BY <1>2 DEF Reply
  <2> DEFINE yes == <<"+OK", "CR", "LF">>
             tail == Join(mailbox[number]) \o <<".", "CR", "LF">>
  <2>3. Reply \in Seq(Bytes) /\ Reply = yes \o tail /\ Join(mailbox[number]) \in Seq(Bytes)
    BY <2>1, <2>2, ReplyText
  <2>4. yes \in Seq(Bytes) /\ yes # <<>> /\ yes[1] = "+OK" /\ <<".", "CR", "LF">> \in Seq(Bytes)
    BY DEF Bytes
  <2>5. tail \in Seq(Bytes)
    BY <2>3, <2>4, ConcatProperties, Zenon
  <2> HIDE DEF yes, tail
  <2>6. QED
    BY <1>2, <2>1, <2>2, <2>3, <2>4, <2>5, HeadOf
<1>3. QED
  BY <1>1, <1>2

\* An empty beginning.
LEMMA NothingBefore ==
  ASSUME NEW a \in Seq(Bytes), NEW whole
  PROVE  AreSame(<<>> \o a, whole) <=> a = whole
<1>1. <<>> \o a = a
  BY ConcatEmptySeq
<1>2. QED
  BY <1>1 DEF AreSame

-----------------------------------------------------------------------------
(* A chunk that is accepted.                                                *)

\* A text has no byte that a longer one has not.
LEMMA HeadIsNot ==
  ASSUME NEW s \in Seq(Bytes), NEW byte
  PROVE  s # <<>> /\ HasNo(s, byte) => s[1] # byte
<1>1. s # <<>> => Len(s) # 0 /\ Len(s) \in Nat
  BY EmptySeq
<1>2. s # <<>> => 1 \in 1..Len(s)
  BY <1>1
<1>3. QED
  BY <1>2 DEF HasNo

\* What is on its way begins with the chunk.
LEMMA WireOf ==
  ASSUME NEW bytes, NEW rest, Arrives(bytes, rest)
  PROVE  /\ wire \in Seq(Bytes) /\ wire # <<>> /\ wire[1] = bytes[1] /\ Head(wire) = bytes[1]
         /\ wire = bytes \o rest
<1>1. bytes \in Seq(Bytes) /\ rest \in Seq(Bytes) /\ bytes # <<>> /\ wire = bytes \o rest
  BY DEF Arrives, AreSame
<1>2. bytes \o rest \in Seq(Bytes)
  BY <1>1, ConcatProperties, Zenon
<1>3. QED
  BY <1>1, <1>2, HeadOf

\* A no says no yes.
LEMMA NoYesInNegative == Join(Negative) \in Seq(Bytes) /\ HasNo(Join(Negative), "+OK")
<1>1. Join(Negative) = <<"-ERR", "CR", "LF">>
  BY Texts
<1>2. QED
  BY <1>1 DEF HasNo, Bytes

\* A chunk with which a reply is read without an error belongs to a reply that grants
\* the command, unless a line of a message is read as an answer.
LEMMA AcceptedChunk ==
  ASSUME IInv, ~Deceived, NEW bytes, NEW rest, Arrives(bytes, rest),
         ~Throws(Split(bytes)), Verdict(LinesWith(Split(bytes))) = "ok"
  PROVE  /\ Granted
         /\ isOkResponse # "error"
         /\ isOkResponse = "unknown" => bytes[1] = "+OK"
         /\ \E done \in Seq(Bytes) :
              AreSame((done \o bytes) \o rest, Reply) /\ Progress(done, wire)
<1>1. bytes \in Seq(Bytes) /\ bytes # <<>> /\ rest \in Seq(Bytes) /\ state = "READING"
  BY DEF Arrives
<1>2. isOkResponse \in {"unknown", "ok"}
  BY DEF Verdict, IInv, TypeOK
<1>3. isOkResponse = "unknown" => bytes[1] = "+OK"
  <2>1. SUFFICES ASSUME isOkResponse = "unknown"
                 PROVE  bytes[1] = "+OK"
    OBVIOUS
  <2>2. ReaderType /\ responseLines = <<>> /\ ~isLinePending
    BY <2>1, ReaderIsTyped DEF IInv, Reader
  <2>3. Len(Split(bytes)) >= 2
    <3>1. PICK n \in Nat \ {0} : n = Len(Split(bytes))
      BY <1>1, LinesOfChunk
    <3>2. n # 1
      BY <2>1, <3>1 DEF Throws
    <3>3. QED
      BY <3>1, <3>2
  <2>4. QED
    BY <1>1, <2>1, <2>2, <2>3, VerdictOfFirst
<1>4. PICK g \in Seq(Bytes), a \in Seq(Bytes) : Ahead(g, a)
  BY <1>1, <1>2 DEF IInv, Wire
<1>5. wire \in Seq(Bytes) /\ wire # <<>> /\ wire[1] = bytes[1] /\ wire = bytes \o rest
  BY WireOf
<1>6. g = <<>>
  <2>1. SUFFICES ASSUME g # <<>>
                 PROVE  FALSE
    OBVIOUS
  <2>2. isOkResponse = "unknown" /\ HasNo(g, "+OK")
    BY <1>4, <2>1 DEF Ahead, Leftover
  <2>3. g[1] # "+OK"
    BY <2>1, <2>2, HeadIsNot
  <2>4. wire = g \o a
    BY <1>4 DEF Ahead, AreSame
  <2>5. wire[1] = g[1]
    BY <2>1, <2>4, HeadOf
  <2>6. QED
    BY <1>3, <1>5, <2>2, <2>3, <2>5
<1>7. a = wire
  <2>1. AreSame(<<>> \o a, wire)
    BY <1>4, <1>6 DEF Ahead, AreSame
  <2>2. QED
    BY <2>1, NothingBefore
<1>8. ~Waiting(a)
  BY <1>5, <1>7 DEF Waiting
<1>9. ~Refused(a)
  <2>1. SUFFICES ASSUME isOkResponse = "unknown", NEW done \in Seq(Bytes),
                        AreSame(done \o a, Join(Negative))
                 PROVE  FALSE
    BY DEF Refused
  <2>2. AreSame(Join(Negative), done \o a)
    BY <2>1 DEF AreSame
  <2>3. HasNo(a, "+OK")
    BY <2>2, NoYesInNegative, HasNoPart
  <2>4. QED
    BY <1>3, <1>5, <1>7, <2>1, <2>3, HeadIsNot
<1>10. Accepted(wire)
  BY <1>4, <1>7, <1>8, <1>9 DEF Ahead
<1>11. PICK done \in Seq(Bytes) : AreSame(done \o wire, Reply) /\ Progress(done, wire)
  BY <1>10 DEF Accepted
<1>12. AreSame(done \o (bytes \o rest), Reply)
  BY <1>5, <1>11
<1>13. AreSame((done \o bytes) \o rest, Reply)
  BY <1>1, <1>12, OneMore
<1>14. QED
  BY <1>2, <1>3, <1>10, <1>11, <1>13 DEF Accepted

\* A message that is not taken for an answer now was not before.
LEMMA DeceivedStays ==
  ASSUME mishaps \subseteq mishaps', mailbox' = mailbox
  PROVE  Deceived => Deceived'
BY DEF Deceived, Messages

\* A reason stays a reason.
LEMMA ReasonStays ==
  ASSUME mishaps \subseteq mishaps', UNCHANGED <<mailbox, doMarkForDeletion, command>>
  PROVE  Reason => Reason'
<1>1. Deceived => Deceived'
  BY DeceivedStays
<1>2. QED
  BY <1>1 DEF Reason

\* A reply that is read as an error is a refusal or has been torn.
LEMMA ErrorHasAReason ==
  ASSUME IInv, NEW bytes, NEW rest, Arrives(bytes, rest),
         \/ HasTooManyLines(Split(bytes))
         \/ ~Throws(Split(bytes)) /\ Verdict(LinesWith(Split(bytes))) # "ok",
         UNCHANGED command
  PROVE  Reason'
<1>1. bytes \in Seq(Bytes) /\ bytes # <<>> /\ rest \in Seq(Bytes) /\ state = "READING"
  BY DEF Arrives
<1>2. SUFFICES ASSUME ~Reason'
               PROVE  FALSE
  OBVIOUS
<1>3. /\ UNCHANGED <<mailbox, doMarkForDeletion, command>>
      /\ mishaps \subseteq mishaps' /\ mishaps' \subseteq Mishaps
  BY TearsGrow DEF Arrives, IInv, TypeOK
<1>4. /\ ~Reason /\ ~Deceived /\ mailbox \in Mailboxes
      /\ "first" \notin mishaps /\ "refused" \notin mishaps /\ mailbox # <<>>
      /\ "dot" \in mishaps => command = "QUIT" /\ doMarkForDeletion
  <2>1. ~Reason
    BY <1>2, <1>3, ReasonStays
  <2>2. ~Deceived
    BY <2>1 DEF Reason, Deceived
  <2>3. mailbox # <<>> /\ "first" \notin mishaps /\ "refused" \notin mishaps
    BY <2>1 DEF Reason
  <2>4. "dot" \in mishaps => command = "QUIT" /\ doMarkForDeletion
    <3>1. "dot" \in mishaps => mishaps \cap {"last", "dot"} # {}
      OBVIOUS
    <3>2. QED
      BY <2>1, <3>1 DEF Reason
  <2>5. mailbox \in Mailboxes
    BY DEF IInv, TypeOK
  <2>6. QED
    BY <2>1, <2>2, <2>3, <2>4, <2>5, Zenon
<1>5. isOkResponse \in {"unknown", "ok"}
  BY <1>4 DEF IInv, Excuse, TypeOK
<1>6. PICK g \in Seq(Bytes), a \in Seq(Bytes) : Ahead(g, a)
  BY <1>1, <1>4, <1>5 DEF IInv, Wire
<1>7. g = <<>>
  BY <1>4, <1>6 DEF Ahead, Leftover
<1>8. wire \in Seq(Bytes) /\ wire # <<>> /\ wire[1] = bytes[1] /\ wire = bytes \o rest
  BY WireOf
<1>9. a = wire
  <2>1. AreSame(<<>> \o a, wire)
    BY <1>6, <1>7 DEF Ahead, AreSame
  <2>2. QED
    BY <2>1, NothingBefore
<1>10. ~Waiting(a) /\ ~Refused(a)
  BY <1>4, <1>8, <1>9 DEF Waiting, Refused
<1>11. Accepted(wire)
  BY <1>6, <1>9, <1>10 DEF Ahead
<1>12. PICK done \in Seq(Bytes) : AreSame(done \o wire, Reply) /\ Progress(done, wire)
  BY <1>11 DEF Accepted
<1>13. AreSame(done \o (bytes \o rest), Reply)
  BY <1>8, <1>12
<1>14. AreSame((done \o bytes) \o rest, Reply)
  BY <1>1, <1>13, OneMore
<1>15. Granted
  BY <1>11 DEF Accepted
<1>16. PICK n \in Nat \ {0} : n = Len(Split(bytes))
  BY <1>1, LinesOfChunk
<1>17. ~HasTooManyLines(Split(bytes))
  <2>1. SUFFICES ASSUME ~isMultiLineResponse
                 PROVE  n <= 2
    BY <1>16 DEF HasTooManyLines
  <2>2. command # "RETR"
    BY <1>5, <2>1 DEF IInv, Reader
  <2>3. Reply = Join(Positive)
    BY <1>4, <1>15, <2>2, SingleReply
  <2>4. AreSame((done \o bytes) \o rest, Join(Positive))
    BY <1>14, <2>3
  <2>5. QED
    BY <1>1, <1>16, <2>4, OneLine
<1>18. ~Throws(Split(bytes)) /\ Verdict(LinesWith(Split(bytes))) # "ok"
  BY <1>17
<1>19. isOkResponse = "unknown"
  BY <1>5, <1>18 DEF Verdict
<1>20. done = <<>>
  BY <1>4, <1>12, <1>19 DEF Progress
<1>21. wire = Reply
  BY <1>8, <1>12, <1>20, NothingBefore
<1>22. bytes[1] = "+OK"
  BY <1>4, <1>8, <1>15, <1>21, SingleReply
<1>23. ReaderType /\ responseLines = <<>> /\ ~isLinePending
  BY <1>19, ReaderIsTyped DEF IInv, Reader
<1>24. Len(Split(bytes)) >= 2
  <2>1. n # 1
    BY <1>16, <1>18, <1>19 DEF Throws
  <2>2. QED
    BY <1>16, <2>1
<1>25. QED
  BY <1>1, <1>18, <1>19, <1>22, <1>23, <1>24, VerdictOfFirst

\* The response is read as an error: getAll gives up.
LEMMA RefusedCallback ==
  ASSUME IInv, NEW bytes, NEW rest, Arrives(bytes, rest), NEW response,
         Callback(FALSE, response), Reason'
  PROVE  IInv'
<1>1. /\ state' = "exiting" /\ status' = FALSE
      /\ UNCHANGED <<command, number, readerVars, requests, allMails>>
      /\ UNCHANGED <<mailbox, doMarkForDeletion, marked, deleted, closed>>
      /\ wire' = rest /\ rest \in Seq(Bytes) /\ mishaps \subseteq mishaps'
      /\ mishaps' \subseteq Mishaps
  BY TearsGrow DEF Callback, Exit, Arrives, IInv, TypeOK
<1>2. TypeOK'
  BY <1>1 DEF IInv, TypeOK, States, readerVars, Messages, Numbers
<1>3. Reader'
  BY <1>1 DEF IInv, Reader, readerVars
<1>4. Excuse'
  BY <1>1 DEF IInv, Excuse, readerVars
<1>5. ASSUME ~Deceived'
      PROVE  Chain' /\ Wire' /\ Mails'
  <2>1. Chain /\ Mails
    BY <1>1, <1>5, DeceivedStays DEF IInv
  <2>2. Chain'
    BY <1>1, <2>1 DEF Chain, Messages
  <2>3. Wire'
    BY <1>1 DEF Wire
  <2>4. Spoilt => Spoilt'
    BY <1>1 DEF Spoilt
  <2>5. \A m : IsRead(m) => IsRead(m)'
    BY <1>1 DEF IsRead, Stuffed, Retrieved
  <2>6. Mails'
    BY <1>1, <2>1, <2>4, <2>5 DEF Mails
  <2>7. QED
    BY <2>2, <2>3, <2>6
<1>6. QED
  BY <1>2, <1>3, <1>4, <1>5 DEF IInv

-----------------------------------------------------------------------------
(* A chunk that is an error.                                                *)

\* What is ahead after a chunk without a line end has been dropped.
LEMMA Dropped ==
  ASSUME NEW bytes, NEW rest, Arrives(bytes, rest), isOkResponse = "unknown",
         "first" \in mishaps', UNCHANGED <<clientVars, requests>>,
         NEW g \in Seq(Bytes), NEW a \in Seq(Bytes), Ahead(g, a)
  PROVE  \E other \in Seq(Bytes), more \in Seq(Bytes) : Ahead(other, more)'
<1>1. /\ bytes \in Seq(Bytes) /\ rest \in Seq(Bytes) /\ wire' = rest
      /\ mishaps \subseteq mishaps'
      /\ AreSame(g \o a, bytes \o rest)
  BY TearsGrow DEF Arrives, Ahead, AreSame
<1>2. UNCHANGED <<mailbox, doMarkForDeletion, marked, deleted, command, number, isOkResponse,
                  requests>>
  BY DEF Arrives, clientVars, readerVars
<1>3. Granted => Granted'
  BY <1>2 DEF Granted, Messages
<1>4. Reply' = Reply
  BY <1>2 DEF Reply, Retrieved
<1>5. CASE \E w \in Seq(Bytes) : AreSame(g, bytes \o w) /\ AreSame(rest, w \o a)
  <2>1. PICK w \in Seq(Bytes) : AreSame(g, bytes \o w) /\ AreSame(rest, w \o a)
    BY <1>5
  <2>2. AreSame(wire, w \o a)'
    BY <1>1, <2>1 DEF AreSame
  <2>3. HasNo(w, "+OK")
    BY <1>1, <2>1, HasNoPart DEF Ahead
  <2>4. w # <<>> => Leftover'
    <3>1. SUFFICES ASSUME w # <<>>
                   PROVE  g # <<>>
      BY <1>1, <1>2 DEF Ahead, Leftover
    <3>2. bytes \o w # <<>>
      BY <1>1, <3>1, LastOfConcat
    <3>3. QED
      BY <2>1, <3>2 DEF AreSame
  <2>5. Waiting(a) => Waiting(a)'
    BY <1>2 DEF Waiting
  <2>6. Refused(a) => Refused(a)'
    BY <1>1, <1>2 DEF Refused
  <2>7. Accepted(a) => Accepted(a)'
    BY <1>2, <1>3, <1>4 DEF Accepted, Progress
  <2>8. HasNo(w, "+OK")'
    BY <2>3
  <2>9. (Waiting(a) \/ Refused(a) \/ Accepted(a))'
    BY <2>5, <2>6, <2>7 DEF Ahead
  <2>10. Ahead(w, a)'
    BY <2>2, <2>4, <2>8, <2>9 DEF Ahead
  <2>11. QED
    BY <2>10
<1>6. CASE \E w \in Seq(Bytes) : AreSame(bytes, g \o w) /\ AreSame(a, w \o rest)
  <2>1. PICK w \in Seq(Bytes) : AreSame(bytes, g \o w) /\ AreSame(a, w \o rest)
    BY <1>6
  <2>2. AreSame(wire, <<>> \o rest)'
    <3>1. AreSame(<<>> \o rest, rest)
      BY <1>1, NothingBefore
    <3>2. QED
      BY <1>1, <3>1 DEF AreSame
  <2>3. HasNo(<<>>, "+OK")'
    BY DEF HasNo
  <2>4. ASSUME NEW done \in Seq(Bytes), NEW whole, AreSame(done \o a, whole)
        PROVE  done \o w \in Seq(Bytes) /\ AreSame((done \o w) \o rest, whole)
    <3>1. AreSame(done \o (w \o rest), whole)
      BY <2>1, <2>4 DEF AreSame
    <3>2. QED
      BY <1>1, <2>1, <3>1, OneMore
  <2>5. Waiting(a) => Waiting(rest)'
    <3>1. SUFFICES ASSUME a = <<>>
                   PROVE  rest = <<>>
      BY <1>2 DEF Waiting
    <3>2. rest # <<>> => w \o rest # <<>>
      BY <1>1, <2>1, LastOfConcat
    <3>3. QED
      BY <2>1, <3>1, <3>2 DEF AreSame
  <2>6. Refused(a) => Refused(rest)'
    <3>1. SUFFICES ASSUME Refused(a)
                   PROVE  Refused(rest)'
      OBVIOUS
    <3>2. PICK done \in Seq(Bytes) : AreSame(done \o a, Join(Negative))
      BY <3>1 DEF Refused
    <3>3. PICK more \in Seq(Bytes) : AreSame(more \o rest, Join(Negative))
      BY <2>4, <3>2
    <3>4. QED
      BY <1>1, <1>2, <3>1, <3>3 DEF Refused
  <2>7. Accepted(a) => Accepted(rest)'
    <3>1. SUFFICES ASSUME Accepted(a)
                   PROVE  Accepted(rest)'
      OBVIOUS
    <3>2. PICK done \in Seq(Bytes) : AreSame(done \o a, Reply)
      BY <3>1 DEF Accepted
    <3>3. PICK more \in Seq(Bytes) : AreSame(more \o rest, Reply)
      BY <2>4, <3>2
    <3>4. Progress(more, rest)'
      BY <1>2 DEF Progress
    <3>5. QED
      BY <1>3, <1>4, <3>1, <3>3, <3>4 DEF Accepted
  <2>8. <<>> \in Seq(Bytes)
    OBVIOUS
  <2>9. Ahead(<<>>, rest)'
    BY <2>2, <2>3, <2>5, <2>6, <2>7 DEF Ahead
  <2>10. QED
    BY <1>1, <2>8, <2>9
<1>7. QED
  BY <1>1, <1>5, <1>6, TwoCuts

\* The callback throws: the chunk is lost.
LEMMA Thrown ==
  ASSUME IInv, NEW bytes, NEW rest, Arrives(bytes, rest),
         Throws(Split(bytes)), UNCHANGED <<clientVars, requests>>
  PROVE  IInv'
<1>1. /\ isOkResponse = "unknown" /\ "first" \in mishaps' /\ state = "READING"
      /\ wire' = rest /\ rest \in Seq(Bytes) /\ mishaps \subseteq mishaps'
      /\ mishaps' \subseteq Mishaps
  BY TearsGrow DEF Arrives, Throws, IInv, TypeOK
<1>2. UNCHANGED <<state, command, number, isMultiLineResponse, isOkResponse, isLinePending,
                  responseLines, allMails, status, requests>>
  BY DEF clientVars, readerVars
<1>3. UNCHANGED <<mailbox, doMarkForDeletion, marked, deleted, closed>>
  BY DEF Arrives
<1>4. TypeOK'
  BY <1>1, <1>2, <1>3 DEF IInv, TypeOK, States, Messages, Numbers
<1>5. Reader'
  BY <1>2 DEF IInv, Reader
<1>6. Excuse'
  BY <1>1, <1>2, <1>3, ReasonStays DEF IInv, Excuse
<1>7. ASSUME ~Deceived'
      PROVE  Chain' /\ Wire' /\ Mails'
  <2>1. Chain /\ Wire /\ Mails
    BY <1>1, <1>3, <1>7, DeceivedStays DEF IInv
  <2>2. Chain'
    BY <1>1, <1>2, <1>3, <2>1 DEF Chain, Messages
  <2>3. PICK g \in Seq(Bytes), a \in Seq(Bytes) : Ahead(g, a)
    BY <1>1, <2>1 DEF Wire
  <2>4. \E other \in Seq(Bytes), more \in Seq(Bytes) : Ahead(other, more)'
    BY <1>1, <2>3, Dropped
  <2>5. Wire'
    BY <2>4 DEF Wire
  <2>6. Mails'
    BY <1>1, <1>2, <1>3, <2>1 DEF Mails
  <2>7. QED
    BY <2>2, <2>5, <2>6
<1>8. QED
  BY <1>4, <1>5, <1>6, <1>7 DEF IInv

-----------------------------------------------------------------------------
\* The reader keeps what it has read, and waits for more.
Continues(lines) ==
  /\ isOkResponse' = Verdict(LinesWith(lines))
  /\ isMultiLineResponse' = StillMultiLine(LinesWith(lines))
  /\ isLinePending' = (Last(lines) # <<>>)
  /\ responseLines' = Kept(lines)
  /\ UNCHANGED <<state, command, number, allMails, status, requests>>

\* A chunk that is not the last one of a reply leaves the reader well formed.
LEMMA KeptReader ==
  ASSUME IInv, NEW bytes, NEW rest, Arrives(bytes, rest),
         ~Throws(Split(bytes)), Continues(Split(bytes))
  PROVE  /\ Reader' /\ isOkResponse' \in {"ok", "error"}
         /\ responseLines' \in Seq(Seq(Bytes)) /\ isMultiLineResponse' \in BOOLEAN
<1>1. ReaderType /\ (isLinePending => Last(responseLines) # <<>>)
  BY ReaderIsTyped DEF IInv, Reader
<1>2. bytes \in Seq(Bytes) /\ bytes # <<>>
  BY DEF Arrives
<1>3. isOkResponse' \in {"ok", "error"}
  BY DEF Continues, Verdict, IInv, TypeOK
<1>4. responseLines' # <<>>
  <2>1. CASE isOkResponse = "unknown"
    <3>1. Len(Split(bytes)) >= 2
      <4>1. PICK n \in Nat \ {0} : n = Len(Split(bytes))
        BY <1>2, LinesOfChunk
      <4>2. n # 1
        BY <2>1, <4>1 DEF Throws
      <4>3. QED
        BY <4>1, <4>2
    <3>2. QED
      BY <1>1, <1>2, <3>1, KeptType DEF Continues
  <2>2. CASE isOkResponse # "unknown"
    <3>1. responseLines # <<>>
      BY <2>2 DEF IInv, Reader
    <3>2. QED
      BY <1>1, <1>2, <3>1, KeptType DEF Continues
  <2>3. QED
    BY <2>1, <2>2
<1>5. isOkResponse' # "error" => isMultiLineResponse' = (command' = "RETR")
  <2>1. SUFFICES ASSUME isOkResponse' # "error"
                 PROVE  isMultiLineResponse' = (command = "RETR")
    BY DEF Continues
  <2>2. Verdict(LinesWith(Split(bytes))) = "ok"
    BY <1>3, <2>1 DEF Continues
  <2>3. isOkResponse # "error"
    BY <2>2 DEF Verdict
  <2>4. isMultiLineResponse = (command = "RETR")
    BY <2>3 DEF IInv, Reader
  <2>5. StillMultiLine(LinesWith(Split(bytes))) = isMultiLineResponse
    BY <2>2, <2>4 DEF StillMultiLine
  <2>6. QED
    BY <2>4, <2>5 DEF Continues
<1>6. isLinePending' => Last(responseLines') # <<>>
  BY <1>1, <1>2, KeptType DEF Continues
<1>7. isMultiLineResponse' \in BOOLEAN
  BY DEF Continues, StillMultiLine
<1>8. responseLines' \in Seq(Seq(Bytes))
  BY <1>1, <1>2, KeptType DEF Continues
<1>9. QED
  BY <1>3, <1>4, <1>5, <1>6, <1>7, <1>8 DEF Reader

-----------------------------------------------------------------------------
(* A chunk that is not the last one of its reply.                           *)

\* What the reader has of a message is what has been read, if nothing was lost.
LEMMA ReadIsDone ==
  ASSUME IInv, NEW done \in Seq(Bytes), NEW bytes, NEW rest, Arrives(bytes, rest),
         Progress(done, wire), command = "RETR", "first" \notin mishaps',
         isOkResponse # "error"
  PROVE  ReaderText = done
<1>1. "first" \notin mishaps /\ wire # <<>> /\ isOkResponse \in {"unknown", "ok"}
  BY TearsGrow, WireOf DEF IInv, TypeOK
<1>2. CASE isOkResponse = "ok"
  BY <1>1, <1>2 DEF Progress
<1>3. CASE isOkResponse = "unknown"
  <2>1. done = <<>>
    BY <1>1, <1>3 DEF Progress
  <2>2. responseLines = <<>> /\ ~isLinePending
    BY <1>3 DEF IInv, Reader
  <2>3. Doubled(<<>>) = <<>>
    BY DEF Doubled
  <2>4. QED
    BY <2>1, <2>2, <2>3, JoinEmpty DEF ReaderText
<1>4. QED
  BY <1>1, <1>2, <1>3

\* What has been read of a reply is what was read before and the chunk.
LEMMA ContinuedProgress ==
  ASSUME IInv, NEW bytes, NEW rest, Arrives(bytes, rest), NEW done \in Seq(Bytes),
         AreSame((done \o bytes) \o rest, Reply), Progress(done, wire), Granted,
         isOkResponse # "error", Continues(Split(bytes))
  PROVE  Progress(done \o bytes, rest)'
<1>1. bytes \in Seq(Bytes) /\ bytes # <<>> /\ rest \in Seq(Bytes)
  BY DEF Arrives
<1>2. PICK more \in Seq(Bytes) : more = done \o bytes
  BY <1>1, OneMore
<1>3. more # <<>> /\ Last(more) = Last(bytes) /\ AreSame(more \o rest, Reply)
  BY <1>1, <1>2, OneMore
<1>4. isOkResponse' # "unknown"
  BY DEF Continues, Verdict
<1>5. BeginsWithDot(rest) /\ Last(more) # "LF" => "dot" \in mishaps'
  BY <1>3, TearsGrow
<1>6. ASSUME command = "RETR", "first" \notin mishaps', rest # <<>>
      PROVE  ReaderText' = more
  <2>1. ReaderText = done
    BY <1>6, ReadIsDone
  <2>2. ReaderType /\ (isLinePending => Last(responseLines) # <<>>)
    BY ReaderIsTyped DEF IInv, Reader
  <2>3. number \in Messages /\ mailbox \in Mailboxes /\ Reply = Join(Retrieved(number))
    BY <1>6 DEF Granted, IInv, TypeOK, Reply
  <2>4. AreSame((ReaderText \o bytes) \o rest, Join(Retrieved(number)))
    BY <2>1, <2>3
  <2>5. \A k \in 1..(Len(Split(bytes)) - 1) : Completed(Split(bytes), k) # <<".">>
    BY <1>1, <1>6, <2>2, <2>3, <2>4, DotsAreLast
  <2>6. AreSame(TextOf(Last(Split(bytes)) # <<>>, Kept(Split(bytes))), ReaderText \o bytes)
    BY <1>1, <2>2, <2>5, KeptText
  <2>7. ReaderText' = TextOf(Last(Split(bytes)) # <<>>, Kept(Split(bytes)))
    BY DEF ReaderText, TextOf, Continues
  <2>8. QED
    BY <1>2, <2>1, <2>6, <2>7 DEF AreSame
<1>7. command' = command
  BY DEF Continues
<1>8. Progress(more, rest)'
  BY <1>3, <1>4, <1>5, <1>6, <1>7 DEF Progress, BeginsWithDot
<1>9. QED
  BY <1>2, <1>8

\* A chunk that is not the last one of a reply preserves the invariant.
LEMMA Continued ==
  ASSUME IInv, NEW bytes, NEW rest, Arrives(bytes, rest),
         ~Throws(Split(bytes)), Continues(Split(bytes))
  PROVE  IInv'
<1> DEFINE verdict == Verdict(LinesWith(Split(bytes)))
<1>1. /\ state = "READING" /\ bytes \in Seq(Bytes) /\ bytes # <<>>
      /\ wire' = rest /\ rest \in Seq(Bytes) /\ mishaps \subseteq mishaps'
      /\ mishaps' \subseteq Mishaps
  BY TearsGrow DEF Arrives, IInv, TypeOK
<1>2. UNCHANGED <<state, command, number, allMails, status, requests>> /\ isOkResponse' = verdict
  BY DEF Continues
<1>3. UNCHANGED <<mailbox, doMarkForDeletion, marked, deleted, closed>>
  BY DEF Arrives
<1>4. /\ Reader' /\ isOkResponse' \in {"ok", "error"}
      /\ responseLines' \in Seq(Seq(Bytes)) /\ isMultiLineResponse' \in BOOLEAN
      /\ isLinePending' \in BOOLEAN
  BY KeptReader DEF Continues
<1>5. TypeOK'
  BY <1>1, <1>2, <1>3, <1>4 DEF IInv, TypeOK, States, Messages, Numbers
<1>6. Excuse'
  <2>1. verdict # "ok" => Reason'
    BY <1>2, ErrorHasAReason
  <2>2. QED
    BY <1>1, <1>2, <2>1 DEF Excuse
<1> HIDE DEF verdict
<1>7. ASSUME ~Deceived'
      PROVE  Chain' /\ Wire' /\ Mails'
  <2>1. ~Deceived /\ Chain /\ Wire /\ Mails
    BY <1>1, <1>3, <1>7, DeceivedStays DEF IInv
  <2>2. Chain'
    BY <1>1, <1>2, <1>3, <2>1 DEF Chain, Messages
  <2>3. Wire'
    <3>1. SUFFICES ASSUME isOkResponse' = "ok"
                   PROVE  \E g \in Seq(Bytes), a \in Seq(Bytes) : Ahead(g, a)'
      BY <1>4 DEF Wire
    <3>2. verdict = "ok"
      BY <1>2, <3>1
    <3>3. Granted /\ isOkResponse # "error"
      BY <2>1, <3>2, AcceptedChunk DEF verdict
    <3>4. PICK done \in Seq(Bytes) :
            AreSame((done \o bytes) \o rest, Reply) /\ Progress(done, wire)
      BY <2>1, <3>2, AcceptedChunk DEF verdict
    <3>5. Progress(done \o bytes, rest)'
      BY <3>3, <3>4, ContinuedProgress
    <3>6. PICK more \in Seq(Bytes) : more = done \o bytes
      BY <1>1, OneMore
    <3>7. Granted' /\ Reply' = Reply
      BY <1>2, <1>3, <3>3 DEF Granted, Reply, Retrieved, Messages
    <3>8. Progress(more, rest)'
      BY <3>5, <3>6
    <3>9. AreSame(more \o rest, Reply)'
      BY <3>4, <3>6, <3>7 DEF AreSame
    <3>10. Accepted(rest)'
      BY <3>7, <3>8, <3>9 DEF Accepted
    <3>11. AreSame(wire, <<>> \o rest)'
      <4>1. AreSame(<<>> \o rest, rest)
        BY <1>1, NothingBefore
      <4>2. QED
        BY <1>1, <4>1 DEF AreSame
    <3>12. HasNo(<<>>, "+OK")'
      BY DEF HasNo
    <3>13. <<>> \in Seq(Bytes)
      OBVIOUS
    <3>14. Ahead(<<>>, rest)'
      BY <3>10, <3>11, <3>12 DEF Ahead
    <3>15. QED
      BY <1>1, <3>13, <3>14
  <2>4. Spoilt => Spoilt'
    <3>1. SUFFICES ASSUME Spoilt
                   PROVE  isOkResponse' = "error"
      BY <1>2, <1>3 DEF Spoilt
    <3>2. SUFFICES ASSUME verdict = "ok"
                   PROVE  FALSE
      BY <1>2, <1>4
    <3>3. isOkResponse # "error" /\ (isOkResponse = "unknown" => bytes[1] = "+OK")
      BY <2>1, <3>2, AcceptedChunk DEF verdict
    <3>4. Head(wire) = bytes[1]
      BY WireOf
    <3>5. QED
      BY <1>1, <3>1, <3>3, <3>4 DEF Spoilt
  <2>5. \A m : IsRead(m) => IsRead(m)'
    BY <1>2, <1>3 DEF IsRead, Stuffed, Retrieved
  <2>6. Mails'
    BY <1>1, <1>2, <1>3, <2>1, <2>4, <2>5 DEF Mails
  <2>7. QED
    BY <2>2, <2>3, <2>6
<1>8. QED
  BY <1>4, <1>5, <1>6, <1>7 DEF IInv

-----------------------------------------------------------------------------
(* The end of a reply.                                                      *)

\* A chunk that ends with a line has two pieces at least.
LEMMA CompleteHasEnd ==
  ASSUME NEW bytes \in Seq(Bytes), bytes # <<>>, Last(Split(bytes)) = <<>>
  PROVE  Len(Split(bytes)) \in Nat /\ Len(Split(bytes)) >= 2
<1>1. PICK n \in Nat \ {0} : n = Len(Split(bytes))
  BY LinesOfChunk
<1>2. n # 1
  BY <1>1, OnePiece
<1>3. QED
  BY <1>1, <1>2

\* A message is complete: all of it is read, or what is left says no yes.
LEMMA RestOfMessage ==
  ASSUME IInv, ~Deceived', NEW bytes, NEW rest, Arrives(bytes, rest),
         ~Throws(Split(bytes)), Verdict(LinesWith(Split(bytes))) = "ok",
         IsComplete(Split(bytes), LinesWith(Split(bytes))), command = "RETR"
  PROVE  /\ HasNo(rest, "+OK")
         /\ rest # <<>> => "dot" \in mishaps'
         /\ "first" \notin mishaps' /\ rest = <<>> =>
              /\ LinesWith(Split(bytes)) \in Seq(Seq(Bytes))
              /\ Join(Stuffed(LinesWith(Split(bytes)))) = Join(Retrieved(number))
<1> DEFINE lines == Split(bytes)
<1>1. /\ bytes \in Seq(Bytes) /\ bytes # <<>> /\ rest \in Seq(Bytes)
      /\ mishaps \subseteq mishaps' /\ mailbox' = mailbox
  BY TearsGrow DEF Arrives
<1>2. ~Deceived
  BY <1>1, DeceivedStays
<1>3. Granted /\ isOkResponse # "error" /\ (isOkResponse = "unknown" => bytes[1] = "+OK")
  BY <1>2, AcceptedChunk
<1>4. PICK done \in Seq(Bytes) :
        AreSame((done \o bytes) \o rest, Reply) /\ Progress(done, wire)
  BY <1>2, AcceptedChunk
<1>5. number \in Messages /\ mailbox \in Mailboxes /\ Reply = Join(Retrieved(number))
  BY <1>3 DEF Granted, IInv, TypeOK, Reply
<1>6. AreSame((done \o bytes) \o rest, Join(Retrieved(number)))
  BY <1>4, <1>5
<1>7. PICK more \in Seq(Bytes) : more = done \o bytes
  BY <1>1, OneMore
<1>8. more # <<>> /\ AreSame(more \o rest, Join(Retrieved(number)))
  BY <1>1, <1>6, <1>7, OneMore
<1>9. isMultiLineResponse
  BY <1>3 DEF IInv, Reader
<1>10. Last(lines) = <<>> /\ lines[Len(lines) - 1] = <<".">>
  BY <1>9 DEF IsComplete, StillMultiLine
<1>11. Len(lines) \in Nat /\ Len(lines) >= 2
  BY <1>1, <1>10, CompleteHasEnd
<1>12. ReaderType /\ (isLinePending => Last(responseLines) # <<>>)
  BY ReaderIsTyped DEF IInv, Reader
<1> HIDE DEF lines
<1>13. ASSUME rest # <<>>
       PROVE  "dot" \in mishaps'
  <2>1. bytes = <<".">> \o CRLF /\ done # <<>> /\ Last(done) # "LF"
    BY <1>1, <1>5, <1>6, <1>10, <1>11, <1>13, EndsAtDot DEF lines
  <2>2. wire = bytes \o rest
    BY WireOf
  <2>3. <<".">> \o CRLF = <<".", "CR", "LF">>
    BY Literal3 DEF CRLF
  <2>4. isOkResponse = "ok"
    <3>1. bytes[1] # "+OK"
      BY <2>1, <2>3
    <3>2. QED
      BY <1>3, <3>1 DEF IInv, TypeOK
  <2>5. BeginsWithDot(wire)
    <3>1. IsConcat(bytes, rest, bytes \o rest) /\ bytes \o rest \in Seq(Bytes)
      BY <1>1, Concat, Zenon
    <3>2. IsConcat(bytes, rest, wire) /\ wire \in Seq(Bytes)
      BY <2>2, <3>1
    <3>3. Len(bytes) = 3
      BY <2>1, <2>3
    <3>4. PICK c \in Nat : c = Len(rest)
      BY <1>1
    <3>5. c # 0
      BY <1>1, <1>13, <3>4, EmptySeq
    <3>6. Len(wire) = 3 + c
      BY <3>2, <3>3, <3>4 DEF IsConcat
    <3>7. \A i \in 1..3 : wire[i] = bytes[i]
      BY <3>2, <3>3 DEF IsConcat
    <3>8. 3 <= Len(wire) /\ SubSeq(wire, 1, 3) = bytes
      <4>1. 3 \in 0..Len(wire) /\ 3 <= Len(wire)
        BY <3>6
      <4>2. SubSeq(wire, 1, 3) \in Seq(Bytes) /\ Len(SubSeq(wire, 1, 3)) = 3
        BY <3>2, <4>1, Cut
      <4>3. \A i \in 1..3 : SubSeq(wire, 1, 3)[i] = wire[i]
        BY <3>2, <4>1, SubSeqProperties
      <4>4. \A i \in 1..3 : SubSeq(wire, 1, 3)[i] = bytes[i]
        BY <3>7, <4>3
      <4>5. PICK s \in Seq(Bytes) : s = SubSeq(wire, 1, 3)
        BY <4>2
      <4>6. s = bytes
        BY <1>1, <3>3, <4>2, <4>4, <4>5, SeqEqual
      <4>7. QED
        BY <4>1, <4>5, <4>6
    <3>9. IsPrefix(bytes, wire)
      BY <3>3, <3>8 DEF IsPrefix
    <3>10. QED
      BY <2>1, <3>5, <3>6, <3>9 DEF BeginsWithDot
  <2>6. "dot" \in mishaps
    BY <1>4, <2>1, <2>4, <2>5 DEF Progress
  <2>7. QED
    BY <1>1, <2>6
<1>14. HasNo(rest, "+OK")
  <2>1. CASE rest = <<>>
    BY <2>1 DEF HasNo
  <2>2. CASE rest # <<>>
    <3>1. ~SaysYes(mailbox[number])
      BY <1>1, <1>5, <1>13, <2>2 DEF Deceived, Messages
    <3>2. QED
      BY <1>1, <1>5, <1>8, <3>1, NoYesAfter
  <2>3. QED
    BY <2>1, <2>2
<1>15. ASSUME "first" \notin mishaps', rest = <<>>
       PROVE  /\ LinesWith(lines) \in Seq(Seq(Bytes))
              /\ Join(Stuffed(LinesWith(lines))) = Join(Retrieved(number))
  <2>1. ReaderText = done
    BY <1>3, <1>4, <1>15, ReadIsDone
  <2>2. AreSame((ReaderText \o bytes) \o rest, Join(Retrieved(number)))
    BY <1>6, <2>1
  <2>3. PICK n \in Nat : n = Len(lines) /\ n >= 2
    BY <1>11
  <2>4. ASSUME NEW k \in 1..(n - 2)
        PROVE  Completed(lines, k) # <<".">>
    <3>1. k \in 1..(n - 1) /\ k # n - 1
      BY <2>3
    <3>2. QED
      BY <1>1, <1>5, <1>12, <2>2, <2>3, <3>1, DotsAreLast DEF lines
  <2>5. LinesWith(lines) \in Seq(Seq(Bytes)) /\ AreSame(Join(Stuffed(LinesWith(lines))), ReaderText \o bytes)
    BY <1>1, <1>10, <1>12, <2>3, <2>4, ReadLast DEF lines
  <2>6. more \o <<>> = more
    BY ConcatEmptySeq
  <2>7. more = Join(Retrieved(number))
    BY <1>8, <1>15, <2>6 DEF AreSame
  <2>8. QED
    BY <1>7, <2>1, <2>5, <2>7 DEF AreSame
<1>16. QED
  BY <1>13, <1>14, <1>15 DEF lines

\* After any other response nothing is left.
LEMMA RestOfOneLine ==
  ASSUME IInv, ~Deceived, NEW bytes, NEW rest, Arrives(bytes, rest),
         ~Throws(Split(bytes)), Verdict(LinesWith(Split(bytes))) = "ok",
         IsComplete(Split(bytes), LinesWith(Split(bytes))), command # "RETR"
  PROVE  rest = <<>>
<1>1. bytes \in Seq(Bytes) /\ bytes # <<>> /\ rest \in Seq(Bytes)
  BY DEF Arrives
<1>2. Granted
  BY AcceptedChunk
<1>3. PICK done \in Seq(Bytes) : AreSame((done \o bytes) \o rest, Reply)
  BY AcceptedChunk
<1>4. AreSame((done \o bytes) \o rest, Join(Positive))
  BY <1>3 DEF Reply
<1>5. Last(Split(bytes)) = <<>>
  BY DEF IsComplete
<1>6. Len(Split(bytes)) >= 2
  BY <1>1, <1>5, CompleteHasEnd
<1>7. QED
  BY <1>1, <1>4, <1>5, <1>6, OneLine

-----------------------------------------------------------------------------
\* The next command is sent.
LEMMA Sent ==
  ASSUME IInv, NEW bytes, NEW rest, Arrives(bytes, rest),
         NEW name \in Commands, NEW message \in Numbers, Send(name, message),
         allMails' \in Seq(Seq(Seq(Bytes))), UNCHANGED status
  PROVE  TypeOK' /\ Reader' /\ Excuse'
<1>1. /\ wire' = rest /\ rest \in Seq(Bytes)
      /\ mishaps' \subseteq Mishaps
      /\ UNCHANGED <<mailbox, doMarkForDeletion, marked, deleted, closed>>
  BY TearsGrow DEF Arrives, IInv, TypeOK
<1>2. requests' \in Seq(Commands \X Numbers)
  <2>1. <<name, message>> \in Commands \X Numbers /\ requests \in Seq(Commands \X Numbers)
    BY DEF IInv, TypeOK
  <2>2. QED
    BY <2>1, AppendProperties DEF Send
<1>3. Numbers' = Numbers /\ Messages' = Messages
  BY <1>1 DEF Numbers, Messages
<1>4. /\ state' = "READING" /\ command' = name /\ number' = message
      /\ isMultiLineResponse' = (name = "RETR")
      /\ isOkResponse' = "unknown" /\ isLinePending' = FALSE /\ responseLines' = <<>>
  BY DEF Send
<1>5. TypeOK'
  <2>1. isMultiLineResponse' \in BOOLEAN /\ isLinePending' \in BOOLEAN /\ status' \in BOOLEAN
    BY <1>4 DEF IInv, TypeOK
  <2>2. /\ mailbox' \in Mailboxes /\ doMarkForDeletion' \in MayDelete
        /\ marked' \subseteq Messages' /\ deleted' \subseteq Messages' /\ closed' \in BOOLEAN
    BY <1>1, <1>3 DEF IInv, TypeOK
  <2>3. state' \in States /\ command' \in Commands /\ number' \in Numbers'
    BY <1>3, <1>4 DEF States
  <2>4. responseLines' \in Seq(Seq(Bytes)) /\ wire' \in Seq(Bytes)
    BY <1>1, <1>4
  <2>5. QED
    BY <1>1, <1>2, <1>3, <1>4, <2>1, <2>2, <2>3, <2>4 DEF TypeOK
<1>6. Reader' /\ Excuse'
  BY <1>4 DEF Reader, Excuse
<1>7. QED
  BY <1>5, <1>6

\* With the next command on its way, nothing but what is left of the last reply is
\* before the client.
LEMMA SentWire ==
  ASSUME NEW bytes, NEW rest, Arrives(bytes, rest), requests = <<>>,
         NEW name \in Commands \ {"greeting"}, NEW message, Send(name, message),
         HasNo(rest, "+OK"), rest # <<>> => "dot" \in mishaps',
         name = "QUIT" /\ rest # <<>> => ~doMarkForDeletion
  PROVE  Wire'
<1>1. wire' = rest /\ rest \in Seq(Bytes)
  BY DEF Arrives
<1>2. requests' = << <<name, message>> >>
  BY DEF Send
<1>3. AreSame(wire, rest \o <<>>)'
  <2>1. rest \o <<>> = rest
    BY <1>1, ConcatEmptySeq
  <2>2. QED
    BY <1>1, <2>1 DEF AreSame
<1>4. Waiting(<<>>)'
  BY <1>2 DEF Waiting, Send
<1>5. HasNo(rest, "+OK")'
  BY <1>1 DEF HasNo
<1>6. rest # <<>> => Leftover'
  BY DEF Send, Arrives, Leftover
<1>7. Ahead(rest, <<>>)'
  BY <1>3, <1>4, <1>5, <1>6 DEF Ahead
<1>8. <<>> \in Seq(Bytes)
  OBVIOUS
<1>9. QED
  BY <1>1, <1>7, <1>8 DEF Wire

-----------------------------------------------------------------------------
(* The callbacks: signing in, marking and leaving.                          *)

\* A response has been read to its end, and says yes.
Succeeds(bytes, rest) ==
  /\ Arrives(bytes, rest)
  /\ ~Throws(Split(bytes)) /\ Verdict(LinesWith(Split(bytes))) = "ok"
  /\ IsComplete(Split(bytes), LinesWith(Split(bytes)))

\* When a reply has been read without an error, the command was granted and nothing
\* that looks like an answer is left.
LEMMA SucceedsFacts ==
  ASSUME IInv, ~Deceived', NEW bytes, NEW rest, Succeeds(bytes, rest)
  PROVE  /\ ~Deceived /\ Chain /\ Granted /\ ~status
         /\ HasNo(rest, "+OK")
         /\ rest # <<>> => "dot" \in mishaps' /\ command = "RETR"
         /\ "first" \notin mishaps => \A m \in 1..Len(allMails) : IsRead(m)
<1>1. Arrives(bytes, rest) /\ state = "READING"
  BY DEF Succeeds, Arrives
<1>2. ~Deceived
  BY <1>1, TearsGrow, DeceivedStays DEF Arrives
<1>3. Chain /\ Mails
  BY <1>2 DEF IInv
<1>4. Granted /\ isOkResponse # "error" /\ (isOkResponse = "unknown" => bytes[1] = "+OK")
  BY <1>2, AcceptedChunk DEF Succeeds
<1>5. ~status
  BY <1>1, <1>3 DEF Mails
<1>6. command # "RETR" => rest = <<>>
  BY <1>2, RestOfOneLine DEF Succeeds
<1>7. HasNo(rest, "+OK") /\ (rest # <<>> => "dot" \in mishaps')
  <2>1. CASE command = "RETR"
    BY <2>1, RestOfMessage DEF Succeeds
  <2>2. CASE command # "RETR"
    BY <1>6, <2>2 DEF HasNo
  <2>3. QED
    BY <2>1, <2>2
<1>8. ~Spoilt
  <2>1. Head(wire) = bytes[1]
    BY <1>1, WireOf
  <2>2. QED
    BY <1>1, <1>4, <2>1 DEF Spoilt
<1>9. "first" \notin mishaps => \A m \in 1..Len(allMails) : IsRead(m)
  BY <1>3, <1>8 DEF Mails
<1>10. QED
  BY <1>2, <1>3, <1>4, <1>5, <1>6, <1>7, <1>9

\* The first message has a number, also of an empty mailbox, and every message
\* but the last has a next one.
LEMMA NumberOfMessages ==
  ASSUME TypeOK
  PROVE  Len(mailbox) \in Nat /\ 1 \in Numbers /\ number \in Numbers /\ number \in Nat \ {0}
<1>1. Len(mailbox) \in Nat
  BY MailboxesAssumption DEF TypeOK
<1>2. QED
  BY <1>1 DEF TypeOK, Numbers, Messages

\* The message after one that is not the last one has a number.
LEMMA NextNumber ==
  ASSUME IInv, NEW bytes, NEW rest, Succeeds(bytes, rest),
         command \in {"RETR", "DELE"}, number # Len(mailbox)
  PROVE  number + 1 \in Numbers
<1>1. PICK n \in Nat : n = Len(mailbox)
  BY NumberOfMessages DEF IInv
<1>2. number \in 1..n \/ number = 1
  BY <1>1 DEF IInv, TypeOK, Numbers, Messages
<1>3. n # 0
  <2>1. SUFFICES ASSUME n = 0
                 PROVE  FALSE
    OBVIOUS
  <2>2. Messages = {}
    BY <1>1, <2>1 DEF Messages
  <2>3. ~Deceived
    BY <2>2 DEF Deceived
  <2>4. Granted
    BY <2>3, AcceptedChunk DEF Succeeds
  <2>5. QED
    BY <2>2, <2>4 DEF Granted
<1>4. number \in 1..n /\ number # n
  BY <1>1, <1>2, <1>3
<1>5. number + 1 \in 1..n
  BY <1>4
<1>6. QED
  BY <1>1, <1>5 DEF Numbers, Messages

\* A command is sent after a response that gives no message.
LEMMA NothingRead ==
  ASSUME IInv, ~Deceived', NEW bytes, NEW rest, Succeeds(bytes, rest),
         UNCHANGED <<allMails, status>>
  PROVE  Mails'
<1>1. /\ ~status /\ allMails \in Seq(Seq(Seq(Bytes))) /\ mailbox' = mailbox
      /\ mishaps \subseteq mishaps'
      /\ "first" \notin mishaps => \A m \in 1..Len(allMails) : IsRead(m)
  BY SucceedsFacts, TearsGrow DEF Succeeds, Arrives, IInv, TypeOK
<1>2. PICK n \in Nat : n = Len(allMails)
  BY <1>1
<1>3. "first" \notin mishaps' => \A m \in 1..n : IsRead(m)'
  BY <1>1, <1>2 DEF IsRead, Stuffed, Retrieved
<1>4. QED
  BY <1>1, <1>2, <1>3 DEF Mails

\* Signing in and asking for the number of messages preserve the invariant.
LEMMA AcceptedGreeting ==
  ASSUME IInv, NEW bytes, NEW rest, Succeeds(bytes, rest),
         command \in {"greeting", "USER", "PASS", "STAT"},
         CASE command = "greeting" -> Send("USER", number)
           [] command = "USER"     -> Send("PASS", number)
           [] command = "PASS"     -> Send("STAT", number)
           [] command = "STAT"     -> Send("RETR", 1),
         UNCHANGED <<allMails, status>>
  PROVE  IInv'
<1>1. Arrives(bytes, rest) /\ number \in Numbers /\ 1 \in Numbers
  BY NumberOfMessages DEF Succeeds, IInv
<1>2. PICK name \in {"USER", "PASS", "STAT", "RETR"}, message \in Numbers :
        Send(name, message) /\ message \in {number, 1}
  BY <1>1
<1>3. allMails' \in Seq(Seq(Seq(Bytes)))
  BY DEF IInv, TypeOK
<1>4. TypeOK' /\ Reader' /\ Excuse'
  BY <1>1, <1>2, <1>3, Sent DEF Commands
<1>5. ASSUME ~Deceived'
      PROVE  Chain' /\ Wire' /\ Mails'
  <2>1. Chain /\ Granted /\ HasNo(rest, "+OK") /\ (rest # <<>> => "dot" \in mishaps')
    BY <1>5, SucceedsFacts
  <2>2. Wire'
    BY <1>1, <1>2, <2>1, SentWire DEF Granted, Commands
  <2>3. Mails'
    BY <1>5, NothingRead
  <2>4. Chain'
    <3>1. /\ number = 1 /\ allMails = <<>> /\ requests = <<>>
          /\ marked = IF doMarkForDeletion THEN 1..(1 - 1) ELSE {}
          /\ deleted = {}
      BY <2>1 DEF Chain, Granted
    <3>2. /\ state' = "READING" /\ command' = name /\ number' = 1
          /\ requests' = << <<name, 1>> >>
      BY <1>2, <3>1 DEF Send
    <3>3. /\ UNCHANGED <<mailbox, doMarkForDeletion, marked, deleted>>
      BY <1>1 DEF Arrives
    <3>4. Len(allMails') = 1 - 1
      BY <3>1
    <3>5. QED
      BY <3>1, <3>2, <3>3, <3>4 DEF Chain
  <2>5. QED
    BY <2>2, <2>3, <2>4
<1>6. QED
  BY <1>4, <1>5 DEF IInv

\* Leaving preserves the invariant.
LEMMA AcceptedQuit ==
  ASSUME IInv, NEW bytes, NEW rest, Succeeds(bytes, rest),
         command = "QUIT", status' = TRUE, Exit, UNCHANGED allMails
  PROVE  IInv'
<1>1. /\ state' = "exiting" /\ status' = TRUE /\ state = "READING"
      /\ UNCHANGED <<command, number, readerVars, requests, allMails>>
      /\ UNCHANGED <<mailbox, doMarkForDeletion, marked, deleted, closed>>
      /\ wire' = rest /\ rest \in Seq(Bytes) /\ mishaps \subseteq mishaps'
      /\ mishaps' \subseteq Mishaps
  BY TearsGrow DEF Exit, Succeeds, Arrives, IInv, TypeOK
<1>2. TypeOK'
  BY <1>1 DEF IInv, TypeOK, States, readerVars, Messages, Numbers
<1>3. Reader' /\ Excuse'
  BY <1>1, ReasonStays DEF IInv, Reader, Excuse, readerVars
<1>4. ASSUME ~Deceived'
      PROVE  Chain' /\ Wire' /\ Mails'
  <2>1. /\ Chain /\ Granted
        /\ "first" \notin mishaps => \A m \in 1..Len(allMails) : IsRead(m)
    BY <1>4, SucceedsFacts
  <2>2. Chain' /\ Wire'
    BY <1>1, <2>1 DEF Chain, Messages, Wire
  <2>3. \A m : IsRead(m) => IsRead(m)'
    BY <1>1 DEF IsRead, Stuffed, Retrieved
  <2>4. Mails'
    BY <1>1, <2>1, <2>3 DEF Mails, Granted
  <2>5. QED
    BY <2>2, <2>4
<1>5. QED
  BY <1>2, <1>3, <1>4 DEF IInv

\* Marking a message preserves the invariant.
LEMMA AcceptedMark ==
  ASSUME IInv, NEW bytes, NEW rest, Succeeds(bytes, rest),
         command = "DELE", NextMessage, UNCHANGED <<allMails, status>>
  PROVE  IInv'
<1>1. Arrives(bytes, rest) /\ number \in Numbers /\ number \in Nat \ {0} /\ Len(mailbox) \in Nat
  BY NumberOfMessages DEF Succeeds, IInv
<1>2. allMails' \in Seq(Seq(Seq(Bytes)))
  BY DEF IInv, TypeOK
<1>3. UNCHANGED <<mailbox, doMarkForDeletion, marked, deleted>>
  BY <1>1 DEF Arrives
<1>4. PICK name \in {"QUIT", "RETR"}, message \in Numbers :
        /\ Send(name, message)
        /\ name = "QUIT" => number = Len(mailbox) /\ message = number
        /\ name = "RETR" => message = number + 1
  BY <1>1, NextNumber DEF NextMessage
<1>5. TypeOK' /\ Reader' /\ Excuse'
  BY <1>1, <1>2, <1>4, Sent DEF Commands
<1>6. ASSUME ~Deceived'
      PROVE  Chain' /\ Wire' /\ Mails'
  <2>1. Chain /\ Granted /\ HasNo(rest, "+OK") /\ rest = <<>>
    BY <1>6, SucceedsFacts
  <2>2. Wire'
    BY <1>1, <1>4, <2>1, SentWire DEF Granted, Commands
  <2>3. Mails'
    BY <1>6, NothingRead
  <2>4. Chain'
    <3>1. /\ requests = <<>> /\ deleted = {} /\ doMarkForDeletion
          /\ Len(allMails) = number /\ number \in marked
          /\ marked \in {1..(number - 1), 1..number}
      BY <2>1 DEF Chain, Granted
    <3>2. marked = 1..number
      BY <1>1, <3>1
    <3>3. /\ state' = "READING" /\ command' = name /\ number' = message
          /\ requests' = << <<name, message>> >>
      BY <1>4, <3>1 DEF Send
    <3>4. name = "RETR" => message - 1 = number
      BY <1>1, <1>4
    <3>5. QED
      BY <1>3, <1>4, <3>1, <3>2, <3>3, <3>4 DEF Chain, Messages
  <2>5. QED
    BY <2>2, <2>3, <2>4
<1>7. QED
  BY <1>5, <1>6 DEF IInv

-----------------------------------------------------------------------------
(* The callbacks: a message.                                                *)

\* A message has been read: the mails are those before and this one.
LEMMA MessageRead ==
  ASSUME IInv, ~Deceived', NEW bytes, NEW rest, Succeeds(bytes, rest),
         command = "RETR",
         allMails' = Append(allMails, LinesWith(Split(bytes))),
         UNCHANGED status, state' = "READING", isOkResponse' = "unknown",
         command' = "QUIT" => ~doMarkForDeletion
  PROVE  Mails'
<1> DEFINE read == LinesWith(Split(bytes))
<1>1. /\ ~status /\ allMails \in Seq(Seq(Seq(Bytes))) /\ mailbox' = mailbox /\ wire' = rest
      /\ doMarkForDeletion' = doMarkForDeletion
      /\ rest \in Seq(Bytes)
      /\ mishaps \subseteq mishaps' /\ HasNo(rest, "+OK") /\ Chain
      /\ "first" \notin mishaps => \A m \in 1..Len(allMails) : IsRead(m)
  BY SucceedsFacts, TearsGrow DEF Succeeds, Arrives, IInv, TypeOK
<1>2. PICK n \in Nat : n = Len(allMails)
  BY <1>1
<1>3. /\ Len(allMails') = n + 1 /\ allMails'[n + 1] = read
      /\ \A m \in 1..n : allMails'[m] = allMails[m]
  BY <1>1, <1>2
<1>4. ASSUME "first" \notin mishaps', NEW m \in 1..n
      PROVE  IsRead(m)'
  <2>1. IsRead(m) /\ m \in 1..(n + 1)
    BY <1>1, <1>2, <1>4
  <2>2. QED
    BY <1>1, <1>3, <1>4, <2>1 DEF IsRead, Stuffed, Retrieved
<1>5. ASSUME "first" \notin mishaps'
      PROVE  IsRead(n + 1)' \/ Spoilt'
  <2>1. CASE rest = <<>>
    <3>1. Join(Stuffed(read)) = Join(Retrieved(number))
      BY <1>5, <2>1, RestOfMessage DEF Succeeds
    <3>2. number = n + 1
      <4>1. n = number - 1 /\ number \in Nat
        BY <1>1, <1>2, NumberOfMessages DEF Chain, IInv
      <4>2. QED
        BY <4>1
    <3>3. n + 1 \in 1..Len(allMails')
      BY <1>3
    <3>4. QED
      BY <1>1, <1>3, <3>1, <3>2, <3>3 DEF IsRead, Stuffed, Retrieved
  <2>2. CASE rest # <<>>
    <3>1. rest[1] # "+OK"
      BY <1>1, <2>2, HeadIsNot
    <3>2. Head(rest) = rest[1]
      BY <1>1, <2>2
    <3>3. QED
      BY <1>1, <2>2, <3>1, <3>2 DEF Spoilt
  <2>3. QED
    BY <2>1, <2>2
<1> HIDE DEF read
<1>6. \A m \in 1..(n + 1) : m \in 1..n \/ m = n + 1
  BY <1>2
<1>7. "first" \notin mishaps' =>
        \A m \in 1..Len(allMails') : IsRead(m)' \/ (m = Len(allMails') /\ Spoilt')
  BY <1>3, <1>4, <1>5, <1>6
<1>8. QED
  BY <1>1, <1>7 DEF Mails

\* Taking a message preserves the invariant.
LEMMA AcceptedMessage ==
  ASSUME IInv, NEW bytes, NEW rest, Succeeds(bytes, rest),
         command = "RETR",
         allMails' = Append(allMails, LinesWith(Split(bytes))),
         IF doMarkForDeletion THEN Send("DELE", number) ELSE NextMessage,
         UNCHANGED status
  PROVE  IInv'
<1>1. Arrives(bytes, rest) /\ number \in Numbers /\ number \in Nat \ {0} /\ Len(mailbox) \in Nat
  BY NumberOfMessages DEF Succeeds, IInv
<1>2. LinesWith(Split(bytes)) \in Seq(Seq(Bytes))
  <2>1. bytes \in Seq(Bytes) /\ bytes # <<>> /\ Last(Split(bytes)) = <<>>
    BY DEF Succeeds, Arrives, IsComplete
  <2>2. Len(Split(bytes)) >= 2
    BY <2>1, CompleteHasEnd
  <2>3. ReaderType
    BY ReaderIsTyped DEF IInv
  <2>4. QED
    BY <2>1, <2>2, <2>3, ReadType
<1>3. allMails' \in Seq(Seq(Seq(Bytes))) /\ Len(allMails') = Len(allMails) + 1
  BY <1>2, AppendProperties DEF IInv, TypeOK
<1>4. UNCHANGED <<mailbox, doMarkForDeletion, marked, deleted>>
  BY <1>1 DEF Arrives
<1>5. PICK name \in {"DELE", "QUIT", "RETR"}, message \in Numbers :
        /\ Send(name, message)
        /\ name = "DELE" => doMarkForDeletion /\ message = number
        /\ name = "QUIT" => ~doMarkForDeletion /\ number = Len(mailbox) /\ message = number
        /\ name = "RETR" => ~doMarkForDeletion /\ message = number + 1
  BY <1>1, NextNumber DEF NextMessage
<1>6. TypeOK' /\ Reader' /\ Excuse'
  BY <1>1, <1>3, <1>5, Sent DEF Commands
<1>7. ASSUME ~Deceived'
      PROVE  Chain' /\ Wire' /\ Mails'
  <2>1. Chain /\ Granted /\ HasNo(rest, "+OK") /\ (rest # <<>> => "dot" \in mishaps')
    BY <1>7, SucceedsFacts
  <2>2. Wire'
    BY <1>1, <1>5, <2>1, SentWire DEF Granted, Commands
  <2>3. Mails'
    <3>1. state' = "READING" /\ isOkResponse' = "unknown" /\ command' = name
      BY <1>5 DEF Send
    <3>2. QED
      BY <1>5, <1>7, <3>1, MessageRead
  <2>4. Chain'
    <3>1. /\ requests = <<>> /\ deleted = {} /\ number \in Messages
          /\ Len(allMails) = number - 1
          /\ marked = IF doMarkForDeletion THEN 1..(number - 1) ELSE {}
      BY <2>1 DEF Chain, Granted
    <3>2. Len(allMails') = number
      BY <1>1, <1>3, <3>1
    <3>3. /\ state' = "READING" /\ command' = name /\ number' = message
          /\ requests' = << <<name, message>> >>
      BY <1>5, <3>1 DEF Send
    <3>4. name = "RETR" => message - 1 = number
      BY <1>1, <1>5
    <3>5. QED
      BY <1>4, <1>5, <3>1, <3>2, <3>3, <3>4 DEF Chain, Messages
  <2>5. QED
    BY <2>2, <2>3, <2>4
<1>8. QED
  BY <1>6, <1>7 DEF IInv

\* The callback of a reply that is read without an error preserves the invariant.
LEMMA AcceptedCallback ==
  ASSUME IInv, NEW bytes, NEW rest, Succeeds(bytes, rest),
         Callback(TRUE, LinesWith(Split(bytes)))
  PROVE  IInv'
<1>1. CASE command = "QUIT" /\ status' = TRUE /\ Exit /\ UNCHANGED allMails
  BY <1>1, AcceptedQuit
<1>2. CASE /\ command \in {"greeting", "USER", "PASS", "STAT"}
           /\ CASE command = "greeting" -> Send("USER", number)
                [] command = "USER"     -> Send("PASS", number)
                [] command = "PASS"     -> Send("STAT", number)
                [] command = "STAT"     -> Send("RETR", 1)
           /\ UNCHANGED <<allMails, status>>
  BY <1>2, AcceptedGreeting
<1>3. CASE /\ command = "RETR"
           /\ allMails' = Append(allMails, LinesWith(Split(bytes)))
           /\ IF doMarkForDeletion THEN Send("DELE", number) ELSE NextMessage
           /\ UNCHANGED status
  BY <1>3, AcceptedMessage
<1>4. CASE command = "DELE" /\ NextMessage /\ UNCHANGED <<allMails, status>>
  BY <1>4, AcceptedMark
<1>5. QED
  BY <1>1, <1>2, <1>3, <1>4 DEF Callback

-----------------------------------------------------------------------------
\* A chunk that is handled: as an error, dropped, as the end of a reply, or as a part.
Handled(bytes, rest) ==
  /\ Arrives(bytes, rest)
  /\ \/ HasTooManyLines(Split(bytes)) /\ Callback(FALSE, <<>>)
     \/ Throws(Split(bytes)) /\ UNCHANGED <<clientVars, requests>>
     \/ /\ ~Throws(Split(bytes)) /\ IsComplete(Split(bytes), LinesWith(Split(bytes)))
        /\ Callback(Verdict(LinesWith(Split(bytes))) = "ok", LinesWith(Split(bytes)))
     \/ ~Throws(Split(bytes)) /\ Continues(Split(bytes))

\* Every chunk that arrives is handled.
LEMMA ReceiveHandles ==
  ASSUME IInv, Receive
  PROVE  \E bytes, rest : Handled(bytes, rest)
<1> DEFINE bytesOf(length) == SubSeq(wire, 1, length)
           restOf(length) == SubSeq(wire, length + 1, Len(wire))
<1>2. PICK length \in 1..Len(wire) :
        LET bytes == bytesOf(length)
            rest  == restOf(length)
            lines == Split(bytes)
            read  == LinesWith(lines)
        IN /\ state = "READING" /\ ~closed
           /\ wire' = rest
           /\ mishaps' = mishaps \cup Tears(bytes, rest)
           /\ \/ /\ HasTooManyLines(lines)
                 /\ Callback(FALSE, <<>>)
              \/ /\ ~HasTooManyLines(lines) /\ Throws(lines)
                 /\ UNCHANGED <<clientVars, requests>>
              \/ /\ ~HasTooManyLines(lines) /\ ~Throws(lines)
                 /\ IsComplete(lines, read)
                 /\ Callback(Verdict(read) = "ok", read)
              \/ /\ ~HasTooManyLines(lines) /\ ~Throws(lines)
                 /\ Continues(lines)
           /\ UNCHANGED <<mailbox, doMarkForDeletion, serverVars, closed>>
  BY DEF Receive, Continues, Kept
<1>3. PICK bytes, rest : bytes = bytesOf(length) /\ rest = restOf(length)
  OBVIOUS
<1>4. Arrives(bytes, rest)
  <2>1. wire \in Seq(Bytes)
    BY DEF IInv, TypeOK
  <2>2. length \in 0..Len(wire) /\ length # 0 /\ length \in Nat
    BY <2>1
  <2>3. bytes \in Seq(Bytes) /\ rest \in Seq(Bytes) /\ Len(bytes) = length /\ bytes \o rest = wire
    BY <1>3, <2>1, <2>2, Cut
  <2>4. bytes # <<>>
    BY <2>2, <2>3
  <2>5. AreSame(wire, bytes \o rest)
    BY <2>3 DEF AreSame
  <2>6. QED
    BY <1>2, <1>3, <2>3, <2>4, <2>5 DEF Arrives, serverVars
<1>5. QED
  BY <1>2, <1>3, <1>4 DEF Handled

\* A chunk preserves the invariant.
LEMMA ReceiveStep == IInv /\ Receive => IInv'
<1>1. SUFFICES ASSUME IInv, Receive
               PROVE  IInv'
  OBVIOUS
<1>3. PICK bytes, rest : Handled(bytes, rest)
  BY <1>1, ReceiveHandles
<1>4. Arrives(bytes, rest)
  BY <1>3 DEF Handled
<1>6. CASE HasTooManyLines(Split(bytes)) /\ Callback(FALSE, <<>>)
  <2>1. command' = command
    BY <1>6 DEF Callback, Exit
  <2>2. Reason'
    BY <1>1, <1>4, <1>6, <2>1, ErrorHasAReason
  <2>3. QED
    BY <1>1, <1>4, <1>6, <2>2, RefusedCallback
<1>7. CASE Throws(Split(bytes)) /\ UNCHANGED <<clientVars, requests>>
  BY <1>1, <1>4, <1>7, Thrown
<1>8. CASE /\ ~Throws(Split(bytes)) /\ IsComplete(Split(bytes), LinesWith(Split(bytes)))
           /\ Callback(Verdict(LinesWith(Split(bytes))) = "ok", LinesWith(Split(bytes)))
  <2>1. CASE Verdict(LinesWith(Split(bytes))) = "ok"
    <3>1. Callback(TRUE, LinesWith(Split(bytes)))
      BY <1>8, <2>1
    <3>2. Succeeds(bytes, rest)
      BY <1>4, <1>8, <2>1 DEF Succeeds
    <3>3. QED
      BY <1>1, <3>1, <3>2, AcceptedCallback
  <2>2. CASE Verdict(LinesWith(Split(bytes))) # "ok"
    <3>1. Callback(FALSE, LinesWith(Split(bytes)))
      BY <1>8, <2>2
    <3>2. command' = command
      BY <3>1 DEF Callback, Exit
    <3>3. Reason'
      BY <1>1, <1>4, <1>8, <2>2, <3>2, ErrorHasAReason
    <3>4. QED
      BY <1>1, <1>4, <3>1, <3>3, RefusedCallback
  <2>3. QED
    BY <2>1, <2>2
<1>9. CASE ~Throws(Split(bytes)) /\ Continues(Split(bytes))
  BY <1>1, <1>4, <1>9, Continued
<1>10. QED
  BY <1>3, <1>6, <1>7, <1>8, <1>9 DEF Handled

-----------------------------------------------------------------------------
(* The steps, and the theorems.                                             *)

\* The invariant holds at the beginning.
LEMMA Begins == Init => IInv
<1>1. SUFFICES ASSUME Init
               PROVE  IInv
  OBVIOUS
<1>2. TypeOK
  <2>1. /\ mailbox \in Mailboxes /\ doMarkForDeletion \in MayDelete
        /\ state \in States /\ command \in Commands /\ number \in Numbers
    BY <1>1 DEF Init, States, Commands, Numbers
  <2>2. /\ isMultiLineResponse \in BOOLEAN /\ isLinePending \in BOOLEAN /\ status \in BOOLEAN
        /\ closed \in BOOLEAN /\ isOkResponse \in {"unknown", "ok", "error"}
    BY <1>1 DEF Init
  <2>3. /\ responseLines \in Seq(Seq(Bytes)) /\ allMails \in Seq(Seq(Seq(Bytes)))
        /\ requests \in Seq(Commands \X Numbers) /\ wire \in Seq(Bytes)
    BY <1>1 DEF Init
  <2>4. marked = {} /\ deleted = {} /\ mishaps = {}
    BY <1>1 DEF Init
  <2>5. QED
    BY <2>1, <2>2, <2>3, <2>4 DEF TypeOK
<1>3. Reader /\ Excuse
  BY <1>1 DEF Init, Reader, Excuse
<1>4. Chain
  BY <1>1 DEF Init, Chain
<1>5. Wire /\ Mails
  BY <1>1 DEF Init, Wire, Mails
<1>6. QED
  BY <1>2, <1>3, <1>4, <1>5 DEF IInv

\* A text that begins anew.
LEMMA Anew ==
  ASSUME NEW a \in Seq(Bytes), NEW whole, a = whole
  PROVE  \E done \in Seq(Bytes) : done = <<>> /\ AreSame(done \o a, whole)
<1>1. AreSame(<<>> \o a, whole)
  BY NothingBefore
<1>2. <<>> \in Seq(Bytes)
  OBVIOUS
<1>3. QED
  BY <1>1, <1>2

\* The connection preserves the invariant.
LEMMA ConnectStep == IInv /\ Connect => IInv'
<1>1. SUFFICES ASSUME IInv, Connect
               PROVE  IInv'
  OBVIOUS
<1>2. /\ state = "CONNECTING" /\ state' = "READING" /\ mishaps \subseteq mishaps'
      /\ mishaps' \subseteq Mishaps
      /\ UNCHANGED <<mailbox, doMarkForDeletion, command, number, isMultiLineResponse,
                     isOkResponse, isLinePending, responseLines, allMails, status,
                     requests, marked, deleted, closed>>
  BY <1>1 DEF Connect, readerVars, serverVars, IInv, TypeOK, Mishaps
<1>3. /\ Join(Positive) \in Seq(Bytes) /\ Join(Negative) \in Seq(Bytes)
      /\ \/ wire' = Join(Positive)
         \/ wire' = Join(Negative) /\ "refused" \in mishaps'
  <2>1. Join(Positive) \in Seq(Bytes)
    BY Texts DEF Bytes
  <2>2. QED
    BY <1>1, <2>1, NoYesInNegative DEF Connect
<1>4. wire' \in Seq(Bytes)
  BY <1>3
<1>5. TypeOK'
  BY <1>1, <1>2, <1>4 DEF IInv, TypeOK, States, Messages, Numbers
<1>6. Reader' /\ Excuse'
  BY <1>1, <1>2, ReasonStays DEF IInv, Reader, Excuse
<1>7. ASSUME ~Deceived'
      PROVE  Chain' /\ Wire' /\ Mails'
  <2>1. Chain /\ Mails
    BY <1>1, <1>2, <1>7, DeceivedStays DEF IInv
  <2>2. command = "greeting" /\ requests = <<>> /\ isOkResponse = "unknown" /\ allMails = <<>>
    BY <1>2, <2>1 DEF Chain
  <2>3. Chain'
    BY <1>2, <2>1, <2>2 DEF Chain, Messages
  <2>4. Mails'
    BY <1>2, <2>1, <2>2 DEF Mails
  <2>5. PICK a \in Seq(Bytes) : a = wire'
    BY <1>4
  <2>6. Refused(a)' \/ Accepted(a)'
    <3>1. CASE a = Join(Negative) /\ "refused" \in mishaps'
      <4>1. PICK done \in Seq(Bytes) : done = <<>> /\ AreSame(done \o a, Join(Negative))
        BY <3>1, Anew
      <4>2. QED
        BY <1>2, <2>2, <3>1, <4>1 DEF Refused
    <3>2. CASE a = Join(Positive)
      <4>1. PICK done \in Seq(Bytes) : done = <<>> /\ AreSame(done \o a, Join(Positive))
        BY <3>2, Anew
      <4>2. Reply' = Join(Positive)
        BY <1>2, <2>2 DEF Reply
      <4>3. Granted' /\ Progress(done, a)'
        BY <1>2, <2>2, <4>1 DEF Granted, Progress
      <4>4. QED
        BY <4>1, <4>2, <4>3 DEF Accepted
    <3>3. QED
      BY <1>3, <2>5, <3>1, <3>2
  <2>7. PICK g \in Seq(Bytes) : g = <<>> /\ AreSame(g \o a, wire')
    BY <2>5, Anew
  <2>8. Ahead(g, a)'
    BY <2>6, <2>7 DEF Ahead, AreSame, HasNo
  <2>9. QED
    BY <2>3, <2>4, <2>8 DEF Wire
<1>8. QED
  BY <1>5, <1>6, <1>7 DEF IInv

\* The connection is lost, or the wait is over: nothing is read any more.
LEMMA EndStep == IInv /\ (Close \/ Return) => IInv'
<1>1. SUFFICES ASSUME IInv, Close \/ Return
               PROVE  IInv'
  OBVIOUS
<1>2. /\ UNCHANGED <<mailbox, doMarkForDeletion, command, number, isMultiLineResponse,
                     isOkResponse, isLinePending, responseLines, allMails, status,
                     requests, wire, marked, deleted, mishaps>>
      /\ \/ state' = state
         \/ state \notin {"CONNECTING", "exiting", "returned"} /\ state' = "CONNECTION_BROKEN"
         \/ state = "exiting" /\ state' = "returned"
      /\ state' # "READING"
      /\ closed' \in BOOLEAN
  BY <1>1 DEF Close, Return, readerVars, serverVars, IInv, TypeOK
<1>3. TypeOK'
  BY <1>1, <1>2 DEF IInv, TypeOK, States, Messages, Numbers
<1>4. Reader' /\ Excuse'
  BY <1>1, <1>2, ReasonStays DEF IInv, Reader, Excuse
<1>5. ASSUME ~Deceived'
      PROVE  Chain' /\ Wire' /\ Mails'
  <2>1. Chain /\ Mails
    BY <1>1, <1>2, <1>5, DeceivedStays DEF IInv
  <2>2. Chain' /\ Wire'
    BY <1>2, <2>1 DEF Chain, Messages, Wire
  <2>3. Spoilt => Spoilt'
    BY <1>2 DEF Spoilt
  <2>4. \A m : IsRead(m) => IsRead(m)'
    BY <1>2 DEF IsRead, Stuffed, Retrieved
  <2>5. Mails'
    BY <1>2, <2>1, <2>3, <2>4 DEF Mails
  <2>6. QED
    BY <2>2, <2>5
<1>6. QED
  BY <1>3, <1>4, <1>5 DEF IInv

-----------------------------------------------------------------------------
(* The answers of the server.                                               *)

\* What both answers have in common: the response is now on its way.
Answers(response) ==
  /\ requests # <<>> /\ requests' = Tail(requests)
  /\ response \in Seq(Bytes)
  /\ wire' = wire \o response
  /\ mishaps \subseteq mishaps' /\ mishaps' \subseteq Mishaps
  /\ marked' \subseteq Messages /\ deleted' \subseteq Messages
  /\ UNCHANGED <<mailbox, doMarkForDeletion, state, command, number, isMultiLineResponse,
                 isOkResponse, isLinePending, responseLines, allMails, status, closed>>

\* An answer changes what is on its way, and nothing of the client.
LEMMA AnswersType ==
  ASSUME IInv, NEW response, Answers(response)
  PROVE  TypeOK' /\ Reader' /\ Excuse'
<1>1. wire' \in Seq(Bytes)
  <2>1. wire \in Seq(Bytes) /\ response \in Seq(Bytes)
    BY DEF IInv, TypeOK, Answers
  <2>2. wire \o response \in Seq(Bytes)
    BY <2>1, ConcatProperties, Zenon
  <2>3. QED
    BY <2>2 DEF Answers
<1>2. requests' \in Seq(Commands \X Numbers)
  BY DEF IInv, TypeOK, Answers
<1>3. TypeOK'
  BY <1>1, <1>2 DEF IInv, TypeOK, Answers, Messages, Numbers
<1>4. Reader' /\ Excuse'
  BY ReasonStays DEF IInv, Reader, Excuse, Answers
<1>5. QED
  BY <1>3, <1>4

\* With an answer, what is before the client is what it has asked for.
LEMMA AnswersWire ==
  ASSUME IInv, ~Deceived, NEW response, Answers(response),
         requests' = <<>>,
         state = "READING" /\ isOkResponse = "unknown" =>
           Refused(response)' \/ Accepted(response)'
  PROVE  Wire'
<1>1. SUFFICES ASSUME state = "READING", isOkResponse # "error"
               PROVE  \E g \in Seq(Bytes), a \in Seq(Bytes) : Ahead(g, a)'
  BY DEF Answers, Wire
<1>2. PICK g \in Seq(Bytes), a \in Seq(Bytes) : Ahead(g, a)
  BY <1>1 DEF IInv, Wire
<1>3. Waiting(a)
  BY <1>2 DEF Ahead, Answers, Refused, Accepted, Granted
<1>4. a = <<>> /\ isOkResponse = "unknown"
  BY <1>3 DEF Waiting
<1>5. g \o <<>> = g
  BY ConcatEmptySeq
<1>6. wire = g
  BY <1>2, <1>4, <1>5 DEF Ahead, AreSame
<1>7. AreSame(wire, g \o response)'
  BY <1>6 DEF Answers, AreSame
<1>8. HasNo(g, "+OK")'
  BY <1>2 DEF Ahead
<1>9. g # <<>> => Leftover'
  BY <1>2 DEF Ahead, Answers, Leftover
<1>10. Refused(response)' \/ Accepted(response)'
  BY <1>1, <1>4
<1>11. Ahead(g, response)'
  BY <1>7, <1>8, <1>9, <1>10 DEF Ahead
<1>12. response \in Seq(Bytes)
  BY DEF Answers
<1>13. QED
  BY <1>11, <1>12

\* An answer leaves the mails that have been taken as they are.
LEMMA AnswersMails ==
  ASSUME IInv, ~Deceived, NEW response, Answers(response)
  PROVE  Mails'
<1>1. Mails /\ ~status
  BY DEF IInv, Mails, Answers
<1>2. Spoilt => Spoilt'
  <2>1. wire \in Seq(Bytes) /\ response \in Seq(Bytes)
    BY DEF IInv, TypeOK, Answers
  <2>2. wire # <<>> => wire' # <<>> /\ Head(wire') = Head(wire)
    <3>1. wire # <<>> => Head(wire) = wire[1]
      BY <2>1
    <3>2. QED
      BY <2>1, <3>1, HeadOf DEF Answers
  <2>3. QED
    BY <2>2 DEF Spoilt, Answers
<1>3. \A m : IsRead(m) => IsRead(m)'
  BY DEF IsRead, Stuffed, Retrieved, Answers
<1>4. UNCHANGED <<allMails, status>> /\ mishaps \subseteq mishaps'
  BY DEF Answers
<1>5. QED
  BY <1>1, <1>2, <1>3, <1>4 DEF Mails

\* There is one request at most, for the current command.
LEMMA OneRequest ==
  ASSUME IInv, ~Deceived, requests # <<>>
  PROVE  /\ Head(requests)[1] = command /\ Head(requests)[2] = number /\ Tail(requests) = <<>>
         /\ Chain /\ state # "CONNECTING" /\ deleted = {}
<1>1. Chain
  BY DEF IInv
<1>2. requests = << <<command, number>> >>
  BY <1>1 DEF Chain
<1>3. Head(requests) = <<command, number>> /\ Tail(requests) = <<>>
  BY <1>2
<1>4. state # "CONNECTING" /\ deleted = {}
  BY <1>1 DEF Chain
<1>5. QED
  BY <1>1, <1>3, <1>4

\* A refusal of the server preserves the invariant.
LEMMA AnswerNo ==
  ASSUME IInv, Answers(Join(Negative)),
         LET possible == Head(requests)[1] \in {"RETR", "DELE"} => Head(requests)[2] \in Messages
         IN possible => "refused" \in mishaps',
         deleted' \in IF Head(requests)[1] = "QUIT" THEN SUBSET marked ELSE {deleted},
         UNCHANGED marked
  PROVE  IInv'
<1>1. TypeOK' /\ Reader' /\ Excuse'
  BY AnswersType
<1>2. ASSUME ~Deceived'
      PROVE  Chain' /\ Wire' /\ Mails'
  <2>1. ~Deceived
    BY <1>2, DeceivedStays DEF Answers
  <2>2. /\ Head(requests)[1] = command /\ Head(requests)[2] = number /\ requests' = <<>>
        /\ Chain /\ state # "CONNECTING" /\ deleted = {}
    BY <2>1, OneRequest DEF Answers
  <2>3. "refused" \in mishaps' \/ mailbox' = <<>>
    <3>1. SUFFICES ASSUME number \notin Messages
                   PROVE  mailbox = <<>>
      BY <2>2 DEF Answers
    <3>2. PICK n \in Nat : n = Len(mailbox)
      BY NumberOfMessages DEF IInv
    <3>3. n = 0
      BY <3>1, <3>2 DEF IInv, TypeOK, Numbers, Messages
    <3>4. mailbox \in Seq(Seq(Seq(Bytes \ {"LF"})))
      BY MailboxesAssumption DEF IInv, TypeOK
    <3>5. QED
      BY <3>2, <3>3, <3>4, EmptySeq
  <2>4. Chain'
    BY <2>2 DEF Chain, Answers, Messages
  <2>5. isOkResponse = "unknown" => Refused(Join(Negative))'
    <3>1. PICK done \in Seq(Bytes) : done = <<>> /\ AreSame(done \o Join(Negative), Join(Negative))
      BY Anew, NoYesInNegative
    <3>2. QED
      BY <2>2, <2>3, <3>1 DEF Refused, Answers
  <2>6. Wire'
    BY <2>1, <2>2, <2>5, AnswersWire
  <2>7. QED
    BY <2>1, <2>4, <2>6, AnswersMails
<1>3. QED
  BY <1>1, <1>2 DEF IInv

\* A positive answer of the server preserves the invariant.
LEMMA AnswerYes ==
  ASSUME IInv, NEW response, Answers(response),
         response = Join(IF Head(requests)[1] = "RETR" THEN Retrieved(Head(requests)[2])
                                                       ELSE Positive),
         Head(requests)[1] \in {"RETR", "DELE"} => Head(requests)[2] \in Messages,
         marked' = IF Head(requests)[1] = "DELE" THEN marked \cup {Head(requests)[2]} ELSE marked,
         deleted' = IF Head(requests)[1] = "QUIT" THEN marked ELSE deleted
  PROVE  IInv'
<1>1. TypeOK' /\ Reader' /\ Excuse'
  BY AnswersType
<1>2. ASSUME ~Deceived'
      PROVE  Chain' /\ Wire' /\ Mails'
  <2>1. ~Deceived
    BY <1>2, DeceivedStays DEF Answers
  <2>2. /\ Head(requests)[1] = command /\ Head(requests)[2] = number /\ requests' = <<>>
        /\ Chain /\ state # "CONNECTING" /\ deleted = {}
    BY <2>1, OneRequest DEF Answers
  <2>3. number \in Nat \ {0} /\ Len(mailbox) \in Nat
    BY NumberOfMessages DEF IInv
  <2>4. command = "DELE" => marked' = 1..number
    BY <2>2, <2>3 DEF Chain
  <2>5. Chain'
    BY <2>2, <2>3, <2>4 DEF Chain, Answers, Messages
  <2>6. response = Reply /\ Reply' = Reply /\ response \in Seq(Bytes)
    BY <2>2 DEF Reply, Answers, Retrieved
  <2>7. isOkResponse = "unknown" => Accepted(response)'
    <3>1. PICK done \in Seq(Bytes) : done = <<>> /\ AreSame(done \o response, Reply)
      BY <2>6, Anew
    <3>2. Granted'
      BY <2>2, <2>4 DEF Granted, Answers, Messages
    <3>3. isOkResponse = "unknown" => Progress(done, response)'
      BY <3>1 DEF Progress, Answers
    <3>4. QED
      BY <2>6, <3>1, <3>2, <3>3 DEF Accepted
  <2>8. Wire'
    BY <2>1, <2>2, <2>7, AnswersWire
  <2>9. QED
    BY <2>1, <2>5, <2>8, AnswersMails
<1>3. QED
  BY <1>1, <1>2 DEF IInv

\* An answer of the server preserves the invariant.
LEMMA AnswerStep == IInv /\ Answer => IInv'
<1>1. SUFFICES ASSUME IInv, Answer
               PROVE  IInv'
  OBVIOUS
<1> DEFINE name == Head(requests)[1]
           message == Head(requests)[2]
           possible == name \in {"RETR", "DELE"} => message \in Messages
           positive == Join(IF name = "RETR" THEN Retrieved(message) ELSE Positive)
<1>2. /\ requests # <<>> /\ requests' = Tail(requests)
      /\ \/ /\ wire' = wire \o Join(Negative)
            /\ deleted' \in IF name = "QUIT" THEN SUBSET marked ELSE {deleted}
            /\ mishaps' = IF possible THEN mishaps \cup {"refused"} ELSE mishaps
            /\ UNCHANGED marked
         \/ /\ possible /\ UNCHANGED mishaps
            /\ wire' = wire \o positive
            /\ marked' = IF name = "DELE" THEN marked \cup {message} ELSE marked
            /\ deleted' = IF name = "QUIT" THEN marked ELSE deleted
      /\ UNCHANGED <<mailbox, doMarkForDeletion, state, command, number, isMultiLineResponse,
                     isOkResponse, isLinePending, responseLines, allMails, status, closed>>
  BY <1>1 DEF Answer, clientVars, readerVars
<1>3. /\ marked \subseteq Messages /\ deleted \subseteq Messages /\ mailbox \in Mailboxes
      /\ mishaps \subseteq Mishaps
  BY <1>1 DEF IInv, TypeOK
<1>4. possible => positive \in Seq(Bytes)
  <2>1. Join(Positive) \in Seq(Bytes)
    BY Texts DEF Bytes
  <2>2. message \in Messages => Join(Retrieved(message)) \in Seq(Bytes)
    BY <1>3, ReplyText
  <2>3. QED
    BY <2>1, <2>2
<1>5. CASE /\ wire' = wire \o Join(Negative)
           /\ deleted' \in IF name = "QUIT" THEN SUBSET marked ELSE {deleted}
           /\ mishaps' = IF possible THEN mishaps \cup {"refused"} ELSE mishaps
           /\ UNCHANGED marked
  <2>1. Answers(Join(Negative))
    BY <1>2, <1>3, <1>5, NoYesInNegative DEF Answers, Mishaps
  <2>2. possible => "refused" \in mishaps'
    BY <1>5
  <2>3. QED
    BY <1>1, <1>5, <2>1, <2>2, AnswerNo
<1>6. CASE /\ possible /\ UNCHANGED mishaps
           /\ wire' = wire \o positive
           /\ marked' = IF name = "DELE" THEN marked \cup {message} ELSE marked
           /\ deleted' = IF name = "QUIT" THEN marked ELSE deleted
  <2>1. PICK response : response = positive
    OBVIOUS
  <2>2. Answers(response)
    BY <1>2, <1>3, <1>4, <1>6, <2>1 DEF Answers
  <2>3. QED
    BY <1>1, <1>6, <2>1, <2>2, AnswerYes
<1>7. QED
  BY <1>2, <1>5, <1>6

-----------------------------------------------------------------------------
\* A step that changes nothing preserves the invariant.
LEMMA Unchanged == IInv /\ UNCHANGED vars => IInv'
<1>1. SUFFICES ASSUME IInv, UNCHANGED vars
               PROVE  IInv'
  OBVIOUS
<1>2. UNCHANGED <<mailbox, doMarkForDeletion, state, command, number, isMultiLineResponse,
                  isOkResponse, isLinePending, responseLines, allMails, status, requests,
                  wire, marked, deleted, closed, mishaps>>
  BY <1>1 DEF vars, clientVars, readerVars, serverVars
<1>3. TypeOK' /\ Reader' /\ Excuse' /\ Deceived' = Deceived
  BY <1>1, <1>2, ReasonStays DEF IInv, TypeOK, Reader, Excuse, Messages, Numbers, Deceived
<1>4. Chain => Chain'
  BY <1>2 DEF Chain, Messages
<1>5. Wire => Wire'
  <2>1. ReaderText' = ReaderText /\ Reply' = Reply /\ (Granted => Granted')
    BY <1>2 DEF ReaderText, Reply, Granted, Retrieved, Messages
  <2>2. \A d, a : Progress(d, a) => Progress(d, a)'
    BY <1>2, <2>1 DEF Progress, BeginsWithDot
  <2>3. \A g, a : Ahead(g, a) => Ahead(g, a)'
    BY <1>2, <2>1, <2>2 DEF Ahead, Leftover, Waiting, Refused, Accepted
  <2>4. QED
    BY <1>2, <2>3 DEF Wire
<1>6. Mails => Mails'
  BY <1>2 DEF Mails, IsRead, Stuffed, Retrieved, Spoilt
<1>7. QED
  BY <1>1, <1>3, <1>4, <1>5, <1>6 DEF IInv

\* The inductive invariant holds in every state of getAll: every action of the client, the
\* connection and the server preserves it.
THEOREM Inductive == Spec => []IInv
<1>1. IInv /\ [Next]_vars => IInv'
  BY ConnectStep, ReceiveStep, EndStep, AnswerStep, Unchanged DEF Next
<1>2. QED
  BY <1>1, Begins, PTL DEF Spec

\* Every variable has its type.
THEOREM Typed == Spec => []TypeOK
<1>1. IInv => TypeOK
  BY DEF IInv
<1>2. QED
  BY <1>1, Inductive, PTL

-----------------------------------------------------------------------------
(* The lines, one by one.                                                   *)

\* A line without a line end inside, and a line that is not two dots.
Clean == Seq(Within(Bytes))
Whole == Seq(Bytes) \ {<<".", ".">>}

\* The lines that the reader has read to their end.
Settled == IF isLinePending THEN Front(responseLines) ELSE responseLines

\* What is read is as it was sent, unless a chunk has ended inside a line end, or inside
\* a line of two dots: no line holds a line end, and none that has ended is two dots.
Exact ==
  /\ IsPaired(wire)
  /\ "lineEnd" \notin mishaps =>
       /\ Settled \in Seq(Clean) /\ (isLinePending => Last(responseLines) \in Clean)
       /\ allMails \in Seq(Seq(Clean))
  /\ "twoDots" \notin mishaps => Settled \in Seq(Whole) /\ allMails \in Seq(Seq(Whole))

\* A line that is read within a chunk.
Single(line) == IF line = <<".", ".">> THEN <<".">> ELSE line

\* It keeps what it is made of, and is not two dots.
LEMMA SingleType ==
  ASSUME NEW line \in Seq(Bytes)
  PROVE  Single(line) \in Whole /\ (line \in Clean => Single(line) \in Clean)
<1>1. <<".">> \in Seq(Bytes) /\ <<".">> # <<".", ".">>
  BY DEF Bytes
<1>2. <<".">> \in Clean
  BY DEF Clean, Within, Bytes
<1>3. QED
  BY <1>1, <1>2 DEF Single, Whole

\* The lines that are read are good when those before were, and those of the chunk are.
LEMMA ReadIn ==
  ASSUME NEW G, ReaderType, NEW bytes \in Seq(Bytes), Len(Split(bytes)) >= 2,
         Settled \in Seq(G),
         isLinePending => Last(responseLines) \o Split(bytes)[1] \in G,
         \A k \in 1..(Len(Split(bytes)) - 1) : Single(Split(bytes)[k]) \in G
  PROVE  LinesWith(Split(bytes)) \in Seq(G)
<1> DEFINE L == Seq(Bytes)
           lines == Split(bytes)
           front == SubSeq(lines, 1, Len(lines) - 1)
           mid == SubSeq(lines, 2, Len(lines) - 1)
<1>1. /\ front \in Seq(L) /\ mid \in Seq(L) /\ Len(lines) \in Nat
      /\ Len(front) = Len(lines) - 1 /\ Len(mid) = Len(lines) - 2
      /\ \A k \in 1..(Len(lines) - 1) : front[k] = lines[k]
      /\ \A k \in 1..(Len(lines) - 2) : mid[k] = lines[k + 1]
  BY ChunkParts
<1>2. \A k \in 1..(Len(lines) - 1) : Single(lines[k]) \in G
  OBVIOUS
<1> HIDE DEF lines, front, mid, L
<1>3. Unstuffed(front) \in Seq(G)
  <2>1. /\ Unstuffed(front) \in Seq(L) /\ Len(Unstuffed(front)) = Len(front)
        /\ \A k \in 1..Len(front) : Unstuffed(front)[k] = Single(front[k])
    BY <1>1, UnstuffedType DEF L, Single
  <2>2. \A k \in 1..Len(Unstuffed(front)) : Unstuffed(front)[k] \in G
    BY <1>1, <1>2, <2>1
  <2>3. QED
    BY <2>1, <2>2, SeqWith
<1>4. Unstuffed(mid) \in Seq(G)
  <2>1. /\ Unstuffed(mid) \in Seq(L) /\ Len(Unstuffed(mid)) = Len(mid)
        /\ \A k \in 1..Len(mid) : Unstuffed(mid)[k] = Single(mid[k])
    BY <1>1, UnstuffedType DEF L, Single
  <2>2. \A k \in 1..(Len(lines) - 2) : k + 1 \in 1..(Len(lines) - 1)
    BY <1>1
  <2>3. \A k \in 1..Len(Unstuffed(mid)) : Unstuffed(mid)[k] \in G
    BY <1>1, <1>2, <2>1, <2>2
  <2>4. QED
    BY <2>1, <2>3, SeqWith
<1>5. CASE isLinePending
  <2> DEFINE whole == Last(responseLines) \o lines[1]
             head == Append(Front(responseLines), whole)
  <2>1. LinesWith(lines) = head \o Unstuffed(mid)
    BY <1>5 DEF LinesWith, mid
  <2>2. whole \in G /\ Front(responseLines) \in Seq(G)
    BY <1>5 DEF Settled, lines
  <2> HIDE DEF whole
  <2>3. head \in Seq(G)
    BY <2>2, AppendProperties
  <2> HIDE DEF head
  <2>4. head \o Unstuffed(mid) \in Seq(G)
    BY <1>4, <2>3, ConcatProperties
  <2>5. QED
    BY <2>1, <2>4 DEF lines
<1>6. CASE ~isLinePending
  <2>1. LinesWith(lines) = responseLines \o Unstuffed(front)
    BY <1>6 DEF LinesWith, front
  <2>2. responseLines \in Seq(G)
    BY <1>6 DEF Settled
  <2>3. responseLines \o Unstuffed(front) \in Seq(G)
    BY <1>3, <2>2, ConcatProperties
  <2>4. QED
    BY <2>1, <2>3 DEF lines
<1>7. QED
  BY <1>5, <1>6

LEMMA OneOrMore ==
  \A n \in Nat \ {0} : (n = 1 \/ n >= 2) /\ (n >= 2 => n # 1)
  OBVIOUS

\* What the reader has read to its end after a chunk, and what goes on.
LEMMA KeptParts ==
  ASSUME ReaderType, NEW bytes \in Seq(Bytes), bytes # <<>>, Continues(Split(bytes))
  PROVE  /\ Settled' = IF Len(Split(bytes)) = 1 THEN Settled ELSE LinesWith(Split(bytes))
         /\ isLinePending' =>
              Last(responseLines') = IF isLinePending /\ Len(Split(bytes)) = 1
                                     THEN Last(responseLines) \o bytes ELSE Last(Split(bytes))
<1> DEFINE lines == Split(bytes)
           read == LinesWith(lines)
           last == Last(lines)
<1>1. Len(lines) \in Nat \ {0} /\ last \in Seq(Bytes)
  BY LinesOfChunk
<1>1a. (Len(lines) = 1 \/ Len(lines) >= 2) /\ (Len(lines) >= 2 => Len(lines) # 1)
  BY <1>1, OneOrMore
<1>2. isLinePending' = (last # <<>>) /\ responseLines' = Kept(lines)
  BY DEF Continues
<1>3. CASE Len(lines) >= 2
  <2>1. read \in Seq(Seq(Bytes))
    BY <1>3, ReadType
  <2>2. Len(lines) # 1
    BY <1>1a, <1>3, Zenon
  <2> HIDE DEF read, last, lines
  <2>3. CASE last = <<>>
    <3>1. Kept(lines) = read
      BY <2>3 DEF Kept, read, last
    <3>2. QED
      BY <1>2, <2>2, <2>3, <3>1 DEF Settled, lines, read
  <2>4. CASE last # <<>>
    <3>1. Kept(lines) = Append(read, last)
      BY <2>2, <2>4 DEF Kept, read, last
    <3>2. Front(Append(read, last)) = read /\ Last(Append(read, last)) = last
      BY <1>1, <2>1, FrontLastOf
    <3>3. QED
      BY <1>2, <2>2, <2>4, <3>1, <3>2 DEF Settled, lines, read, last
  <2>5. QED
    BY <2>3, <2>4
<1>4. CASE Len(lines) = 1
  <2>1. last = bytes
    BY <1>4, OnePiece
  <2>2. read = IF isLinePending THEN Append(Front(responseLines), Last(responseLines) \o bytes)
                                ELSE responseLines
    BY <1>4, PieceRead
  <2>3. CASE isLinePending
    <3> DEFINE whole == Last(responseLines) \o bytes
    <3>1. Front(responseLines) \in Seq(Seq(Bytes)) /\ Last(responseLines) \in Seq(Bytes)
      BY <2>3, PendingParts
    <3>2. whole \in Seq(Bytes)
      BY <3>1, ConcatProperties, Zenon
    <3>3. Kept(lines) = Append(Front(responseLines), whole)
      BY <1>4, <2>2, <2>3 DEF Kept
    <3> HIDE DEF whole, lines, last, read
    <3>4. /\ Front(Append(Front(responseLines), whole)) = Front(responseLines)
          /\ Last(Append(Front(responseLines), whole)) = whole
      BY <3>1, <3>2, FrontLastOf
    <3>5. QED
      BY <1>2, <1>4, <2>1, <2>3, <3>3, <3>4 DEF Settled, lines, whole
  <2>4. CASE ~isLinePending
    <3>1. Kept(lines) = Append(responseLines, bytes)
      BY <1>4, <2>1, <2>2, <2>4 DEF Kept
    <3>2. /\ Front(Append(responseLines, bytes)) = responseLines
          /\ Last(Append(responseLines, bytes)) = bytes
      BY FrontLastOf DEF ReaderType
    <3>3. QED
      BY <1>2, <1>4, <2>1, <2>4, <3>1, <3>2 DEF Settled
  <2>5. QED
    BY <2>3, <2>4
<1>5. QED
  BY <1>1a, <1>3, <1>4, Zenon

\* A chunk that begins at no line end has no line with a line end inside.
LEMMA ChunkClean ==
  ASSUME Exact, NEW bytes, NEW rest, Arrives(bytes, rest)
  PROVE  /\ IsPaired(rest)
         /\ "lineEnd" \notin mishaps' =>
              /\ Split(bytes) \in Seq(Clean) /\ bytes \in Seq(Bytes)
              /\ Len(Split(bytes)) = 1 => bytes \in Clean
<1>1. bytes \in Seq(Bytes) /\ rest \in Seq(Bytes) /\ bytes # <<>> /\ wire = bytes \o rest
  BY WireOf DEF Arrives
<1>2. IsPaired(bytes) /\ IsPaired(rest)
  BY <1>1, PairedConcat DEF Exact
<1>3. ASSUME "lineEnd" \notin mishaps'
      PROVE  Split(bytes) \in Seq(Clean)
  <2>1. Head(bytes) # "LF"
    BY <1>3 DEF Arrives, Tears
  <2>2. Head(bytes) = bytes[1]
    BY <1>1
  <2>3. BeginsWell(bytes)
    BY <2>1, <2>2 DEF BeginsWell
  <2>4. QED
    BY <1>1, <1>2, <2>3, SplitWithin, Texts DEF Clean
<1>4. ASSUME "lineEnd" \notin mishaps', Len(Split(bytes)) = 1
      PROVE  bytes \in Clean
  <2>1. Split(bytes)[1] = bytes
    BY <1>1, <1>4, OnePiece
  <2>2. Split(bytes) \in Seq(Clean) /\ 1 \in 1..Len(Split(bytes))
    BY <1>3, <1>4
  <2>3. QED
    BY <2>1, <2>2, ElementOfSeq
<1>5. QED
  BY <1>1, <1>2, <1>3, <1>4

\* The lines that are read with a chunk in which a line ends.
LEMMA ReadExact ==
  ASSUME IInv, Exact, NEW bytes, NEW rest, Arrives(bytes, rest), Len(Split(bytes)) >= 2
  PROVE  /\ "lineEnd" \notin mishaps' => LinesWith(Split(bytes)) \in Seq(Clean)
         /\ "twoDots" \notin mishaps' => LinesWith(Split(bytes)) \in Seq(Whole)
<1> DEFINE lines == Split(bytes)
<1>1. ReaderType /\ bytes \in Seq(Bytes) /\ mishaps \subseteq mishaps'
  BY ReaderIsTyped, TearsGrow DEF IInv, Arrives
<1>2. /\ lines \in Seq(Seq(Bytes)) /\ lines[1] \in Seq(Bytes) /\ Len(lines) \in Nat
      /\ \A k \in 1..(Len(lines) - 1) : k \in 1..Len(lines)
  <2>1. lines \in Seq(Seq(Bytes)) /\ lines[1] \in Seq(Bytes)
    BY <1>1, ChunkParts
  <2>2. PICK n \in Nat : n = Len(lines)
    BY <2>1
  <2>3. \A k \in 1..(n - 1) : k \in 1..n
    OBVIOUS
  <2>4. QED
    BY <2>1, <2>2, <2>3
<1>3. ASSUME "lineEnd" \notin mishaps'
      PROVE  LinesWith(lines) \in Seq(Clean)
  <2>1. /\ Settled \in Seq(Clean) /\ (isLinePending => Last(responseLines) \in Clean)
        /\ lines \in Seq(Clean)
    BY <1>1, <1>3, ChunkClean DEF Exact
  <2>2. lines[1] \in Clean /\ \A k \in 1..(Len(lines) - 1) : lines[k] \in Clean
    <3>1. 1 \in 1..Len(lines)
      BY <1>2
    <3>2. QED
      BY <1>2, <2>1, <3>1, ElementOfSeq
  <2>3. isLinePending => Last(responseLines) \o lines[1] \in Clean
    BY <2>1, <2>2, ConcatProperties DEF Clean
  <2>4. \A k \in 1..(Len(lines) - 1) : Single(lines[k]) \in Clean
    <3>1. \A k \in 1..(Len(lines) - 1) : lines[k] \in Seq(Bytes)
      BY <1>2, ElementOfSeq
    <3>2. QED
      BY <2>2, <3>1, SingleType
  <2>5. QED
    BY <1>1, <2>1, <2>3, <2>4, ReadIn
<1>4. ASSUME "twoDots" \notin mishaps'
      PROVE  LinesWith(lines) \in Seq(Whole)
  <2>1. Settled \in Seq(Whole)
    BY <1>1, <1>4 DEF Exact
  <2>2. isLinePending => Last(responseLines) \o lines[1] \in Whole
    <3>1. SUFFICES ASSUME isLinePending
                   PROVE  Last(responseLines) \o lines[1] \in Whole
      OBVIOUS
    <3>2. Last(responseLines) \in Seq(Bytes)
      BY <1>1, <3>1, PendingParts
    <3>3. Last(responseLines) \o lines[1] \in Seq(Bytes)
      BY <1>2, <3>2, ConcatProperties, Zenon
    <3>4. Len(lines) > 1
      BY <1>2
    <3>5. Last(responseLines) \o lines[1] # <<".", ".">>
      BY <1>4, <3>1, <3>4 DEF Arrives, Tears
    <3>6. QED
      BY <3>3, <3>5 DEF Whole
  <2>3. \A k \in 1..(Len(lines) - 1) : Single(lines[k]) \in Whole
    <3>1. \A k \in 1..(Len(lines) - 1) : lines[k] \in Seq(Bytes)
      BY <1>2, ElementOfSeq
    <3>2. QED
      BY <3>1, SingleType
  <2>4. QED
    BY <1>1, <2>1, <2>2, <2>3, ReadIn
<1>5. QED
  BY <1>3, <1>4

\* The history goes on, and neither the reader nor the mails have changed, or the reader
\* begins again.
LEMMA ExactFrame ==
  ASSUME Exact, mishaps \subseteq mishaps', IsPaired(wire'), UNCHANGED allMails,
         \/ UNCHANGED <<isLinePending, responseLines>>
         \/ isLinePending' = FALSE /\ responseLines' = <<>>
  PROVE  Exact'
<1>1. CASE UNCHANGED <<isLinePending, responseLines>>
  <2>1. Settled' = Settled
    BY <1>1 DEF Settled
  <2>2. QED
    BY <1>1, <2>1 DEF Exact
<1>2. CASE isLinePending' = FALSE /\ responseLines' = <<>>
  <2>1. Settled' = <<>> /\ ~isLinePending'
    BY <1>2 DEF Settled
  <2>2. QED
    BY <2>1 DEF Exact
<1>3. QED
  BY <1>1, <1>2

\* What a callback does to the reader and to the mails.
LEMMA CallbackEffect ==
  ASSUME NEW isOk \in BOOLEAN, NEW response, Callback(isOk, response)
  PROVE  /\ allMails' = allMails \/ (isOk /\ allMails' = Append(allMails, response))
         /\ \/ UNCHANGED <<isLinePending, responseLines>>
            \/ isLinePending' = FALSE /\ responseLines' = <<>>
<1>1. ASSUME NEW name, NEW message, Send(name, message)
      PROVE  isLinePending' = FALSE /\ responseLines' = <<>>
  BY <1>1 DEF Send
<1>2. ASSUME NextMessage
      PROVE  isLinePending' = FALSE /\ responseLines' = <<>>
  BY <1>1, <1>2, Zenon DEF NextMessage
<1>3. CASE (~isOk \/ command = "QUIT") /\ Exit /\ UNCHANGED allMails
  BY <1>3 DEF Exit, readerVars
<1>4. CASE /\ isOk /\ command \in {"greeting", "USER", "PASS", "STAT"}
           /\ \E name, message : Send(name, message)
           /\ UNCHANGED allMails
  BY <1>1, <1>4
<1>5. CASE /\ isOk /\ allMails' = Append(allMails, response)
           /\ Send("DELE", number) \/ NextMessage
  BY <1>1, <1>2, <1>5
<1>6. CASE isOk /\ NextMessage /\ UNCHANGED allMails
  BY <1>2, <1>6
<1>7. ASSUME isOk, command \in {"greeting", "USER", "PASS", "STAT"},
             CASE command = "greeting" -> Send("USER", number)
               [] command = "USER"     -> Send("PASS", number)
               [] command = "PASS"     -> Send("STAT", number)
               [] command = "STAT"     -> Send("RETR", 1)
      PROVE  \E name, message : Send(name, message)
  BY <1>7
<1>8. QED
  BY <1>3, <1>4, <1>5, <1>6, <1>7 DEF Callback

\* A chunk that completes a reply leaves its lines in the mails as they are.
LEMMA ExactCallback ==
  ASSUME IInv, Exact, NEW bytes, NEW rest, Arrives(bytes, rest), NEW isOk \in BOOLEAN,
         IsComplete(Split(bytes), LinesWith(Split(bytes))),
         Callback(isOk, LinesWith(Split(bytes)))
  PROVE  Exact'
<1> DEFINE read == LinesWith(Split(bytes))
<1>1. IsPaired(wire') /\ mishaps \subseteq mishaps'
  BY ChunkClean, TearsGrow DEF Arrives
<1>2. \/ UNCHANGED <<isLinePending, responseLines>>
      \/ isLinePending' = FALSE /\ responseLines' = <<>>
  BY CallbackEffect
<1>3. CASE allMails' = allMails
  BY <1>1, <1>2, <1>3, ExactFrame
<1>4. CASE allMails' = Append(allMails, read)
  <2>1. Len(Split(bytes)) >= 2
    BY CompleteHasEnd DEF Arrives, IsComplete
  <2>2. /\ "lineEnd" \notin mishaps' => read \in Seq(Clean)
        /\ "twoDots" \notin mishaps' => read \in Seq(Whole)
    BY <2>1, ReadExact
  <2> HIDE DEF read
  <2>3. /\ "lineEnd" \notin mishaps' => allMails' \in Seq(Seq(Clean))
        /\ "twoDots" \notin mishaps' => allMails' \in Seq(Seq(Whole))
    BY <1>1, <1>4, <2>2, AppendProperties DEF Exact
  <2>4. CASE UNCHANGED <<isLinePending, responseLines>>
    <3>1. Settled' = Settled
      BY <2>4 DEF Settled
    <3>2. QED
      BY <1>1, <2>3, <2>4, <3>1 DEF Exact
  <2>5. CASE isLinePending' = FALSE /\ responseLines' = <<>>
    <3>1. Settled' = <<>> /\ ~isLinePending'
      BY <2>5 DEF Settled
    <3>2. QED
      BY <1>1, <2>3, <3>1 DEF Exact
  <2>6. QED
    BY <1>2, <2>4, <2>5
<1>5. QED
  BY <1>3, <1>4, CallbackEffect

\* A chunk that does not complete a reply leaves its lines in the reader as they are.
LEMMA ExactContinued ==
  ASSUME IInv, Exact, NEW bytes, NEW rest, Arrives(bytes, rest), Continues(Split(bytes))
  PROVE  Exact'
<1>1. /\ ReaderType /\ bytes \in Seq(Bytes) /\ bytes # <<>> /\ mishaps \subseteq mishaps'
      /\ IsPaired(wire') /\ UNCHANGED allMails
  BY ReaderIsTyped, ChunkClean, TearsGrow DEF IInv, Arrives, Continues
<1>2. /\ Len(Split(bytes)) = 1 \/ Len(Split(bytes)) >= 2
      /\ Len(Split(bytes)) >= 2 => Len(Split(bytes)) # 1
  BY <1>1, LinesOfChunk, OneOrMore
<1>3. ASSUME NEW G,
             Settled \in Seq(G),
             Len(Split(bytes)) >= 2 => LinesWith(Split(bytes)) \in Seq(G)
      PROVE  Settled' \in Seq(G)
  <2>1. Settled' = IF Len(Split(bytes)) = 1 THEN Settled ELSE LinesWith(Split(bytes))
    BY <1>1, KeptParts
  <2>2. QED
    BY <1>2, <1>3, <2>1
<1>4. ASSUME "lineEnd" \notin mishaps'
      PROVE  Settled' \in Seq(Clean) /\ (isLinePending' => Last(responseLines') \in Clean)
  <2>1. Settled \in Seq(Clean) /\ (isLinePending => Last(responseLines) \in Clean)
    BY <1>1, <1>4 DEF Exact
  <2>2. Split(bytes) \in Seq(Clean) /\ (Len(Split(bytes)) = 1 => bytes \in Clean)
    BY <1>4, ChunkClean
  <2>3. Settled' \in Seq(Clean)
    BY <1>3, <1>4, <2>1, ReadExact
  <2>4. ASSUME isLinePending'
        PROVE  Last(responseLines') \in Clean
    <3>1. Last(responseLines') = IF isLinePending /\ Len(Split(bytes)) = 1
                                 THEN Last(responseLines) \o bytes ELSE Last(Split(bytes))
      BY <1>1, <2>4, KeptParts
    <3>2. isLinePending /\ Len(Split(bytes)) = 1 => Last(responseLines) \o bytes \in Clean
      BY <2>1, <2>2, ConcatProperties DEF Clean
    <3>3. Last(Split(bytes)) \in Clean
      <4>1. Split(bytes) # <<>>
        BY <1>1, SplitType DEF Pieces
      <4>2. PICK lines \in Seq(Clean) : lines = Split(bytes)
        BY <2>2
      <4>3. QED
        BY <4>1, <4>2, FrontLast
    <3>4. QED
      BY <3>1, <3>2, <3>3
  <2>5. QED
    BY <2>3, <2>4
<1>5. ASSUME "twoDots" \notin mishaps'
      PROVE  Settled' \in Seq(Whole)
  BY <1>1, <1>3, <1>5, ReadExact DEF Exact
<1>6. QED
  BY <1>1, <1>4, <1>5 DEF Exact

\* The lines stay exact when a chunk arrives.
LEMMA ExactReceive == IInv /\ Exact /\ Receive => Exact'
<1>1. SUFFICES ASSUME IInv, Exact, Receive
               PROVE  Exact'
  OBVIOUS
<1>2. PICK bytes, rest : Handled(bytes, rest)
  BY <1>1, ReceiveHandles
<1>3. Arrives(bytes, rest) /\ IsPaired(wire') /\ mishaps \subseteq mishaps'
  BY <1>1, <1>2, ChunkClean, TearsGrow DEF Handled, Arrives
<1>4. CASE Callback(FALSE, <<>>)
  <2>1. /\ UNCHANGED allMails
        /\ \/ UNCHANGED <<isLinePending, responseLines>>
           \/ isLinePending' = FALSE /\ responseLines' = <<>>
    BY <1>4, CallbackEffect
  <2>2. QED
    BY <1>1, <1>3, <2>1, ExactFrame
<1>5. CASE UNCHANGED <<clientVars, requests>>
  BY <1>1, <1>3, <1>5, ExactFrame DEF clientVars, readerVars
<1>6. CASE /\ IsComplete(Split(bytes), LinesWith(Split(bytes)))
           /\ Callback(Verdict(LinesWith(Split(bytes))) = "ok", LinesWith(Split(bytes)))
  <2>1. PICK isOk \in BOOLEAN : isOk = (Verdict(LinesWith(Split(bytes))) = "ok")
    OBVIOUS
  <2>2. Callback(isOk, LinesWith(Split(bytes)))
    BY <1>6, <2>1
  <2>3. QED
    BY <1>1, <1>3, <1>6, <2>2, ExactCallback
<1>7. CASE Continues(Split(bytes))
  BY <1>1, <1>3, <1>7, ExactContinued
<1>8. QED
  BY <1>2, <1>4, <1>5, <1>6, <1>7 DEF Handled

\* The replies of the server have no line with a line end inside.
LEMMA RepliesAreClean ==
  ASSUME mailbox \in Mailboxes
  PROVE  /\ Positive \in Seq(Clean) /\ Negative \in Seq(Clean)
         /\ \A m \in Messages : Retrieved(m) \in Seq(Clean)
<1>1. Positive \in Seq(Clean) /\ Negative \in Seq(Clean)
  <2>1. <<"+OK">> \in Clean /\ <<"-ERR">> \in Clean
    BY DEF Clean, Within, Bytes
  <2> HIDE DEF Clean
  <2>2. QED
    BY <2>1 DEF Positive, Negative
<1>2. ASSUME NEW m \in Messages
      PROVE  Retrieved(m) \in Seq(Clean)
  <2>1. Retrieved(m) \in Seq(Seq(Bytes)) /\ IsUnbroken(Retrieved(m))
    BY RetrievedType
  <2>2. PICK lines \in Seq(Seq(Bytes)) : lines = Retrieved(m)
    BY <2>1
  <2>3. ASSUME NEW k \in 1..Len(lines)
        PROVE  lines[k] \in Clean
    <3>1. lines[k] \in Seq(Bytes)
      BY ElementOfSeq
    <3>2. \A i \in 1..Len(lines[k]) : lines[k][i] \in Bytes /\ lines[k][i] # "LF"
      <4>1. \A i \in 1..Len(lines[k]) : lines[k][i] # "LF"
        BY <2>1, <2>2 DEF IsUnbroken
      <4>2. \A i \in 1..Len(lines[k]) : lines[k][i] \in Bytes
        BY <3>1, ElementOfSeq
      <4>3. QED
        BY <4>1, <4>2
    <3>3. \A i \in 1..Len(lines[k]) : lines[k][i] \in Within(Bytes)
      BY <3>2 DEF Within
    <3>4. QED
      BY <3>1, <3>3, SeqWith DEF Clean
  <2>4. QED
    BY <2>2, <2>3, SeqWith
<1>3. QED
  BY <1>1, <1>2

\* What the server sends goes behind what is on its way.
LEMMA ExactSent ==
  ASSUME NEW lines \in Seq(Clean), NEW before \in Seq(Bytes), IsPaired(before)
  PROVE  IsPaired(before \o Join(lines)) /\ IsPaired(Join(lines))
<1>1. Clean \subseteq Seq(Bytes)
  BY DEF Clean, Within
<1>2. CRLF \in Seq(Bytes) /\ lines \in Seq(Seq(Bytes))
  BY <1>1, Texts
<1>3. Join(lines) \in Seq(Bytes)
  BY <1>2, JoinType
<1>4. IsPaired(Join(lines)) /\ BeginsWell(Join(lines))
  BY <1>2, JoinPaired DEF Clean
<1>5. QED
  BY <1>3, <1>4, PairedConcat

\* The lines stay exact when the server greets or answers.
LEMMA ExactAnswer == IInv /\ Exact /\ (Connect \/ Answer) => Exact'
<1>1. SUFFICES ASSUME IInv, Exact, Connect \/ Answer
               PROVE  Exact'
  OBVIOUS
<1>2. mailbox \in Mailboxes /\ wire \in Seq(Bytes) /\ IsPaired(wire)
  BY <1>1 DEF IInv, TypeOK, Exact
<1>3. UNCHANGED <<isLinePending, responseLines, allMails>> /\ mishaps \subseteq mishaps'
  BY <1>1 DEF Connect, Answer, clientVars, readerVars
<1>4. CASE Connect
  <2>1. PICK lines \in {Positive, Negative} : wire' = Join(lines)
    BY <1>4 DEF Connect
  <2>2. IsPaired(wire')
    BY <1>2, <2>1, RepliesAreClean, ExactSent
  <2>3. QED
    BY <1>1, <1>3, <2>2, ExactFrame
<1>5. CASE Answer
  <2>1. PICK lines : /\ wire' = wire \o Join(lines)
                     /\ lines \in {Positive, Negative} \cup {Retrieved(m) : m \in Messages}
    BY <1>5 DEF Answer
  <2>2. lines \in Seq(Clean)
    BY <1>2, <2>1, RepliesAreClean
  <2>3. IsPaired(wire')
    BY <1>2, <2>1, <2>2, ExactSent
  <2>4. QED
    BY <1>1, <1>3, <2>3, ExactFrame
<1>6. QED
  BY <1>1, <1>4, <1>5

\* The lines that are read are always those that were sent: every step of the reader, the
\* connection and the server keeps Exact.
THEOREM AlwaysExact == Spec => [](IInv /\ Exact)
<1>1. Init => Exact
  <2>1. Init => Settled = <<>> /\ ~isLinePending /\ wire = <<>> /\ allMails = <<>>
    BY DEF Init, Settled
  <2>2. QED
    BY <2>1 DEF Exact, IsPaired
<1>2. IInv /\ Exact /\ [Next]_vars => Exact'
  <2>1. SUFFICES ASSUME IInv, Exact, [Next]_vars
                 PROVE  Exact'
    OBVIOUS
  <2>2. CASE Receive
    BY <2>1, <2>2, ExactReceive
  <2>3. CASE Connect \/ Answer
    BY <2>1, <2>3, ExactAnswer
  <2>4. CASE Close \/ Return \/ UNCHANGED vars
    <3>1. UNCHANGED <<isLinePending, responseLines, allMails, wire, mishaps>>
      BY <2>4 DEF Close, Return, vars, clientVars, readerVars
    <3>2. QED
      BY <2>1, <3>1, ExactFrame DEF Exact
  <2>5. QED
    BY <2>1, <2>2, <2>3, <2>4 DEF Next
<1>3. QED
  BY <1>1, <1>2, Inductive, PTL DEF Spec

\* A message whose text has been read has been read line by line.
LEMMA ReadLineByLine ==
  ASSUME TypeOK, NEW m \in Messages, IsRead(m),
         allMails \in Seq(Seq(Clean)), allMails \in Seq(Seq(Whole))
  PROVE  allMails[m] = Content(m)
<1>1. PICK read : read = allMails[m]
  OBVIOUS
<1>2. PICK sent : sent = Retrieved(m)
  OBVIOUS
<1>3. m \in 1..Len(allMails) /\ Join(Stuffed(read)) = Join(sent)
  BY <1>1, <1>2 DEF IsRead
<1>4. read \in Seq(Clean) /\ read \in Seq(Whole)
  BY <1>1, <1>3, ElementOfSeq
<1>5. sent \in Seq(Clean)
  BY <1>2, RepliesAreClean DEF TypeOK
<1>6. /\ Stuffed(read) \in Seq(Clean) /\ Len(Stuffed(read)) = Len(read)
      /\ \A k \in 1..Len(read) :
           Stuffed(read)[k] = IF read[k] = <<".">> /\ k < Len(read) THEN <<".", ".">> ELSE read[k]
  <2>1. <<".", ".">> \in Clean
    BY DEF Clean, Within, Bytes
  <2>2. \A k \in 1..Len(read) : read[k] \in Clean
    BY <1>4, ElementOfSeq
  <2> HIDE DEF Clean
  <2>3. QED
    BY <1>4, <2>1, <2>2 DEF Stuffed
<1>7. Stuffed(read) = sent
  BY <1>3, <1>5, <1>6, JoinUnique, Texts DEF Clean
<1>8. Len(sent) = Len(read) /\ Len(read) \in Nat
  BY <1>4, <1>6, <1>7
<1>9. ASSUME NEW k \in 1..Len(read)
      PROVE  read[k] = IF sent[k] = <<".", ".">> THEN <<".">> ELSE sent[k]
  <2>1. read[k] # <<".", ".">>
    <3>1. read[k] \in Whole
      BY <1>4, ElementOfSeq
    <3>2. QED
      BY <3>1 DEF Whole
  <2>2. sent[k] = IF read[k] = <<".">> /\ k < Len(read) THEN <<".", ".">> ELSE read[k]
    BY <1>6, <1>7
  <2>3. QED
    BY <2>1, <2>2
<1>10. Content(m) = [k \in 1..Len(sent) |-> IF sent[k] = <<".", ".">> THEN <<".">> ELSE sent[k]]
  BY <1>2 DEF Content
<1>11. read = [k \in 1..Len(read) |-> IF sent[k] = <<".", ".">> THEN <<".">> ELSE sent[k]]
  <2>1. read = [k \in 1..Len(read) |-> read[k]]
    BY <1>4
  <2>2. QED
    BY <1>9, <2>1
<1>12. QED
  BY <1>1, <1>8, <1>10, <1>11

\* When getAll returns true, every message of the mailbox has been read from its beginning
\* to its end, and all are deleted if they were to be and none if not, unless a first line
\* was cut or a message was read as an answer; and the lines are those that the server sent,
\* one by one and with a dot for two, unless a chunk ended inside a line end or in a line
\* of two dots.
THEOREM TrueMeansAllHolds == Spec => []TrueMeansAll
<1>1. IInv /\ Exact => TrueMeansAll
  <2>1. SUFFICES ASSUME IInv, Exact, state = "returned", status,
                        "first" \notin mishaps, ~Deceived
                 PROVE  /\ Len(allMails) = Len(mailbox) /\ \A m \in Messages : IsRead(m)
                        /\ mishaps \cap {"lineEnd", "twoDots"} = {} =>
                             \A m \in Messages : allMails[m] = Content(m)
                        /\ deleted = IF doMarkForDeletion THEN Messages ELSE {}
    BY DEF TrueMeansAll
  <2>2. Chain /\ Mails /\ TypeOK
    BY <2>1 DEF IInv
  <2>3. command = "QUIT" /\ deleted = marked /\ ~Spoilt
    BY <2>1, <2>2 DEF Mails, Spoilt
  <2>4. number = Len(mailbox) /\ Len(allMails) = number
    BY <2>2, <2>3 DEF Chain
  <2>5. \A m \in 1..Len(allMails) : IsRead(m)
    BY <2>1, <2>2, <2>3 DEF Mails
  <2>6. marked = IF doMarkForDeletion THEN Messages ELSE {}
    BY <2>2, <2>3 DEF Chain
  <2>7. \A m \in Messages : IsRead(m)
    BY <2>4, <2>5 DEF Messages
  <2>8. ASSUME mishaps \cap {"lineEnd", "twoDots"} = {}
        PROVE  \A m \in Messages : allMails[m] = Content(m)
    <3>1. allMails \in Seq(Seq(Clean)) /\ allMails \in Seq(Seq(Whole))
      BY <2>1, <2>8 DEF Exact
    <3>2. QED
      BY <2>2, <2>7, <3>1, ReadLineByLine
  <2>9. QED
    BY <2>3, <2>4, <2>6, <2>7, <2>8
<1>2. QED
  BY <1>1, AlwaysExact, PTL

\* Every message that the server has deleted has been read to its end, unless a first
\* line was cut or a message was read as an answer.
THEOREM NothingIsLostHolds == Spec => []NothingIsLost
<1>1. IInv => NothingIsLost
  <2>1. SUFFICES ASSUME IInv, "first" \notin mishaps, ~Deceived, NEW m \in deleted
                 PROVE  IsRead(m)
    BY DEF NothingIsLost
  <2>2. Chain /\ Mails
    BY <2>1 DEF IInv
  <2>3. command = "QUIT" /\ m \in marked
    BY <2>1, <2>2 DEF Chain
  <2>4. doMarkForDeletion /\ m \in Messages
    BY <2>2, <2>3 DEF Chain
  <2>5. number = Len(mailbox) /\ Len(allMails) = number
    BY <2>2, <2>3 DEF Chain
  <2>6. ~Spoilt
    BY <2>3, <2>4 DEF Spoilt
  <2>7. m \in 1..Len(allMails)
    BY <2>4, <2>5 DEF Messages
  <2>8. QED
    BY <2>1, <2>2, <2>6, <2>7 DEF Mails
<1>2. QED
  BY <1>1, Inductive, PTL

\* The server deletes nothing before all messages are marked; and when it has deleted and
\* getAll does not return true, it refused a command, or the first line of an answer was
\* cut; unless a message was read as an answer.
THEOREM LeftOnServerHolds == Spec => []LeftOnServer
<1>1. IInv => LeftOnServer
  <2>1. SUFFICES ASSUME IInv, deleted # {}, ~Deceived
                 PROVE  /\ marked = Messages
                        /\ state = "returned" /\ ~status => mishaps \cap {"refused", "first"} # {}
    BY DEF LeftOnServer
  <2>2. Chain /\ deleted \subseteq Messages
    BY <2>1 DEF IInv, TypeOK
  <2>3. command = "QUIT" /\ doMarkForDeletion /\ marked = Messages
    BY <2>1, <2>2 DEF Chain
  <2>4. mailbox # <<>>
    <3>1. SUFFICES ASSUME mailbox = <<>>
                   PROVE  FALSE
      OBVIOUS
    <3>2. Len(mailbox) = 0
      BY <3>1
    <3>3. Messages = {}
      BY <3>2 DEF Messages
    <3>4. QED
      BY <2>1, <2>2, <3>3
  <2>5. state = "returned" /\ ~status => mishaps \cap {"refused", "first"} # {}
    BY <2>1, <2>3, <2>4 DEF IInv, Excuse, Reason
  <2>6. QED
    BY <2>3, <2>5
<1>2. QED
  BY <1>1, Inductive, PTL

\* getAll returns false only when the server refused a command, a reply was cut in its
\* first line, inside its last line end or at a dot, or the mailbox was empty.
THEOREM FailureHasAReasonHolds == Spec => []FailureHasAReason
<1>1. IInv => FailureHasAReason
  BY DEF IInv, Excuse, Reason, FailureHasAReason
<1>2. QED
  BY <1>1, Inductive, PTL
================================================================================

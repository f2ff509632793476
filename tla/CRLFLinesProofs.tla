---------------------------- MODULE CRLFLinesProofs ----------------------------
(***************************************************************************)
(* What Join and Split compute, for all lines and all bytes.  Both are      *)
(* recursive functions; that they exist, and every fact about them, is     *)
(* proved by induction.  The induction principles of the library take a    *)
(* predicate; the ones here take a set, which is all that is needed and    *)
(* follows from the well-foundedness of < on the naturals.                 *)
(***************************************************************************)
EXTENDS CRLFLines, WellFoundedInduction, SequenceTheorems, TLAPS

-----------------------------------------------------------------------------
(* Induction.                                                               *)

\* A set of numbers that is not empty has a least element.
LEMMA Least ==
  ASSUME NEW T \in SUBSET Nat, T # {}
  PROVE  \E n \in T : \A m \in T : n <= m
<1> DEFINE Below == {pair \in Nat \X Nat : pair[1] < pair[2]}
<1>1. IsWellFoundedOn(Below, Nat)
  BY NatLessThanWellFounded DEF OpToRel
<1>2. \E n \in T : \A m \in T : ~ (<<m, n>> \in Below)
  <2> HIDE DEF Below
  <2> QED BY <1>1, WFMin
<1>3. PICK n \in T : \A m \in T : ~ (m < n)
  BY <1>2
<1>4. QED
  BY <1>3

\* A set with 0 and the successors of its numbers has all numbers.
LEMMA Induction ==
  ASSUME NEW T, 0 \in T, \A n \in Nat : n \in T => n + 1 \in T
  PROVE  Nat \subseteq T
<1>1. SUFFICES ASSUME Nat \ T # {} PROVE FALSE
  OBVIOUS
<1>2. PICK n \in Nat \ T : \A m \in Nat \ T : n <= m
  BY <1>1, Least
<1>3. n # 0 /\ n - 1 \in Nat
  BY <1>2
<1>4. n - 1 \in T
  BY <1>2, <1>3
<1>5. QED
  BY <1>3, <1>4, <1>2

\* A set with <<>> and what its sequences become by appending has all sequences.
LEMMA SeqInduction ==
  ASSUME NEW S, NEW T, <<>> \in T, \A s \in Seq(S), e \in S : s \in T => Append(s, e) \in T
  PROVE  Seq(S) \subseteq T
<1> DEFINE D == {n \in Nat : \A s \in Seq(S) : Len(s) = n => s \in T}
<1>1. 0 \in D
  BY EmptySeq
<1>2. ASSUME NEW n \in Nat, n \in D PROVE n + 1 \in D
  <2>1. SUFFICES ASSUME NEW s \in Seq(S), Len(s) = n + 1 PROVE s \in T
    OBVIOUS
  <2>2. s # <<>>
    BY <2>1
  <2>3. PICK t \in Seq(S), e \in S : s = Append(t, e)
    BY <2>2, SequenceEmptyOrAppend
  <2>4. Len(t) = n
    BY <2>1, <2>3
  <2>5. QED
    BY <1>2, <2>3, <2>4
<1>3. Nat \subseteq D
  <2> HIDE DEF D
  <2> QED BY <1>1, <1>2, Induction
<1>4. QED
  BY <1>3

-----------------------------------------------------------------------------
(* Recursive functions.                                                     *)

\* f starts with base and goes on, up to n, as step says.
Follows(f, base, step, n) ==
  f[0] = base /\ \A k \in 1..n : f[k] = step[<<f[k - 1], k>>]

\* Every step from values to values is followed by some function.
LEMMA Recursion ==
  ASSUME NEW S, NEW base \in S, NEW step \in [S \X Nat -> S], NEW N \in Nat
  PROVE  \E f \in [0..N -> S] : Follows(f, base, step, N)
<1> DEFINE T == {n \in Nat : \E f \in [0..n -> S] : Follows(f, base, step, n)}
<1>1. 0 \in T
  <2>1. [k \in 0..0 |-> base] \in [0..0 -> S] /\ Follows([k \in 0..0 |-> base], base, step, 0)
    BY DEF Follows
  <2>2. QED
    BY <2>1
<1>2. ASSUME NEW n \in Nat, n \in T PROVE n + 1 \in T
  <2>1. PICK f \in [0..n -> S] : Follows(f, base, step, n)
    BY <1>2
  <2> DEFINE g == [k \in 0..(n + 1) |-> IF k = n + 1 THEN step[<<f[n], n + 1>>] ELSE f[k]]
  <2>2. g \in [0..(n + 1) -> S]
    BY <2>1
  <2>3. g[0] = base
    BY <2>1 DEF Follows
  <2>4. ASSUME NEW k \in 1..(n + 1) PROVE g[k] = step[<<g[k - 1], k>>]
    <3>1. k - 1 \in 0..n /\ g[k - 1] = f[k - 1]
      OBVIOUS
    <3>2. CASE k = n + 1
      <4>1. k - 1 = n /\ g[k] = step[<<f[n], n + 1>>]
        BY <3>2
      <4>2. QED
        BY <3>1, <3>2, <4>1
    <3>3. CASE k # n + 1
      <4>1. f[k] = step[<<f[k - 1], k>>]
        BY <2>1, <3>3 DEF Follows
      <4>2. g[k] = f[k]
        BY <3>3
      <4>3. QED
        BY <3>1, <4>1, <4>2
    <3>4. QED
      BY <3>2, <3>3
  <2>5. Follows(g, base, step, n + 1)
    <3> HIDE DEF g
    <3> QED BY <2>3, <2>4 DEF Follows
  <2>6. QED
    <3> HIDE DEF g
    <3> QED BY <2>2, <2>5
<1>3. Nat \subseteq T
  <2> HIDE DEF T
  <2> QED BY <1>1, <1>2, Induction
<1>4. QED
  BY <1>3

\* What goes on as step says from a value to a value has values only, and two
\* functions that do so up to m agree.
LEMMA FollowsType ==
  ASSUME NEW S, NEW base \in S, NEW step \in [S \X Nat -> S], NEW N \in Nat, NEW f,
         f[0] = base,
         \A n \in 1..N : f[n - 1] \in S => f[n] = step[<<f[n - 1], n>>]
  PROVE  /\ \A n \in 0..N : f[n] \in S
         /\ Follows(f, base, step, N)
<1> DEFINE T == {n \in Nat : n <= N => f[n] \in S}
<1>1. 0 \in T
  OBVIOUS
<1>2. ASSUME NEW n \in Nat, n \in T PROVE n + 1 \in T
  <2>1. SUFFICES ASSUME n + 1 <= N PROVE f[n + 1] \in S
    OBVIOUS
  <2>2. f[n] \in S /\ n + 1 \in 1..N /\ (n + 1) - 1 = n
    BY <1>2, <2>1
  <2>3. f[n + 1] = step[<<f[n], n + 1>>]
    BY <2>2
  <2>4. QED
    BY <2>2, <2>3
<1>3. Nat \subseteq T
  <2> HIDE DEF T
  <2> QED BY <1>1, <1>2, Induction
<1>4. \A n \in 0..N : f[n] \in S
  BY <1>3
<1>5. QED
  BY <1>4 DEF Follows

\* Two functions that go on from the same value, by steps that agree on all values,
\* end in the same value.
LEMMA FollowsUnique ==
  ASSUME NEW S, NEW base \in S, NEW step, NEW f, NEW other, NEW g, NEW N \in Nat,
         Follows(f, base, step, N), Follows(g, base, other, N),
         \A n \in 1..N, s \in S : step[<<s, n>>] = other[<<s, n>>],
         \A n \in 0..N : f[n] \in S
  PROVE  f[N] = g[N]
<1> DEFINE T == {n \in Nat : n <= N => f[n] = g[n]}
<1>1. 0 \in T
  BY DEF Follows
<1>2. ASSUME NEW n \in Nat, n \in T PROVE n + 1 \in T
  <2>1. SUFFICES ASSUME n + 1 <= N PROVE f[n + 1] = g[n + 1]
    OBVIOUS
  <2>2. f[n] = g[n] /\ f[n] \in S /\ n + 1 \in 1..N /\ (n + 1) - 1 = n
    BY <1>2, <2>1
  <2>3. f[n + 1] = step[<<f[n], n + 1>>] /\ g[n + 1] = other[<<g[n], n + 1>>]
    BY <2>2 DEF Follows
  <2>4. QED
    BY <2>2, <2>3
<1>3. Nat \subseteq T
  <2> HIDE DEF T
  <2> QED BY <1>1, <1>2, Induction
<1>4. QED
  BY <1>3

-----------------------------------------------------------------------------
(* Concatenations.                                                          *)

\* How concatenations are regrouped.
AreSame(s, t) == s = t

\* Three parts.
LEMMA Regroup1 ==
  ASSUME NEW B, NEW x \in Seq(B), NEW y \in Seq(B), NEW z \in Seq(B)
  PROVE  AreSame((x \o y) \o z, x \o (y \o z))
BY ConcatAssociative DEF AreSame

\* Four parts, of which the first is set apart.
LEMMA Regroup2 ==
  ASSUME NEW B, NEW x \in Seq(B), NEW y \in Seq(B), NEW m \in Seq(B), NEW z \in Seq(B)
  PROVE  AreSame(((x \o y) \o m) \o z, x \o ((y \o m) \o z))
<1>1. PICK w \in Seq(B) : w = y \o m
  BY ConcatProperties
<1>2. (x \o y) \o m = x \o (y \o m)
  OBVIOUS
<1>3. (x \o w) \o z = x \o (w \o z)
  <2> HIDE <1>1, <1>2
  <2> QED OBVIOUS
<1>4. QED
  BY <1>1, <1>2, <1>3 DEF AreSame

\* Four parts, in pairs.
LEMMA Regroup3 ==
  ASSUME NEW B, NEW d \in Seq(B), NEW e \in Seq(B), NEW l \in Seq(B), NEW c \in Seq(B)
  PROVE  AreSame(d \o ((e \o l) \o c), (d \o e) \o (l \o c))
<1>1. PICK w \in Seq(B) : w = l \o c
  BY ConcatProperties
<1>2. (e \o l) \o c = e \o (l \o c)
  OBVIOUS
<1>3. d \o (e \o w) = (d \o e) \o w
  <2> HIDE <1>1, <1>2
  <2> QED OBVIOUS
<1>4. QED
  BY <1>1, <1>2, <1>3 DEF AreSame

\* Six parts: what is done, and the rest.
LEMMA Regroup4 ==
  ASSUME NEW B, NEW d \in Seq(B), NEW e \in Seq(B), NEW l \in Seq(B), NEW c \in Seq(B),
         NEW m \in Seq(B), NEW z \in Seq(B)
  PROVE  AreSame(((d \o ((e \o l) \o c)) \o m) \o z, (d \o e) \o (((l \o c) \o m) \o z))
<1>1. PICK x \in Seq(B) : x = d \o e
  BY ConcatProperties
<1>2. PICK y \in Seq(B) : y = l \o c
  BY ConcatProperties
<1>3. d \o ((e \o l) \o c) = x \o y
  <2>1. AreSame(d \o ((e \o l) \o c), (d \o e) \o (l \o c))
    BY Regroup3, Zenon
  <2>2. QED
    BY <1>1, <1>2, <2>1 DEF AreSame
<1>4. AreSame(((x \o y) \o m) \o z, x \o ((y \o m) \o z))
  BY Regroup2, Zenon
<1>5. QED
  BY <1>1, <1>2, <1>3, <1>4 DEF AreSame

-----------------------------------------------------------------------------
(* Join.                                                                    *)

\* A step of Join: the text so far, the next line and its end.
JoinStep(lines, B) ==
  [pair \in Seq(B) \X Nat |->
     IF pair[2] \in 1..Len(lines) THEN pair[1] \o lines[pair[2]] \o CRLF ELSE <<>>]

\* A step of Join leads from texts to texts.
LEMMA JoinStepType ==
  ASSUME NEW B, CRLF \in Seq(B), NEW lines \in Seq(Seq(B))
  PROVE  JoinStep(lines, B) \in [Seq(B) \X Nat -> Seq(B)]
<1>1. SUFFICES ASSUME NEW pair \in Seq(B) \X Nat, pair[2] \in 1..Len(lines)
               PROVE  pair[1] \o lines[pair[2]] \o CRLF \in Seq(B)
  BY EmptySeq DEF JoinStep
<1>2. pair[1] \in Seq(B) /\ lines[pair[2]] \in Seq(B)
  BY <1>1, ElementOfSeq
<1>3. QED
  BY <1>2, ConcatProperties

\* What a step of Join adds to a text: a line and its end.
LEMMA JoinStepAt ==
  ASSUME NEW B, NEW lines \in Seq(Seq(B)), NEW s \in Seq(B), NEW n \in 1..Len(lines)
  PROVE  JoinStep(lines, B)[<<s, n>>] = s \o lines[n] \o CRLF
<1>1. <<s, n>> \in Seq(B) \X Nat /\ <<s, n>>[1] = s /\ <<s, n>>[2] = n
  OBVIOUS
<1>2. JoinStep(lines, B)[<<s, n>>] =
        IF n \in 1..Len(lines) THEN s \o lines[n] \o CRLF ELSE <<>>
  BY <1>1, Zenon DEF JoinStep
<1>3. QED
  BY <1>2, Zenon

\* Join is the last value of a function that goes on as its steps say, so that the
\* recursive definition of Join denotes what it says.
LEMMA JoinFollows ==
  ASSUME NEW B, CRLF \in Seq(B), NEW lines \in Seq(Seq(B))
  PROVE  \E f : /\ Join(lines) = f[Len(lines)]
                /\ Follows(f, <<>>, JoinStep(lines, B), Len(lines))
                /\ \A n \in 0..Len(lines) : f[n] \in Seq(B)
<1> DEFINE N == Len(lines)
           text == CHOOSE text : text = [n \in 0..N |->
                     IF n = 0 THEN <<>> ELSE text[n - 1] \o lines[n] \o CRLF]
<1>1. N \in Nat /\ <<>> \in Seq(B) /\ JoinStep(lines, B) \in [Seq(B) \X Nat -> Seq(B)]
  <2>1. N \in Nat /\ <<>> \in Seq(B)
    OBVIOUS
  <2>2. QED
    BY <2>1, JoinStepType, Zenon
<1>2. ASSUME NEW s \in Seq(B), NEW n \in 1..N
      PROVE  JoinStep(lines, B)[<<s, n>>] = s \o lines[n] \o CRLF
  BY JoinStepAt
<1>3. PICK h \in [0..N -> Seq(B)] : Follows(h, <<>>, JoinStep(lines, B), N)
  BY <1>1, Recursion
<1>4. h = [n \in 0..N |-> IF n = 0 THEN <<>> ELSE h[n - 1] \o lines[n] \o CRLF]
  <2>1. SUFFICES ASSUME NEW n \in 0..N
                 PROVE  h[n] = IF n = 0 THEN <<>> ELSE h[n - 1] \o lines[n] \o CRLF
    OBVIOUS
  <2>2. CASE n = 0
    BY <1>3, <2>2 DEF Follows
  <2>3. CASE n # 0
    <3>1. n \in 1..N /\ n - 1 \in 0..N
      BY <1>1, <2>3
    <3>2. h[n] = JoinStep(lines, B)[<<h[n - 1], n>>]
      BY <1>3, <3>1 DEF Follows
    <3>3. h[n - 1] \in Seq(B)
      BY <3>1
    <3>4. QED
      BY <1>2, <2>3, <3>1, <3>2, <3>3, Zenon
  <2>4. QED
    BY <2>2, <2>3
<1>5. text = [n \in 0..N |-> IF n = 0 THEN <<>> ELSE text[n - 1] \o lines[n] \o CRLF]
  BY <1>4
<1>6. Join(lines) = text[N]
  BY DEF Join
<1> HIDE DEF text
<1>7. text[0] = <<>>
  BY <1>1, <1>5
<1>8. ASSUME NEW n \in 1..N, text[n - 1] \in Seq(B)
      PROVE  text[n] = JoinStep(lines, B)[<<text[n - 1], n>>]
  <2>1. n \in 0..N /\ n # 0
    OBVIOUS
  <2>2. text[n] = text[n - 1] \o lines[n] \o CRLF
    BY <1>5, <2>1, Zenon
  <2>3. QED
    BY <1>2, <1>8, <2>2, Zenon
<1>9. /\ \A n \in 0..N : text[n] \in Seq(B)
      /\ Follows(text, <<>>, JoinStep(lines, B), N)
  BY <1>1, <1>7, <1>8, FollowsType
<1>10. QED
  BY <1>6, <1>9

\* The text of lines is a sequence of bytes.
LEMMA JoinType ==
  ASSUME NEW B, CRLF \in Seq(B), NEW lines \in Seq(Seq(B))
  PROVE  Join(lines) \in Seq(B)
BY JoinFollows, LenProperties

\* No line has no text, and one line more has its text and its end more.
LEMMA JoinEmpty == Join(<<>>) = <<>>
<1>1. CRLF \in Seq({"CR", "LF"}) /\ <<>> \in Seq(Seq({"CR", "LF"}))
  BY DEF CRLF
<1>2. Len(<<>>) = 0
  BY EmptySeq
<1>3. QED
  BY <1>1, <1>2, JoinFollows DEF Follows

\* One line more adds the line and its end to the text.
LEMMA JoinAppend ==
  ASSUME NEW B, CRLF \in Seq(B), NEW lines \in Seq(Seq(B)), NEW line \in Seq(B)
  PROVE  Join(Append(lines, line)) = Join(lines) \o line \o CRLF
<1> DEFINE N == Len(lines)
           more == Append(lines, line)
<1>1. /\ more \in Seq(Seq(B)) /\ Len(more) = N + 1 /\ more[N + 1] = line
      /\ \A n \in 1..N : more[n] = lines[n]
  BY AppendProperties
<1>2. PICK f : /\ Join(lines) = f[N]
               /\ Follows(f, <<>>, JoinStep(lines, B), N)
               /\ \A n \in 0..N : f[n] \in Seq(B)
  BY JoinFollows
<1>3. PICK g : /\ Join(more) = g[N + 1]
               /\ Follows(g, <<>>, JoinStep(more, B), N + 1)
               /\ \A n \in 0..(N + 1) : g[n] \in Seq(B)
  <2> HIDE DEF more
  <2> QED BY <1>1, JoinFollows
<1> HIDE DEF more
<1>4. N \in Nat /\ <<>> \in Seq(B)
  OBVIOUS
<1>5. Follows(g, <<>>, JoinStep(more, B), N)
  BY <1>3, <1>4 DEF Follows
<1>6. \A n \in 1..N, s \in Seq(B) :
        JoinStep(lines, B)[<<s, n>>] = JoinStep(more, B)[<<s, n>>]
  <2>1. SUFFICES ASSUME NEW n \in 1..N, NEW s \in Seq(B)
                 PROVE  JoinStep(lines, B)[<<s, n>>] = JoinStep(more, B)[<<s, n>>]
    OBVIOUS
  <2>2. n \in 1..Len(more) /\ more[n] = lines[n]
    <3>1. n \in Nat /\ 1 <= n /\ n <= N
      BY <1>4
    <3>2. 1..(N + 1) = 1..Len(more) /\ more[n] = lines[n]
      BY <1>1
    <3> HIDE DEF N
    <3>3. n \in 1..(N + 1)
      BY <1>4, <3>1
    <3>4. QED
      BY <3>2, <3>3
  <2>3. JoinStep(lines, B)[<<s, n>>] = s \o lines[n] \o CRLF
    BY JoinStepAt
  <2>4. JoinStep(more, B)[<<s, n>>] = s \o more[n] \o CRLF
    BY <1>1, <2>2, JoinStepAt, Zenon
  <2>5. QED
    BY <2>2, <2>3, <2>4, Zenon
<1>7. f[N] = g[N]
  <2> DEFINE S == Seq(B)
             step == JoinStep(lines, B)
             other == JoinStep(more, B)
  <2>1. <<>> \in S /\ N \in Nat /\ Follows(f, <<>>, step, N) /\ Follows(g, <<>>, other, N)
    BY <1>2, <1>4, <1>5
  <2>2. \A n \in 1..N, s \in S : step[<<s, n>>] = other[<<s, n>>]
    BY <1>6
  <2>3. \A n \in 0..N : f[n] \in S
    BY <1>2
  <2> HIDE DEF S, step, other, N
  <2>4. QED
    BY <2>1, <2>2, <2>3, FollowsUnique, SMTT(20)
<1>8. g[N + 1] = JoinStep(more, B)[<<g[N], N + 1>>]
  <2>1. N + 1 \in 1..(N + 1) /\ (N + 1) - 1 = N
    BY <1>4
  <2>2. g[N + 1] = JoinStep(more, B)[<<g[(N + 1) - 1], N + 1>>]
    BY <1>3, <2>1 DEF Follows
  <2>3. QED
    BY <2>1, <2>2, Zenon
<1>9. JoinStep(more, B)[<<g[N], N + 1>>] = g[N] \o line \o CRLF
  <2>1. g[N] \in Seq(B) /\ N + 1 \in 1..Len(more)
    BY <1>1, <1>3, <1>4
  <2>2. JoinStep(more, B)[<<g[N], N + 1>>] = g[N] \o more[N + 1] \o CRLF
    BY <1>1, <2>1, JoinStepAt, Zenon
  <2>3. QED
    BY <1>1, <2>2, Zenon
<1>10. QED
  BY <1>2, <1>3, <1>7, <1>8, <1>9, Zenon DEF more

-----------------------------------------------------------------------------
(* Split.                                                                   *)

\* One line at least, the last of which may go on.
Pieces(B) == Seq(Seq(B)) \ {<<>>}

\* All lines but the last one, and the last one.
LEMMA FrontLast ==
  ASSUME NEW S, NEW s \in Seq(S), s # <<>>
  PROVE  /\ Front(s) \in Seq(S) /\ Last(s) \in S
         /\ Len(Front(s)) = Len(s) - 1 /\ Len(s) \in Nat \ {0}
         /\ \A k \in 1..(Len(s) - 1) : Front(s)[k] = s[k]
         /\ s = Append(Front(s), Last(s))
         /\ s = Front(s) \o <<Last(s)>>
<1>1. Len(s) \in Nat \ {0}
  BY EmptySeq
<1>2. Front(s) \in Seq(S) /\ Len(Front(s)) = Len(s) - 1
      /\ \A k \in 1..(Len(s) - 1) : Front(s)[k] = s[k]
  <2> DEFINE n == Len(s) - 1
  <2>1. n \in Int /\ n >= 0 /\ \A i \in 1..n : s[i] \in S
    BY <1>1, ElementOfSeq
  <2>2. /\ SubSeq(s, 1, n) \in Seq(S)
        /\ Len(SubSeq(s, 1, n)) = IF 1 <= n THEN n - 1 + 1 ELSE 0
        /\ \A i \in 1..(n - 1 + 1) : SubSeq(s, 1, n)[i] = s[1 + i - 1]
    <3> HIDE DEF n
    <3> QED BY <2>1, SubSeqProperties
  <2>3. Len(SubSeq(s, 1, n)) = n /\ \A i \in 1..n : SubSeq(s, 1, n)[i] = s[i]
    <3>1. n - 1 + 1 = n /\ \A i \in 1..n : 1 + i - 1 = i
      BY <2>1
    <3> HIDE DEF n
    <3>2. Len(SubSeq(s, 1, n)) = n
      BY <2>1, <2>2
    <3>3. ASSUME NEW i \in 1..n PROVE SubSeq(s, 1, n)[i] = s[i]
      <4>1. SubSeq(s, 1, n)[i] = s[1 + i - 1]
        BY <2>2, <3>1
      <4>2. QED
        BY <3>1, <4>1, Zenon
    <3>4. QED
      BY <3>2, <3>3
  <2>4. QED
    BY <2>2, <2>3, Zenon DEF Front
<1>3. Last(s) \in S
  BY <1>1 DEF Last
<1>4. Append(Front(s), Last(s)) \in Seq(S)
  BY <1>2, <1>3
<1>5. s = Append(Front(s), Last(s))
  <2>1. Len(Append(Front(s), Last(s))) = Len(s)
    BY <1>1, <1>2, <1>3, AppendProperties
  <2>2. ASSUME NEW k \in 1..Len(s) PROVE s[k] = Append(Front(s), Last(s))[k]
    <3>1. CASE k = Len(s)
      BY <1>1, <1>2, <1>3, <3>1, AppendProperties DEF Last
    <3>2. CASE k # Len(s)
      BY <1>1, <1>2, <1>3, <3>2, AppendProperties
    <3>3. QED
      BY <3>1, <3>2
  <2>3. QED
    BY <1>4, <2>1, <2>2, SeqEqual
<1>6. s = Front(s) \o <<Last(s)>>
  BY <1>2, <1>3, <1>5, AppendIsConcat
<1>7. QED
  BY <1>1, <1>2, <1>3, <1>5, <1>6

\* What has been appended is the last element, and the rest is the front.
LEMMA FrontLastOfAppend ==
  ASSUME NEW S, NEW s \in Seq(S), NEW e \in S
  PROVE  Front(Append(s, e)) = s /\ Last(Append(s, e)) = e
<1> DEFINE t == Append(s, e)
<1>1. t \in Seq(S) /\ t # <<>> /\ Len(t) = Len(s) + 1 /\ t[Len(s) + 1] = e
  BY AppendProperties
<1>2. t = Append(Front(t), Last(t)) /\ Front(t) \in Seq(S) /\ Last(t) \in S
  <2> HIDE DEF t
  <2> QED BY <1>1, FrontLast
<1>3. QED
  BY <1>2, AppendInjective

\* A byte more leaves one line at least.
LEMMA AddByteType ==
  ASSUME NEW B, NEW lines \in Pieces(B), NEW byte \in B
  PROVE  AddByte(lines, byte) \in Pieces(B)
<1>1. lines \in Seq(Seq(B)) /\ lines # <<>>
  BY DEF Pieces
<1>2. Front(lines) \in Seq(Seq(B)) /\ Last(lines) \in Seq(B)
  BY <1>1, FrontLast
<1>3. CASE EndsLine(lines, byte)
  <2>1. Last(lines) # <<>>
    BY <1>3 DEF EndsLine
  <2>2. Front(Last(lines)) \in Seq(B)
    BY <1>2, <2>1, FrontLast
  <2>3. Append(Front(lines), Front(Last(lines))) \in Seq(Seq(B))
    BY <1>2, <2>2, AppendProperties
  <2>4. << <<>> >> \in Seq(Seq(B)) /\ Len(<< <<>> >>) = 1
    OBVIOUS
  <2>5. Append(Front(lines), Front(Last(lines))) \o << <<>> >> \in Pieces(B)
    BY <2>3, <2>4, ConcatProperties, ConcatEqualIffEmpty DEF Pieces
  <2>6. QED
    BY <1>3, <2>5 DEF AddByte
<1>4. CASE ~EndsLine(lines, byte)
  <2>1. Append(Last(lines), byte) \in Seq(B)
    BY <1>2, AppendProperties
  <2>2. Append(Front(lines), Append(Last(lines), byte)) \in Pieces(B)
    <3> DEFINE L == Seq(B)
               front == Front(lines)
               line == Append(Last(lines), byte)
    <3>1. front \in Seq(L) /\ line \in L
      BY <1>2, <2>1
    <3> HIDE DEF L, front, line
    <3>2. Append(front, line) \in Seq(L) /\ Append(front, line) # <<>>
      BY <3>1, AppendProperties
    <3>3. QED
      BY <3>2, Zenon DEF Pieces, L, front, line
  <2>3. QED
    BY <1>4, <2>2 DEF AddByte
<1>5. QED
  BY <1>3, <1>4

\* A step of Split: the lines so far, and the next byte.
SplitStep(bytes, B) ==
  [pair \in Pieces(B) \X Nat |->
     IF pair[2] \in 1..Len(bytes) THEN AddByte(pair[1], bytes[pair[2]]) ELSE << <<>> >>]

\* What a step of Split does with a byte.
LEMMA SplitStepAt ==
  ASSUME NEW B, NEW bytes \in Seq(B), NEW s \in Pieces(B), NEW n \in 1..Len(bytes)
  PROVE  SplitStep(bytes, B)[<<s, n>>] = AddByte(s, bytes[n])
<1>1. <<s, n>> \in Pieces(B) \X Nat /\ <<s, n>>[1] = s /\ <<s, n>>[2] = n
  OBVIOUS
<1>2. SplitStep(bytes, B)[<<s, n>>] =
        IF n \in 1..Len(bytes) THEN AddByte(s, bytes[n]) ELSE << <<>> >>
  BY <1>1, Zenon DEF SplitStep
<1>3. QED
  BY <1>2, Zenon

\* Where Split starts: one line that is empty.
LEMMA OnePieceType ==
  ASSUME NEW B
  PROVE  << <<>> >> \in Pieces(B)
<1>1. << <<>> >> \in Seq(Seq(B)) /\ Len(<< <<>> >>) = 1
  OBVIOUS
<1>2. QED
  BY <1>1 DEF Pieces

\* A step of Split leads from pieces to pieces.
LEMMA SplitStepType ==
  ASSUME NEW B, NEW bytes \in Seq(B)
  PROVE  SplitStep(bytes, B) \in [Pieces(B) \X Nat -> Pieces(B)]
<1>1. SUFFICES ASSUME NEW pair \in Pieces(B) \X Nat, pair[2] \in 1..Len(bytes)
               PROVE  AddByte(pair[1], bytes[pair[2]]) \in Pieces(B)
  BY OnePieceType DEF SplitStep
<1>2. pair[1] \in Pieces(B) /\ bytes[pair[2]] \in B
  BY <1>1, ElementOfSeq
<1>3. QED
  BY <1>2, AddByteType

\* Split is the last value of a function that goes on as its steps say, so that the
\* recursive definition of Split denotes what it says.
LEMMA SplitFollows ==
  ASSUME NEW B, NEW bytes \in Seq(B)
  PROVE  \E f : /\ Split(bytes) = f[Len(bytes)]
                /\ Follows(f, << <<>> >>, SplitStep(bytes, B), Len(bytes))
                /\ \A n \in 0..Len(bytes) : f[n] \in Pieces(B)
<1> DEFINE N == Len(bytes)
           one == << <<>> >>
           lines == CHOOSE lines : lines = [n \in 0..N |->
                      IF n = 0 THEN << <<>> >> ELSE AddByte(lines[n - 1], bytes[n])]
<1>1. N \in Nat /\ one \in Pieces(B)
      /\ SplitStep(bytes, B) \in [Pieces(B) \X Nat -> Pieces(B)]
  <2>1. N \in Nat
    OBVIOUS
  <2>2. QED
    BY <2>1, OnePieceType, SplitStepType, Zenon
<1>2. ASSUME NEW s \in Pieces(B), NEW n \in 1..N
      PROVE  SplitStep(bytes, B)[<<s, n>>] = AddByte(s, bytes[n])
  BY SplitStepAt
<1>3. PICK h \in [0..N -> Pieces(B)] : Follows(h, one, SplitStep(bytes, B), N)
  <2> HIDE DEF one, N
  <2> QED BY <1>1, Recursion
<1>4. h = [n \in 0..N |-> IF n = 0 THEN << <<>> >> ELSE AddByte(h[n - 1], bytes[n])]
  <2>1. SUFFICES ASSUME NEW n \in 0..N
                 PROVE  h[n] = IF n = 0 THEN one ELSE AddByte(h[n - 1], bytes[n])
    BY Zenon
  <2>2. CASE n = 0
    <3>1. h[0] = one
      BY <1>3, Zenon DEF Follows
    <3>2. QED
      BY <2>2, <3>1, Zenon
  <2>3. CASE n # 0
    <3>1. n \in 1..N /\ n - 1 \in 0..N
      BY <1>1, <2>3
    <3>2. h[n] = SplitStep(bytes, B)[<<h[n - 1], n>>]
      BY <1>3, <3>1 DEF Follows
    <3>3. h[n - 1] \in Pieces(B)
      BY <3>1
    <3>4. QED
      BY <1>2, <2>3, <3>1, <3>2, <3>3, Zenon
  <2>4. QED
    BY <2>2, <2>3
<1>5. lines = [n \in 0..N |-> IF n = 0 THEN << <<>> >> ELSE AddByte(lines[n - 1], bytes[n])]
  BY <1>4
<1>6. Split(bytes) = lines[N]
  BY DEF Split
<1> HIDE DEF lines
<1>7. lines[0] = one
  BY <1>1, <1>5
<1>8. ASSUME NEW n \in 1..N, lines[n - 1] \in Pieces(B)
      PROVE  lines[n] = SplitStep(bytes, B)[<<lines[n - 1], n>>]
  <2>1. n \in 0..N /\ n # 0
    BY <1>1
  <2>2. lines[n] = AddByte(lines[n - 1], bytes[n])
    BY <1>5, <2>1, Zenon
  <2>3. QED
    BY <1>2, <1>8, <2>2, Zenon
<1>9. /\ \A n \in 0..N : lines[n] \in Pieces(B)
      /\ Follows(lines, one, SplitStep(bytes, B), N)
  <2> DEFINE S == Pieces(B)
             step == SplitStep(bytes, B)
  <2>1. one \in S /\ N \in Nat /\ step \in [S \X Nat -> S] /\ lines[0] = one
    BY <1>1, <1>7
  <2>2. \A n \in 1..N : lines[n - 1] \in S => lines[n] = step[<<lines[n - 1], n>>]
    BY <1>8
  <2> HIDE DEF S, step, N, one
  <2>3. (\A n \in 0..N : lines[n] \in S) /\ Follows(lines, one, step, N)
    BY <2>1, <2>2, FollowsType, ZenonT(40)
  <2>4. QED
    BY <2>3 DEF S, step
<1>10. QED
  BY <1>6, <1>9

\* A chunk is split into one line at least.
LEMMA SplitType ==
  ASSUME NEW B, NEW bytes \in Seq(B)
  PROVE  Split(bytes) \in Pieces(B)
<1>1. Len(bytes) \in 0..Len(bytes)
  OBVIOUS
<1>2. QED
  BY <1>1, SplitFollows

\* No byte is one empty line, and one byte more is added to the last line.
LEMMA SplitEmpty == Split(<<>>) = << <<>> >>
<1>1. <<>> \in Seq({"CR", "LF"}) /\ Len(<<>>) = 0
  BY EmptySeq
<1>2. QED
  BY <1>1, SplitFollows DEF Follows

\* A byte more is added to the lines of the chunk.
LEMMA SplitAppend ==
  ASSUME NEW B, NEW bytes \in Seq(B), NEW byte \in B
  PROVE  Split(Append(bytes, byte)) = AddByte(Split(bytes), byte)
<1> DEFINE N == Len(bytes)
           one == << <<>> >>
           more == Append(bytes, byte)
<1>1. /\ more \in Seq(B) /\ Len(more) = N + 1 /\ more[N + 1] = byte
      /\ \A n \in 1..N : more[n] = bytes[n]
  BY AppendProperties
<1>2. PICK f : /\ Split(bytes) = f[N]
               /\ Follows(f, one, SplitStep(bytes, B), N)
               /\ \A n \in 0..N : f[n] \in Pieces(B)
  BY SplitFollows
<1>3. PICK g : /\ Split(more) = g[N + 1]
               /\ Follows(g, one, SplitStep(more, B), N + 1)
               /\ \A n \in 0..(N + 1) : g[n] \in Pieces(B)
  <2> HIDE DEF more
  <2> QED BY <1>1, SplitFollows
<1> HIDE DEF more
<1>4. N \in Nat /\ one \in Pieces(B)
  BY OnePieceType
<1>5. Follows(g, one, SplitStep(more, B), N)
  <2> HIDE DEF one
  <2> QED BY <1>3, <1>4 DEF Follows
<1>6. \A n \in 1..N, s \in Pieces(B) :
        SplitStep(bytes, B)[<<s, n>>] = SplitStep(more, B)[<<s, n>>]
  <2>1. SUFFICES ASSUME NEW n \in 1..N, NEW s \in Pieces(B)
                 PROVE  SplitStep(bytes, B)[<<s, n>>] = SplitStep(more, B)[<<s, n>>]
    OBVIOUS
  <2>2. n \in 1..Len(more) /\ more[n] = bytes[n]
    BY <1>1, <1>4
  <2>3. SplitStep(bytes, B)[<<s, n>>] = AddByte(s, bytes[n])
    BY SplitStepAt
  <2>4. SplitStep(more, B)[<<s, n>>] = AddByte(s, more[n])
    BY <1>1, <2>2, SplitStepAt, Zenon
  <2>5. QED
    BY <2>2, <2>3, <2>4, Zenon
<1>7. f[N] = g[N]
  <2> DEFINE S == Pieces(B)
             step == SplitStep(bytes, B)
             other == SplitStep(more, B)
  <2>1. one \in S /\ N \in Nat /\ Follows(f, one, step, N) /\ Follows(g, one, other, N)
    BY <1>2, <1>4, <1>5
  <2>2. \A n \in 1..N, s \in S : step[<<s, n>>] = other[<<s, n>>]
    BY <1>6
  <2>3. \A n \in 0..N : f[n] \in S
    BY <1>2
  <2> HIDE DEF S, step, other, N, one
  <2>4. QED
    BY <2>1, <2>2, <2>3, FollowsUnique
<1>8. g[N + 1] = SplitStep(more, B)[<<g[N], N + 1>>]
  <2>1. N + 1 \in 1..(N + 1) /\ (N + 1) - 1 = N
    BY <1>4
  <2>2. g[N + 1] = SplitStep(more, B)[<<g[(N + 1) - 1], N + 1>>]
    BY <1>3, <2>1 DEF Follows
  <2>3. QED
    BY <2>1, <2>2, Zenon
<1>9. SplitStep(more, B)[<<g[N], N + 1>>] = AddByte(g[N], byte)
  <2>1. g[N] \in Pieces(B) /\ N + 1 \in 1..Len(more)
    BY <1>1, <1>3, <1>4
  <2>2. SplitStep(more, B)[<<g[N], N + 1>>] = AddByte(g[N], more[N + 1])
    BY <1>1, <2>1, SplitStepAt, Zenon
  <2>3. QED
    BY <1>1, <2>2, Zenon
<1>10. QED
  BY <1>2, <1>3, <1>7, <1>8, <1>9, Zenon DEF more

-----------------------------------------------------------------------------
(* What the lines are.                                                      *)

\* The elements of a concatenation.
LEMMA ConcatAt ==
  ASSUME NEW B, NEW s \in Seq(B), NEW t \in Seq(B)
  PROVE  /\ s \o t \in Seq(B)
         /\ Len(s \o t) = Len(s) + Len(t) /\ Len(s) \in Nat /\ Len(t) \in Nat
         /\ \A i \in 1..Len(s) : (s \o t)[i] = s[i]
         /\ \A i \in 1..Len(t) : (s \o t)[Len(s) + i] = t[i]
<1>1. Len(s) \in Nat /\ Len(t) \in Nat
  OBVIOUS
<1>2. ASSUME NEW i \in 1..Len(s) PROVE (s \o t)[i] = s[i]
  BY <1>1, ConcatProperties
<1>3. ASSUME NEW i \in 1..Len(t) PROVE (s \o t)[Len(s) + i] = t[i]
  <2>1. Len(s) + i \in 1..(Len(s) + Len(t)) /\ ~(Len(s) + i <= Len(s))
        /\ Len(s) + i - Len(s) = i
    BY <1>1
  <2>2. QED
    BY <2>1, ConcatProperties
<1>4. QED
  BY <1>1, <1>2, <1>3, ConcatProperties

\* The text of lines and more lines is the one text behind the other.
LEMMA JoinConcat ==
  ASSUME NEW B, CRLF \in Seq(B), NEW before \in Seq(Seq(B)), NEW after \in Seq(Seq(B))
  PROVE  Join(before \o after) = Join(before) \o Join(after)
<1> DEFINE L == Seq(B)
           T == {s \in Seq(L) : Join(before \o s) = Join(before) \o Join(s)}
<1>1. <<>> \in T
  <2>1. before \o <<>> = before /\ Join(before) \o <<>> = Join(before) /\ <<>> \in Seq(L)
    BY JoinType, ConcatEmptySeq
  <2>2. QED
    BY <2>1, JoinEmpty
<1>2. ASSUME NEW s \in Seq(L), NEW e \in L, s \in T PROVE Append(s, e) \in T
  <2>1. before \o Append(s, e) = Append(before \o s, e)
    <3>1. Append(s, e) = s \o <<e>> /\ <<e>> \in Seq(L) /\ before \o s \in Seq(L)
      BY AppendIsConcat, ConcatProperties
    <3>2. Append(before \o s, e) = (before \o s) \o <<e>>
      BY <3>1, AppendIsConcat
    <3>3. QED
      BY <3>1, <3>2, ConcatAssociative
  <2>2. Join(before \o Append(s, e)) = Join(before \o s) \o e \o CRLF
    BY <2>1, JoinAppend, ConcatProperties
  <2>3. Join(before \o s) = Join(before) \o Join(s)
    BY <1>2
  <2>4. Join(Append(s, e)) = Join(s) \o e \o CRLF
    BY JoinAppend
  <2>5. Join(before) \in Seq(B) /\ Join(s) \in Seq(B) /\ e \in Seq(B)
    BY JoinType
  <2>6. ((Join(before) \o Join(s)) \o e) \o CRLF = Join(before) \o ((Join(s) \o e) \o CRLF)
    <3>1. AreSame(((Join(before) \o Join(s)) \o e) \o CRLF,
                  Join(before) \o ((Join(s) \o e) \o CRLF))
      BY <2>5, Regroup2, Zenon
    <3>2. QED
      BY <3>1 DEF AreSame
  <2>7. QED
    BY <2>2, <2>3, <2>4, <2>6, AppendProperties
<1>3. Seq(L) \subseteq T
  <2> HIDE DEF T, L
  <2> QED BY <1>1, <1>2, SeqInduction
<1>4. QED
  BY <1>3

\* The text of a single line.
LEMMA JoinOne ==
  ASSUME NEW B, CRLF \in Seq(B), NEW line \in Seq(B)
  PROVE  Join(<<line>>) = line \o CRLF
<1>1. <<line>> = Append(<<>>, line) /\ <<>> \in Seq(Seq(B))
  OBVIOUS
<1>2. Join(<<line>>) = <<>> \o line \o CRLF
  BY <1>1, JoinAppend, JoinEmpty
<1>3. QED
  BY <1>2, ConcatEmptySeq

\* Every line has its end, and the text ends with it.
LEMMA JoinLen ==
  ASSUME NEW B, CRLF \in Seq(B), NEW lines \in Seq(Seq(B))
  PROVE  /\ Len(Join(lines)) >= 2 * Len(lines)
         /\ lines # <<>> => Join(lines) # <<>> /\ Last(Join(lines)) = "LF"
<1> DEFINE L == Seq(B)
           T == {s \in Seq(L) : Len(Join(s)) >= 2 * Len(s)}
<1>1. ASSUME NEW s \in Seq(L), NEW e \in L
      PROVE  /\ Len(Join(Append(s, e))) = Len(Join(s)) + Len(e) + 2
             /\ Last(Join(Append(s, e))) = "LF"
             /\ Join(Append(s, e)) # <<>>
  <2>1. Join(s) \in Seq(B) /\ e \in Seq(B) /\ Join(s) \o e \in Seq(B)
    BY JoinType, ConcatProperties
  <2>2. Join(Append(s, e)) = (Join(s) \o e) \o CRLF
    BY JoinAppend
  <2>3. Len(CRLF) = 2 /\ CRLF[2] = "LF"
    BY DEF CRLF
  <2>4. /\ Len((Join(s) \o e) \o CRLF) = Len(Join(s)) + Len(e) + 2
        /\ ((Join(s) \o e) \o CRLF)[Len(Join(s)) + Len(e) + 2] = "LF"
    <3>1. PICK J \in Seq(B), t \in Seq(B) : J = Join(s) /\ t = J \o e
      BY <2>1
    <3>2. Len(t) = Len(J) + Len(e) /\ Len(J) \in Nat /\ Len(e) \in Nat
      BY <3>1, ConcatProperties
    <3>3. /\ Len(t \o CRLF) = Len(t) + Len(CRLF)
          /\ \A i \in 1..Len(CRLF) : (t \o CRLF)[Len(t) + i] = CRLF[i]
      BY ConcatAt
    <3>4. Len(t \o CRLF) = Len(t) + 2 /\ (t \o CRLF)[Len(t) + 2] = "LF"
      BY <2>3, <3>3
    <3>5. QED
      BY <3>1, <3>2, <3>4
  <2>5. Len(Join(s)) \in Nat /\ Len(e) \in Nat /\ Len(<<>>) = 0
    BY <2>1
  <2>6. QED
    BY <2>2, <2>4, <2>5 DEF Last
<1>2. <<>> \in T
  BY JoinEmpty
<1>3. ASSUME NEW s \in Seq(L), NEW e \in L, s \in T PROVE Append(s, e) \in T
  <2>1. Len(Join(s)) \in Nat /\ Len(e) \in Nat /\ Len(s) \in Nat
    BY JoinType
  <2>2. Len(Append(s, e)) = Len(s) + 1 /\ Append(s, e) \in Seq(L)
    BY AppendProperties
  <2>3. QED
    BY <1>1, <1>3, <2>1, <2>2
<1>4. Seq(L) \subseteq T
  <2> HIDE DEF T, L
  <2> QED BY <1>2, <1>3, SeqInduction
<1>5. ASSUME lines # <<>> PROVE Join(lines) # <<>> /\ Last(Join(lines)) = "LF"
  <2>1. lines = Append(Front(lines), Last(lines)) /\ Front(lines) \in Seq(L) /\ Last(lines) \in L
    BY <1>5, FrontLast
  <2>2. QED
    BY <1>1, <2>1
<1>6. QED
  BY <1>4, <1>5

\* The text of a split is what was split.
THEOREM JoinSplit ==
  ASSUME NEW B, CRLF \in Seq(B), NEW bytes \in Seq(B)
  PROVE  Join(Front(Split(bytes))) \o Last(Split(bytes)) = bytes
<1> DEFINE Flat(lines) == Join(Front(lines)) \o Last(lines)
           T == {b \in Seq(B) : Flat(Split(b)) = b}
<1>1. <<>> \in T
  <2>1. Front(<< <<>> >>) = <<>> /\ Last(<< <<>> >>) = <<>>
    BY DEF Front, Last
  <2>2. <<>> \o <<>> = <<>> /\ <<>> \in Seq(B)
    OBVIOUS
  <2>3. QED
    BY <2>1, <2>2, SplitEmpty, JoinEmpty
<1>2. ASSUME NEW b \in Seq(B), NEW byte \in B, b \in T PROVE Append(b, byte) \in T
  <2> DEFINE lines == Split(b)
             front == Front(lines)
             last == Last(lines)
  <2>1. lines \in Seq(Seq(B)) /\ lines # <<>>
    BY SplitType DEF Pieces
  <2>2. front \in Seq(Seq(B)) /\ last \in Seq(B)
    BY <2>1, FrontLast
  <2>3. Join(front) \in Seq(B)
    BY <2>2, JoinType
  <2>4. Join(front) \o last = b
    BY <1>2
  <2>5. Append(b, byte) \in Seq(B) /\ Append(b, byte) = b \o <<byte>> /\ <<byte>> \in Seq(B)
    BY AppendProperties, AppendIsConcat
  <2> HIDE DEF lines
  <2>6. CASE EndsLine(lines, byte)
    <3>1. byte = "LF" /\ last # <<>> /\ Last(last) = "CR"
      BY <2>6 DEF EndsLine
    <3>2. last = Front(last) \o <<"CR">> /\ Front(last) \in Seq(B) /\ "CR" \in B
      <4>1. /\ Front(last) \in Seq(B) /\ Last(last) \in B
            /\ last = Front(last) \o <<Last(last)>>
        BY <2>2, <3>1, FrontLast, Zenon
      <4>2. QED
        BY <3>1, <4>1, Zenon
    <3>3. Append(front, Front(last)) \in Seq(Seq(B)) /\ <<>> \in Seq(B)
      BY <2>2, <3>2, AppendProperties
    <3>4. AddByte(lines, byte) = Append(Append(front, Front(last)), <<>>)
      <4>1. AddByte(lines, byte) = Append(front, Front(last)) \o << <<>> >>
        BY <2>6 DEF AddByte
      <4>2. QED
        BY <3>3, <4>1, AppendIsConcat
    <3>5. /\ Front(AddByte(lines, byte)) = Append(front, Front(last))
          /\ Last(AddByte(lines, byte)) = <<>>
      <4> DEFINE L == Seq(B)
                 head == Append(front, Front(last))
                 none == <<>>
      <4>1. head \in Seq(L) /\ none \in L
        BY <3>3
      <4> HIDE DEF L, head, none
      <4>2. Front(Append(head, none)) = head /\ Last(Append(head, none)) = none
        BY <4>1, FrontLastOfAppend
      <4>3. QED
        BY <3>4, <4>2 DEF head, none
    <3>6. Join(Append(front, Front(last))) = (Join(front) \o Front(last)) \o CRLF
      BY <2>2, <3>2, JoinAppend
    <3>7. (Join(front) \o Front(last)) \o CRLF \in Seq(B)
      BY <2>3, <3>2, ConcatProperties
    <3>8. Flat(AddByte(lines, byte)) = (Join(front) \o Front(last)) \o CRLF
      BY <3>5, <3>6, <3>7, ConcatEmptySeq
    <3>9. CRLF = <<"CR">> \o <<"LF">> /\ <<"CR">> \in Seq(B) /\ <<"LF">> \in Seq(B)
      BY <3>1, <3>2 DEF CRLF
    <3>10. b \o <<byte>> = (Join(front) \o Front(last)) \o CRLF
      <4>1. PICK J \in Seq(B), F \in Seq(B), c \in Seq(B), l \in Seq(B) :
              J = Join(front) /\ F = Front(last) /\ c = <<"CR">> /\ l = <<"LF">>
        BY <2>3, <3>2, <3>9
      <4>2. (J \o (F \o c)) \o l = (J \o F) \o (c \o l)
        <5>1. PICK w \in Seq(B) : w = F \o c
          BY ConcatProperties, Zenon
        <5>2. AreSame((J \o w) \o l, J \o (w \o l))
          BY Regroup1, Zenon
        <5>3. AreSame(J \o ((F \o c) \o l), (J \o F) \o (c \o l))
          BY Regroup3, Zenon
        <5>4. QED
          BY <5>1, <5>2, <5>3 DEF AreSame
      <4>3. b = J \o (F \o c) /\ <<byte>> = l /\ CRLF = c \o l
        BY <2>4, <3>1, <3>2, <3>9, <4>1
      <4>4. QED
        BY <4>1, <4>2, <4>3
    <3>11. Split(Append(b, byte)) = AddByte(lines, byte)
      BY SplitAppend DEF lines
    <3>12. QED
      BY <2>5, <3>8, <3>10, <3>11
  <2>7. CASE ~EndsLine(lines, byte)
    <3>1. AddByte(lines, byte) = Append(front, Append(last, byte))
      BY <2>7 DEF AddByte
    <3>2. Append(last, byte) \in Seq(B) /\ Append(last, byte) = last \o <<byte>>
      BY <2>2, AppendProperties, AppendIsConcat
    <3>3. Flat(AddByte(lines, byte)) = Join(front) \o (last \o <<byte>>)
      <4> DEFINE L == Seq(B)
                 line == Append(last, byte)
      <4>1. front \in Seq(L) /\ line \in L
        BY <2>2, <3>2
      <4> HIDE DEF L, line
      <4>2. Front(Append(front, line)) = front /\ Last(Append(front, line)) = line
        BY <4>1, FrontLastOfAppend
      <4>3. QED
        BY <3>1, <3>2, <4>2 DEF line
    <3>4. Join(front) \o (last \o <<byte>>) = b \o <<byte>>
      <4>1. PICK J \in Seq(B), x \in Seq(B), e \in Seq(B) :
              J = Join(front) /\ x = <<byte>> /\ e = last
        BY <2>2, <2>3, <2>5
      <4>2. J \o (e \o x) = (J \o e) \o x
        OBVIOUS
      <4>3. QED
        BY <2>4, <4>1, <4>2
    <3>5. Split(Append(b, byte)) = AddByte(lines, byte)
      BY SplitAppend DEF lines
    <3>6. QED
      BY <2>5, <3>3, <3>4, <3>5
  <2>8. QED
    BY <2>6, <2>7
<1>3. Seq(B) \subseteq T
  <2> HIDE DEF T
  <2> QED BY <1>1, <1>2, SeqInduction
<1>4. QED
  BY <1>3

-----------------------------------------------------------------------------
(* Where lines begin in a text.                                             *)

IsUnbroken(lines) == \A k \in 1..Len(lines) : \A i \in 1..Len(lines[k]) : lines[k][i] # "LF"

\* Position p of a text is the first, or follows a line end.
IsStart(text, p) == p = 1 \/ text[p - 1] = "LF"

\* Line k of the lines begins at position p of their text.
BeginsAt(lines, k, p, B) ==
  \E before \in Seq(B), after \in Seq(B) :
    /\ Join(lines) = (before \o (lines[k] \o CRLF)) \o after
    /\ Len(before) = p - 1
    /\ k = Len(lines) => after = <<>>

\* A line begins where it did when more lines follow.
LEMMA BeginsAtMore ==
  ASSUME NEW B, NEW lines, NEW more, NEW end \in Seq(B), NEW k, NEW q,
         Join(more) = Join(lines) \o end,
         more[k] = lines[k], lines[k] \o CRLF \in Seq(B), k # Len(more),
         BeginsAt(lines, k, q, B)
  PROVE  BeginsAt(more, k, q, B)
<1>1. PICK line \in Seq(B) : line = lines[k] \o CRLF
  OBVIOUS
<1>2. PICK before \in Seq(B), after \in Seq(B) :
        Join(lines) = (before \o line) \o after /\ Len(before) = q - 1
  BY <1>1 DEF BeginsAt
<1>3. PICK rest \in Seq(B) : rest = after \o end
  BY ConcatProperties
<1>4. ((before \o line) \o after) \o end = (before \o line) \o (after \o end)
  <2>1. PICK head \in Seq(B) : head = before \o line
    BY ConcatProperties, Zenon
  <2>2. AreSame((head \o after) \o end, head \o (after \o end))
    BY Regroup1, Zenon
  <2>3. QED
    BY <2>1, <2>2 DEF AreSame
<1>5. Join(more) = (before \o line) \o rest
  BY <1>2, <1>3, <1>4
<1>6. QED
  BY <1>1, <1>2, <1>5 DEF BeginsAt

\* Where a line end precedes, there a line begins.
LEMMA LineStart ==
  ASSUME NEW B, CRLF \in Seq(B), NEW lines \in Seq(Seq(B)), IsUnbroken(lines)
  PROVE  \A p \in 1..Len(Join(lines)) :
           IsStart(Join(lines), p) => \E k \in 1..Len(lines) : BeginsAt(lines, k, p, B)
<1> DEFINE L == Seq(B)
           Starts(s) == \A q \in 1..Len(Join(s)) :
                          IsStart(Join(s), q) => \E k \in 1..Len(s) : BeginsAt(s, k, q, B)
           T == {s \in Seq(L) : IsUnbroken(s) => Starts(s)}
<1>1. <<>> \in T
  BY JoinEmpty
<1>2. ASSUME NEW s \in Seq(L), NEW e \in L, s \in T PROVE Append(s, e) \in T
  <2> DEFINE more == Append(s, e)
  <2>1. SUFFICES ASSUME IsUnbroken(more), NEW q \in 1..Len(Join(more)), IsStart(Join(more), q)
                 PROVE  \E k \in 1..Len(more) : BeginsAt(more, k, q, B)
    BY AppendProperties
  <2>2. /\ more \in Seq(L) /\ Len(more) = Len(s) + 1 /\ more[Len(s) + 1] = e /\ Len(s) \in Nat
        /\ \A k \in 1..Len(s) : more[k] = s[k]
    BY AppendProperties
  <2>3. PICK J \in Seq(B) : J = Join(s)
    BY JoinType
  <2>4. PICK end \in Seq(B) : end = e \o CRLF
    BY ConcatProperties
  <2>5. Join(more) = J \o end
    <3>1. Join(more) = (J \o e) \o CRLF
      BY <2>3, JoinAppend
    <3>2. AreSame((J \o e) \o CRLF, J \o (e \o CRLF))
      BY Regroup1, Zenon
    <3>3. QED
      BY <2>4, <3>1, <3>2 DEF AreSame
  <2>6. /\ Len(J \o end) = Len(J) + Len(end) /\ Len(J) \in Nat /\ Len(end) \in Nat
        /\ \A i \in 1..Len(J) : (J \o end)[i] = J[i]
        /\ \A i \in 1..Len(end) : (J \o end)[Len(J) + i] = end[i]
    BY ConcatAt
  <2> HIDE DEF more
  <2>7. IsUnbroken(s) /\ \A i \in 1..Len(e) : e[i] # "LF"
    <3>1. ASSUME NEW k \in 1..Len(more) PROVE \A i \in 1..Len(more[k]) : more[k][i] # "LF"
      BY <2>1, Zenon DEF IsUnbroken
    <3>2. Len(s) + 1 \in 1..Len(more) /\ \A k \in 1..Len(s) : k \in 1..Len(more)
      BY <2>2
    <3>3. \A i \in 1..Len(e) : e[i] # "LF"
      BY <2>2, <3>1, <3>2, Zenon
    <3>4. ASSUME NEW k \in 1..Len(s) PROVE \A i \in 1..Len(s[k]) : s[k][i] # "LF"
      BY <2>2, <3>1, <3>2, Zenon
    <3>5. QED
      BY <3>3, <3>4, Zenon DEF IsUnbroken
  <2>8. CASE q <= Len(J)
    <3>1. q \in 1..Len(J) /\ IsStart(J, q)
      <4>1. q \in 1..Len(J)
        BY <2>6, <2>8
      <4>2. CASE q = 1
        BY <4>1, <4>2 DEF IsStart
      <4>3. CASE q # 1
        <5>1. q - 1 \in 1..Len(J) /\ Join(more)[q - 1] = "LF"
          BY <2>1, <2>6, <4>1, <4>3 DEF IsStart
        <5>2. QED
          BY <2>5, <2>6, <4>1, <5>1 DEF IsStart
      <4>4. QED
        BY <4>2, <4>3
    <3>2. PICK k \in 1..Len(s) : BeginsAt(s, k, q, B)
      BY <1>2, <2>3, <2>7, <3>1
    <3>3. k \in 1..Len(more) /\ more[k] = s[k] /\ k # Len(more)
      BY <2>2
    <3>4. s[k] \o CRLF \in Seq(B)
      BY ElementOfSeq, ConcatProperties
    <3>5. Join(more) = Join(s) \o end
      BY <2>3, <2>5
    <3>6. BeginsAt(more, k, q, B)
      BY <3>2, <3>3, <3>4, <3>5, BeginsAtMore
    <3>7. QED
      BY <3>3, <3>6
  <2>9. CASE q > Len(J)
    <3>1. PICK i \in 1..Len(end) : q = Len(J) + i
      <4>1. q \in 1..(Len(J) + Len(end))
        BY <2>1, <2>5, <2>6
      <4>2. q - Len(J) \in 1..Len(end) /\ q = Len(J) + (q - Len(J))
        BY <2>6, <2>9, <4>1
      <4>3. QED
        BY <4>2
    <3>2. i = 1
      <4>1. SUFFICES ASSUME i # 1 PROVE FALSE
        OBVIOUS
      <4>2. i - 1 \in 1..Len(end) /\ q - 1 = Len(J) + (i - 1) /\ q # 1
        BY <2>6, <3>1, <4>1
      <4>3. end[i - 1] = "LF"
        BY <2>1, <2>5, <2>6, <4>2 DEF IsStart
      <4>4. Len(CRLF) = 2 /\ CRLF[1] = "CR"
        BY DEF CRLF
      <4>5. /\ Len(e \o CRLF) = Len(e) + Len(CRLF) /\ Len(e) \in Nat
            /\ \A j \in 1..Len(e) : (e \o CRLF)[j] = e[j]
            /\ \A j \in 1..Len(CRLF) : (e \o CRLF)[Len(e) + j] = CRLF[j]
        BY ConcatAt
      <4>6. i - 1 \in 1..(Len(e) + 1)
        BY <2>4, <3>1, <4>2, <4>4, <4>5
      <4>7. CASE i - 1 <= Len(e)
        <5>1. i - 1 \in 1..Len(e) /\ end[i - 1] = e[i - 1]
          BY <2>4, <4>5, <4>6, <4>7
        <5>2. e[i - 1] # "LF"
          BY <2>7, <5>1
        <5>3. QED
          BY <4>3, <5>1, <5>2
      <4>8. CASE i - 1 = Len(e) + 1
        <5>1. end[i - 1] = "CR"
          BY <2>4, <4>4, <4>5, <4>8
        <5>2. QED
          BY <4>3, <5>1
      <4>9. QED
        BY <4>5, <4>6, <4>7, <4>8
    <3>3. Len(J) = q - 1
      BY <2>6, <3>1, <3>2
    <3>4. Join(more) = (J \o (more[Len(s) + 1] \o CRLF)) \o <<>>
      <4>1. (J \o end) \o <<>> = J \o end
        OBVIOUS
      <4>2. QED
        BY <2>2, <2>4, <2>5, <4>1
    <3>5. <<>> \in Seq(B) /\ Len(s) + 1 \in 1..Len(more)
      BY <2>2
    <3>6. BeginsAt(more, Len(s) + 1, q, B)
      BY <3>3, <3>4, <3>5 DEF BeginsAt
    <3>7. QED
      BY <3>5, <3>6
  <2>10. QED
    BY <2>6, <2>8, <2>9
<1>3. Seq(L) \subseteq T
  <2> HIDE DEF T, L
  <2> QED BY <1>1, <1>2, SeqInduction
<1>4. QED
  BY <1>3

-----------------------------------------------------------------------------
(* Concatenations and lines inside a text.                                  *)

\* A sequence is one of any set that has its elements.
LEMMA SeqWith ==
  ASSUME NEW S, NEW T, NEW s \in Seq(S), \A i \in 1..Len(s) : s[i] \in T
  PROVE  s \in Seq(T)
<1>1. PICK n \in Nat : s \in [1..n -> S]
  BY SeqDef
<1>2. n = Len(s)
  BY <1>1
<1>3. s \in [1..n -> T]
  BY <1>1, <1>2
<1>4. QED
  BY <1>3, SeqDef

\* What the elements of a concatenation are.
IsConcat(s, t, r) ==
  /\ Len(r) = Len(s) + Len(t) /\ Len(s) \in Nat /\ Len(t) \in Nat
  /\ \A i \in 1..Len(s) : r[i] = s[i]
  /\ \A i \in 1..Len(t) : r[Len(s) + i] = t[i]

\* A concatenation is a sequence, and its elements are those of its parts.
LEMMA Concat ==
  ASSUME NEW B, NEW s \in Seq(B), NEW t \in Seq(B)
  PROVE  s \o t \in Seq(B) /\ IsConcat(s, t, s \o t)
BY ConcatAt DEF IsConcat

\* The same of three parts.
IsConcat3(s, t, u, r) ==
  /\ Len(r) = Len(s) + Len(t) + Len(u)
  /\ Len(s) \in Nat /\ Len(t) \in Nat /\ Len(u) \in Nat
  /\ \A i \in 1..Len(s) : r[i] = s[i]
  /\ \A i \in 1..Len(t) : r[Len(s) + i] = t[i]
  /\ \A i \in 1..Len(u) : r[Len(s) + Len(t) + i] = u[i]

\* The same of three parts.
LEMMA Concat3 ==
  ASSUME NEW B, NEW s \in Seq(B), NEW t \in Seq(B), NEW u \in Seq(B)
  PROVE  (s \o t) \o u \in Seq(B) /\ IsConcat3(s, t, u, (s \o t) \o u)
<1> DEFINE w == s \o t
           r == w \o u
<1>1. w \in Seq(B) /\ IsConcat(s, t, w)
  BY Concat, Zenon
<1> HIDE DEF w
<1>2. r \in Seq(B) /\ IsConcat(w, u, r)
  BY <1>1, Concat, Zenon
<1> HIDE DEF r
<1>3. /\ \A i \in 1..Len(s) : r[i] = s[i]
      /\ \A i \in 1..Len(t) : r[Len(s) + i] = t[i]
      /\ \A i \in 1..Len(u) : r[Len(s) + Len(t) + i] = u[i]
  BY <1>1, <1>2 DEF IsConcat
<1>4. Len(r) = Len(s) + Len(t) + Len(u) /\ Len(u) \in Nat /\ Len(s) \in Nat /\ Len(t) \in Nat
  BY <1>1, <1>2 DEF IsConcat
<1>5. IsConcat3(s, t, u, r)
  BY <1>3, <1>4 DEF IsConcat3
<1>6. QED
  BY <1>2, <1>5 DEF r, w

\* An element and two more are three.
LEMMA Literal3 ==
  ASSUME NEW a, NEW b, NEW c
  PROVE  <<a>> \o <<b, c>> = <<a, b, c>>
<1> DEFINE B == {a, b, c}
           s == <<a>>
           t == <<b, c>>
           u == <<a, b, c>>
           r == s \o t
<1>1. /\ s \in Seq(B) /\ t \in Seq(B) /\ u \in Seq(B) /\ Len(s) = 1 /\ Len(t) = 2 /\ Len(u) = 3
      /\ s[1] = a /\ t[1] = b /\ t[2] = c /\ u[1] = a /\ u[2] = b /\ u[3] = c
  OBVIOUS
<1> HIDE DEF s, t, u, B
<1>2. r \in Seq(B) /\ IsConcat(s, t, r)
  BY <1>1, Concat, Zenon
<1> HIDE DEF r
<1>3. Len(r) = 3 /\ r[1] = a /\ r[2] = b /\ r[3] = c
  BY <1>1, <1>2 DEF IsConcat
<1>4. \A i \in 1..Len(u) : r[i] = u[i]
  BY <1>1, <1>3
<1>5. r = u
  BY <1>1, <1>2, <1>3, <1>4, SeqEqual
<1>6. QED
  BY <1>5 DEF r, s, t, u

\* A prefix of a text and what follows it.
LEMMA Cut ==
  ASSUME NEW B, NEW text \in Seq(B), NEW n \in 0..Len(text)
  PROVE  /\ SubSeq(text, 1, n) \in Seq(B) /\ SubSeq(text, n + 1, Len(text)) \in Seq(B)
         /\ Len(SubSeq(text, 1, n)) = n
         /\ Len(SubSeq(text, n + 1, Len(text))) = Len(text) - n
         /\ SubSeq(text, 1, n) \o SubSeq(text, n + 1, Len(text)) = text
<1>1. n \in Nat /\ n <= Len(text) /\ Len(text) \in Nat
  OBVIOUS
<1>2. /\ SubSeq(text, 1, n) \in Seq(B)
      /\ Len(SubSeq(text, 1, n)) = IF 1 <= n THEN n - 1 + 1 ELSE 0
  BY <1>1, SubSeqProperties
<1>3. /\ SubSeq(text, n + 1, Len(text)) \in Seq(B)
      /\ Len(SubSeq(text, n + 1, Len(text)))
           = IF n + 1 <= Len(text) THEN Len(text) - (n + 1) + 1 ELSE 0
  BY <1>1, SubSeqProperties
<1>4. SubSeq(text, 1, n) \o SubSeq(text, n + 1, Len(text)) = text
  <2>1. 1 \in 1..(Len(text) + 1) /\ n \in (1 - 1)..Len(text) /\ Len(text) \in n..Len(text)
    BY <1>1
  <2>2. SubSeq(text, 1, n) \o SubSeq(text, n + 1, Len(text)) = SubSeq(text, 1, Len(text))
    BY <2>1, ConcatAdjacentSubSeq
  <2>3. QED
    BY <2>2, SubSeqFull
<1>5. /\ 1 <= n => n - 1 + 1 = n
      /\ ~(1 <= n) => n = 0
      /\ n + 1 <= Len(text) => Len(text) - (n + 1) + 1 = Len(text) - n
      /\ ~(n + 1 <= Len(text)) => Len(text) - n = 0
  BY <1>1
<1>6. Len(SubSeq(text, 1, n)) = n /\ Len(SubSeq(text, n + 1, Len(text))) = Len(text) - n
  BY <1>2, <1>3, <1>5, Zenon
<1>7. QED
  BY <1>2, <1>3, <1>4, <1>6, Zenon

\* Texts that are equal and begin with the same text go on with the same text.
LEMMA CancelLeft ==
  ASSUME NEW B, NEW s \in Seq(B), NEW t \in Seq(B), NEW v \in Seq(B),
         AreSame(s \o t, s \o v)
  PROVE  t = v
<1> DEFINE st == s \o t
           sv == s \o v
<1>1. IsConcat(s, t, st) /\ IsConcat(s, v, sv)
  BY Concat, Zenon
<1>2. st = sv
  BY DEF AreSame
<1> HIDE DEF st, sv
<1>3. Len(t) = Len(v) /\ \A i \in 1..Len(t) : t[i] = v[i]
  BY <1>1, <1>2 DEF IsConcat
<1>4. QED
  BY <1>3, SeqEqual

\* Two ways to cut a text: one cut is before the other.
LEMMA TwoCuts ==
  ASSUME NEW B, NEW u \in Seq(B), NEW v \in Seq(B), NEW x \in Seq(B), NEW y \in Seq(B)
  PROVE  AreSame(u \o v, x \o y) =>
           \/ \E w \in Seq(B) : AreSame(u, x \o w) /\ AreSame(y, w \o v)
           \/ \E w \in Seq(B) : AreSame(x, u \o w) /\ AreSame(v, w \o y)
<1>1. ASSUME NEW p \in Seq(B), NEW q \in Seq(B), NEW r \in Seq(B), NEW t \in Seq(B),
             AreSame(p \o q, r \o t), Len(r) <= Len(p)
      PROVE  \E w \in Seq(B) : AreSame(p, r \o w) /\ AreSame(t, w \o q)
  <2> DEFINE n == Len(r)
             h == SubSeq(p, 1, n)
             w == SubSeq(p, n + 1, Len(p))
  <2>1. n \in 0..Len(p) /\ Len(p) \in Nat /\ n \in Nat
    BY <1>1
  <2>2. h \in Seq(B) /\ w \in Seq(B) /\ Len(h) = n /\ AreSame(p, h \o w)
    <3>1. /\ h \in Seq(B) /\ w \in Seq(B) /\ Len(h) = n /\ h \o w = p
      <4> HIDE DEF n
      <4> QED BY <2>1, Cut
    <3>2. QED
      BY <3>1 DEF AreSame
  <2>3. \A i \in 1..n : h[i] = p[i]
    <3>1. 1 \in Int /\ n \in Int /\ \A i \in 1..n : p[i] \in B
      BY <2>1
    <3>2. \A i \in 1..(n - 1 + 1) : h[i] = p[1 + i - 1]
      <4> HIDE DEF n
      <4> QED BY <3>1, SubSeqProperties
    <3> HIDE DEF h, n
    <3>3. ASSUME NEW i \in 1..n PROVE h[i] = p[i]
      <4>1. i \in 1..(n - 1 + 1) /\ 1 + i - 1 = i
        BY <2>1
      <4>2. QED
        BY <3>2, <4>1
    <3>4. QED
      BY <3>3
  <2> DEFINE pq == p \o q
             rt == r \o t
  <2>4. IsConcat(p, q, pq) /\ IsConcat(r, t, rt)
    BY Concat, Zenon
  <2>5. pq = rt
    BY <1>1 DEF AreSame
  <2> HIDE DEF pq, rt, h, w
  <2>6. \A i \in 1..Len(r) : h[i] = r[i]
    BY <2>1, <2>3, <2>4, <2>5 DEF IsConcat
  <2>7. h = r
    BY <2>2, <2>6, SeqEqual
  <2>8. AreSame(p, r \o w)
    BY <2>2, <2>7 DEF AreSame
  <2>9. AreSame((r \o w) \o q, r \o (w \o q))
    BY <2>2, Regroup1, Zenon
  <2>10. PICK wq \in Seq(B) : wq = w \o q
    BY <2>2, ConcatProperties
  <2>11. r \o t = r \o wq
    BY <1>1, <2>8, <2>9, <2>10 DEF AreSame
  <2>12. t = wq
    <3>1. AreSame(r \o t, r \o wq)
      BY <2>11 DEF AreSame
    <3>2. QED
      BY <3>1, CancelLeft, Zenon
  <2>13. QED
    BY <2>2, <2>8, <2>10, <2>12 DEF AreSame
<1>2. SUFFICES ASSUME AreSame(u \o v, x \o y)
               PROVE  \/ \E w \in Seq(B) : AreSame(u, x \o w) /\ AreSame(y, w \o v)
                      \/ \E w \in Seq(B) : AreSame(x, u \o w) /\ AreSame(v, w \o y)
  OBVIOUS
<1>3. AreSame(x \o y, u \o v)
  BY <1>2 DEF AreSame
<1>4. Len(x) <= Len(u) \/ Len(u) <= Len(x)
  BY LenProperties
<1>5. QED
  BY <1>1, <1>2, <1>3, <1>4, Zenon

\* A line among lines: its text, and the texts before and after it.
IsAmong(lines, k, before, after) ==
  /\ Join(lines) = (before \o (lines[k] \o CRLF)) \o after
  /\ k = 1 => before = <<>>
  /\ k # 1 => before # <<>> /\ Last(before) = "LF"
  /\ k = Len(lines) => after = <<>>
  /\ k # Len(lines) => after # <<>>

\* Every line of a text has a text before it and one after it.
LEMMA LineIn ==
  ASSUME NEW B, CRLF \in Seq(B), NEW lines \in Seq(Seq(B)), NEW k \in 1..Len(lines)
  PROVE  \E before \in Seq(B), after \in Seq(B) : IsAmong(lines, k, before, after)
<1> DEFINE L == Seq(B)
           head == SubSeq(lines, 1, k)
           front == Front(head)
           back == SubSeq(lines, k + 1, Len(lines))
<1>1. k \in 0..Len(lines) /\ k \in Nat /\ Len(lines) \in Nat
  OBVIOUS
<1>2. /\ head \in Seq(L) /\ back \in Seq(L) /\ Len(head) = k /\ Len(back) = Len(lines) - k
      /\ head \o back = lines
  BY <1>1, Cut
<1>3. head # <<>>
  <2>1. Len(head) # 0
    BY <1>2
  <2>2. QED
    BY <2>1, EmptySeq
<1>4. head[k] = lines[k]
  BY <1>1, <1>2, SubSeqProperties
<1> HIDE DEF head, back, L
<1>5. /\ front \in Seq(L) /\ Last(head) = lines[k] /\ Len(front) = k - 1
      /\ head = Append(front, lines[k]) /\ lines[k] \in L
  <2>1. Last(head) = lines[k]
    BY <1>2, <1>3, <1>4 DEF Last
  <2>2. QED
    BY <1>2, <1>3, <2>1, FrontLast
<1> HIDE DEF front
<1>6. Join(lines) = Join(head) \o Join(back)
  BY <1>2, JoinConcat DEF L
<1>7. Join(head) = (Join(front) \o lines[k]) \o CRLF
  BY <1>5, JoinAppend DEF L
<1>8. PICK J \in Seq(B), K \in Seq(B), x \in Seq(B), c \in Seq(B) :
        J = Join(front) /\ K = Join(back) /\ x = lines[k] /\ c = CRLF
  BY <1>2, <1>5, JoinType DEF L
<1>9. (J \o x) \o c = J \o (x \o c)
  <2> HIDE <1>8
  <2> QED OBVIOUS
<1>10. Join(lines) = (J \o (lines[k] \o CRLF)) \o K
  BY <1>6, <1>7, <1>8, <1>9
<1>11. k = 1 => J = <<>>
  <2>1. k = 1 => front = <<>>
    BY <1>5
  <2>2. QED
    BY <1>8, <2>1, JoinEmpty
<1>12. k # 1 => J # <<>> /\ Last(J) = "LF"
  <2>1. k # 1 => front # <<>>
    BY <1>5, <1>1
  <2>2. QED
    BY <1>5, <1>8, <2>1, JoinLen DEF L
<1>13. k = Len(lines) => K = <<>>
  <2>1. k = Len(lines) => back = <<>>
    BY <1>1, <1>2
  <2>2. QED
    BY <1>8, <2>1, JoinEmpty
<1>14. k # Len(lines) => K # <<>>
  <2>1. k # Len(lines) => back # <<>>
    BY <1>1, <1>2
  <2>2. QED
    BY <1>2, <1>8, <2>1, JoinLen DEF L
<1>15. IsAmong(lines, k, J, K)
  BY <1>10, <1>11, <1>12, <1>13, <1>14 DEF IsAmong
<1>16. QED
  BY <1>15

\* A line of a chunk that has ended.
LEMMA LineInChunk ==
  ASSUME NEW B, CRLF \in Seq(B), NEW bytes \in Seq(B), NEW k \in 1..(Len(Split(bytes)) - 1)
  PROVE  /\ Split(bytes)[k] \in Seq(B)
         /\ \E before \in Seq(B), after \in Seq(B) :
              /\ bytes = (before \o (Split(bytes)[k] \o CRLF)) \o after
              /\ k = 1 => before = <<>>
              /\ k # 1 => before # <<>> /\ Last(before) = "LF"
              /\ after = <<>> <=> k = Len(Split(bytes)) - 1 /\ Last(Split(bytes)) = <<>>
<1> DEFINE lines == Split(bytes)
           front == Front(lines)
<1>1. lines \in Seq(Seq(B)) /\ lines # <<>>
  BY SplitType DEF Pieces
<1> HIDE DEF lines
<1>2. /\ front \in Seq(Seq(B)) /\ Last(lines) \in Seq(B) /\ Len(lines) \in Nat
      /\ Len(front) = Len(lines) - 1 /\ \A n \in 1..(Len(lines) - 1) : front[n] = lines[n]
  BY <1>1, FrontLast
<1>3. Join(front) \o Last(lines) = bytes
  BY JoinSplit DEF lines
<1> HIDE DEF front
<1>4. k \in 1..Len(front) /\ front[k] = lines[k]
  BY <1>2 DEF lines
<1>5. front[k] \in Seq(B)
  BY <1>2, <1>4
<1>6. PICK before \in Seq(B), after \in Seq(B) : IsAmong(front, k, before, after)
  BY <1>2, <1>4, LineIn, Zenon
<1>7. PICK x \in Seq(B), last \in Seq(B) : x = front[k] \o CRLF /\ last = Last(lines)
  BY <1>2, <1>5, ConcatProperties
<1>8. ((before \o x) \o after) \o last = (before \o x) \o (after \o last)
  <2>1. PICK head \in Seq(B) : head = before \o x
    BY ConcatProperties, Zenon
  <2>2. AreSame((head \o after) \o last, head \o (after \o last))
    BY Regroup1, Zenon
  <2>3. QED
    BY <2>1, <2>2 DEF AreSame
<1>9. after \o last \in Seq(B)
  OBVIOUS
<1>10. after \o last = <<>> <=> after = <<>> /\ last = <<>>
  <2>1. Len(after \o last) = Len(after) + Len(last) /\ Len(after) \in Nat /\ Len(last) \in Nat
    BY Concat, Zenon DEF IsConcat
  <2>2. QED
    BY <2>1, EmptySeq
<1>11. bytes = (before \o (lines[k] \o CRLF)) \o (after \o last)
  BY <1>3, <1>4, <1>6, <1>7, <1>8 DEF IsAmong
<1>12. after \o last = <<>> <=> k = Len(lines) - 1 /\ Last(lines) = <<>>
  BY <1>2, <1>6, <1>7, <1>10 DEF IsAmong
<1>13. QED
  BY <1>4, <1>5, <1>6, <1>9, <1>11, <1>12 DEF IsAmong, lines

-----------------------------------------------------------------------------
(* Lines without a line end inside.                                         *)

\* The bytes that may be within a line.
Within(B) == B \ {"LF"}

\* A byte that ends no line goes to the last piece.
LEMMA AddInLine ==
  ASSUME NEW B, NEW s \in Seq(Seq(B)), NEW e \in Seq(B), NEW b \in Within(B)
  PROVE  AddByte(Append(s, e), b) = Append(s, Append(e, b))
<1> DEFINE L == Seq(B)
<1>1. s \in Seq(L) /\ e \in L
  OBVIOUS
<1> HIDE DEF L
<1>2. Front(Append(s, e)) = s /\ Last(Append(s, e)) = e
  BY <1>1, FrontLastOfAppend
<1>3. b # "LF"
  BY DEF Within
<1>4. QED
  BY <1>2, <1>3 DEF AddByte, EndsLine

\* The bytes of a line that begins make one piece.
LEMMA SplitMore ==
  ASSUME NEW B, NEW x \in Seq(B), NEW s \in Seq(Seq(B)), Split(x) = Append(s, <<>>)
  PROVE  \A e \in Seq(Within(B)) : Split(x \o e) = Append(s, e)
<1> DEFINE T == {e \in Seq(Within(B)) : Split(x \o e) = Append(s, e)}
<1>1. <<>> \in T
  BY ConcatEmptySeq
<1>2. ASSUME NEW e \in Seq(Within(B)), NEW b \in Within(B), e \in T
      PROVE  Append(e, b) \in T
  <2>1. e \in Seq(B) /\ b \in B
    BY DEF Within
  <2>2. PICK y \in Seq(B) : y = x \o e
    BY <2>1, ConcatProperties, Zenon
  <2>3. Split(Append(y, b)) = AddByte(Split(y), b)
    BY <2>1, SplitAppend
  <2>4. Split(y) = Append(s, e)
    BY <1>2, <2>2
  <2>5. AddByte(Append(s, e), b) = Append(s, Append(e, b))
    BY <2>1, AddInLine
  <2>6. Append(y, b) = x \o Append(e, b)
    <3>1. y \o <<b>> = Append(y, b) /\ e \o <<b>> = Append(e, b) /\ <<b>> \in Seq(B)
      BY <2>1, AppendIsConcat
    <3>2. PICK one \in Seq(B) : one = <<b>>
      BY <3>1
    <3>3. AreSame((x \o e) \o one, x \o (e \o one))
      BY <2>1, Regroup1, Zenon
    <3>4. QED
      BY <2>2, <3>1, <3>2, <3>3 DEF AreSame
  <2>7. Append(e, b) \in Seq(Within(B))
    BY AppendProperties
  <2>8. QED
    BY <2>3, <2>4, <2>5, <2>6, <2>7
<1>3. Seq(Within(B)) \subseteq T
  <2> HIDE DEF T
  <2> QED BY <1>1, <1>2, SeqInduction
<1>4. QED
  BY <1>3

\* The split of a text finds its lines.
LEMMA SplitJoin ==
  ASSUME NEW B, CRLF \in Seq(B), NEW lines \in Seq(Seq(Within(B)))
  PROVE  Split(Join(lines)) = Append(lines, <<>>)
<1> DEFINE C == Within(B)
           L == Seq(C)
           T == {s \in Seq(L) : Split(Join(s)) = Append(s, <<>>)}
<1>0. /\ "CR" \in B /\ "LF" \in B /\ "CR" \in C
      /\ Seq(C) \subseteq Seq(B) /\ Seq(L) \subseteq Seq(Seq(B))
  <2>1. CRLF[1] \in B /\ CRLF[2] \in B
    <3>1. 1 \in 1..Len(CRLF) /\ 2 \in 1..Len(CRLF)
      BY DEF CRLF
    <3>2. QED
      BY <3>1, ElementOfSeq
  <2>2. "CR" \in B /\ "LF" \in B
    BY <2>1 DEF CRLF
  <2>3. Seq(C) \subseteq Seq(B)
    BY DEF Within
  <2>4. QED
    BY <2>2, <2>3 DEF Within
<1>1. <<>> \in T
  <2>1. Append(<<>>, <<>>) = << <<>> >>
    OBVIOUS
  <2>2. QED
    BY <2>1, SplitEmpty, JoinEmpty
<1>2. ASSUME NEW s \in Seq(L), NEW e \in L, s \in T PROVE Append(s, e) \in T
  <2>1. s \in Seq(Seq(B)) /\ e \in Seq(B)
    BY <1>0
  <2>2. PICK x \in Seq(B) : x = Join(s)
    BY <2>1, JoinType
  <2>3. Split(x) = Append(s, <<>>)
    BY <1>2, <2>2
  <2>4. PICK f \in Seq(C) : f = Append(e, "CR")
    BY <1>0, AppendProperties
  <2>5. Split(x \o f) = Append(s, f)
    BY <2>1, <2>3, SplitMore
  <2>6. f \in Seq(B) /\ x \o f \in Seq(B)
    BY <1>0, ConcatProperties
  <2>7. Split(Append(x \o f, "LF")) = AddByte(Append(s, f), "LF")
    <3>1. PICK y \in Seq(B) : y = x \o f
      BY <2>6
    <3>2. Split(Append(y, "LF")) = AddByte(Split(y), "LF")
      BY <1>0, SplitAppend
    <3>3. QED
      BY <2>5, <3>1, <3>2
  <2>8. AddByte(Append(s, f), "LF") = Append(Append(s, e), <<>>)
    <3> DEFINE M == Seq(B)
    <3>1. s \in Seq(M) /\ f \in M /\ e \in M /\ <<>> \in M
      BY <2>1, <2>6
    <3>2. f # <<>> /\ Front(f) = e /\ Last(f) = "CR"
      <4>1. f # <<>>
        BY <2>1, <2>4
      <4>2. QED
        BY <1>0, <2>1, <2>4, <4>1, FrontLastOfAppend
    <3> HIDE DEF M
    <3>3. Front(Append(s, f)) = s /\ Last(Append(s, f)) = f
      BY <3>1, FrontLastOfAppend
    <3>4. EndsLine(Append(s, f), "LF")
      BY <3>2, <3>3 DEF EndsLine
    <3>5. AddByte(Append(s, f), "LF") = Append(s, e) \o << <<>> >>
      BY <3>2, <3>3, <3>4 DEF AddByte
    <3>6. Append(s, e) \in Seq(M)
      BY <3>1, AppendProperties
    <3>7. QED
      BY <3>1, <3>5, <3>6, AppendIsConcat
  <2>9. Join(Append(s, e)) = Append(x \o f, "LF")
    <3>1. PICK c \in Seq(B), l \in Seq(B) : c = <<"CR">> /\ l = <<"LF">>
      <4>1. "CR" \in B /\ "LF" \in B
        BY <1>0
      <4>2. <<"CR">> \in Seq(B) /\ <<"LF">> \in Seq(B)
        BY <4>1
      <4>3. QED
        BY <4>2
    <3>2. Join(Append(s, e)) = (x \o e) \o CRLF
      BY <2>1, <2>2, JoinAppend
    <3>3. CRLF = c \o l /\ f = e \o c /\ Append(x \o f, "LF") = (x \o f) \o l
      <4>1. CRLF = c \o l
        BY <3>1 DEF CRLF
      <4>2. f = e \o c
        BY <1>0, <2>1, <2>4, <3>1, AppendIsConcat
      <4>3. Append(x \o f, "LF") = (x \o f) \o l
        BY <1>0, <2>6, <3>1, AppendIsConcat
      <4>4. QED
        BY <4>1, <4>2, <4>3
    <3>4. AreSame((x \o e) \o (c \o l), (x \o (e \o c)) \o l)
      <4>1. AreSame(x \o ((e \o c) \o l), (x \o e) \o (c \o l))
        BY <2>1, Regroup3, Zenon
      <4>2. PICK w \in Seq(B) : w = e \o c
        BY <2>1, ConcatProperties, Zenon
      <4>3. AreSame((x \o w) \o l, x \o (w \o l))
        BY Regroup1, Zenon
      <4>4. QED
        BY <4>1, <4>2, <4>3 DEF AreSame
    <3>5. QED
      BY <3>2, <3>3, <3>4 DEF AreSame
  <2>10. Append(s, e) \in Seq(L)
    BY AppendProperties
  <2>11. QED
    BY <2>7, <2>8, <2>9, <2>10
<1>3. Seq(L) \subseteq T
  <2> HIDE DEF T, L
  <2> QED BY <1>1, <1>2, SeqInduction
<1>4. QED
  BY <1>3

\* So lines without a line end inside are the same when their texts are.
LEMMA JoinUnique ==
  ASSUME NEW B, CRLF \in Seq(B),
         NEW s \in Seq(Seq(Within(B))), NEW t \in Seq(Seq(Within(B))), Join(s) = Join(t)
  PROVE  s = t
<1> DEFINE L == Seq(Within(B))
<1>1. Append(s, <<>>) = Append(t, <<>>)
  BY SplitJoin
<1>2. s \in Seq(L) /\ t \in Seq(L) /\ <<>> \in L
  OBVIOUS
<1> HIDE DEF L
<1>3. Front(Append(s, <<>>)) = s /\ Front(Append(t, <<>>)) = t
  BY <1>2, FrontLastOfAppend
<1>4. QED
  BY <1>1, <1>3

-----------------------------------------------------------------------------
(* A text in which no line end is cut.                                      *)

\* Every LF follows its CR; the text may begin with an LF.
IsPaired(text) == \A i \in 2..Len(text) : text[i] = "LF" => text[i - 1] = "CR"

\* The text does not begin inside a line end.
BeginsWell(text) == text = <<>> \/ text[1] # "LF"

\* The parts of such a text, and what such texts make.
LEMMA PairedConcat ==
  ASSUME NEW B, NEW s \in Seq(B), NEW t \in Seq(B)
  PROVE  /\ IsPaired(s) /\ IsPaired(t) /\ BeginsWell(t) => IsPaired(s \o t)
         /\ IsPaired(s \o t) => IsPaired(s) /\ IsPaired(t)
         /\ BeginsWell(s) /\ BeginsWell(t) => BeginsWell(s \o t)
         /\ BeginsWell(s \o t) => BeginsWell(s)
         /\ s # <<>> => s \o t # <<>>
<1> DEFINE r == s \o t
<1>1. r \in Seq(B) /\ IsConcat(s, t, r)
  BY Concat, Zenon
<1> HIDE DEF r
<1>2. PICK a \in Nat, b \in Nat : a = Len(s) /\ b = Len(t)
  OBVIOUS
<1>3. /\ Len(r) = a + b
      /\ \A i \in 1..a : r[i] = s[i]
      /\ \A i \in 1..b : r[a + i] = t[i]
  BY <1>1, <1>2 DEF IsConcat
<1>4. /\ (s = <<>> <=> a = 0) /\ (t = <<>> <=> b = 0) /\ (r = <<>> <=> a + b = 0)
  BY <1>1, <1>2, <1>3, EmptySeq
<1>5. ASSUME IsPaired(s), IsPaired(t), BeginsWell(t)
      PROVE  IsPaired(r)
  <2>1. SUFFICES ASSUME NEW i \in 2..(a + b), r[i] = "LF"
                 PROVE  r[i - 1] = "CR"
    BY <1>3 DEF IsPaired
  <2>2. CASE i <= a
    <3>1. i \in 2..a /\ i \in 1..a /\ i - 1 \in 1..a
      BY <2>2
    <3>2. s[i] = "LF"
      BY <1>3, <2>1, <3>1
    <3>3. s[i - 1] = "CR"
      BY <1>2, <1>5, <3>1, <3>2 DEF IsPaired
    <3>4. QED
      BY <1>3, <3>1, <3>3
  <2>3. CASE i > a
    <3>1. PICK j \in 1..b : i = a + j
      <4>1. i - a \in 1..b /\ i = a + (i - a)
        BY <2>3
      <4>2. QED
        BY <4>1
    <3>2. t[j] = "LF"
      BY <1>3, <2>1, <3>1
    <3>3. j # 1
      BY <1>4, <1>5, <3>1, <3>2 DEF BeginsWell
    <3>4. j \in 2..b /\ j - 1 \in 1..b /\ a + (j - 1) = i - 1
      BY <3>1, <3>3
    <3>5. t[j - 1] = "CR"
      BY <1>2, <1>5, <3>2, <3>4 DEF IsPaired
    <3>6. QED
      BY <1>3, <3>4, <3>5
  <2>4. QED
    BY <2>2, <2>3
<1>6. ASSUME IsPaired(r)
      PROVE  IsPaired(s) /\ IsPaired(t)
  <2>1. ASSUME NEW i \in 2..a, s[i] = "LF"
        PROVE  s[i - 1] = "CR"
    <3>1. i \in 1..a /\ i - 1 \in 1..a /\ i \in 2..(a + b)
      OBVIOUS
    <3>2. r[i] = "LF"
      BY <1>3, <2>1, <3>1
    <3>3. r[i - 1] = "CR"
      BY <1>3, <1>6, <3>1, <3>2 DEF IsPaired
    <3>4. QED
      BY <1>3, <3>1, <3>3
  <2>2. ASSUME NEW i \in 2..b, t[i] = "LF"
        PROVE  t[i - 1] = "CR"
    <3>1. i \in 1..b /\ i - 1 \in 1..b /\ a + i \in 2..(a + b) /\ (a + i) - 1 = a + (i - 1)
      OBVIOUS
    <3>2. r[a + i] = "LF"
      BY <1>3, <2>2, <3>1
    <3>3. r[a + (i - 1)] = "CR"
      BY <1>3, <1>6, <3>1, <3>2 DEF IsPaired
    <3>4. QED
      BY <1>3, <3>1, <3>3
  <2>3. QED
    BY <1>2, <2>1, <2>2 DEF IsPaired
<1>7. BeginsWell(s) /\ BeginsWell(t) => BeginsWell(r)
  <2>1. CASE a = 0
    BY <1>3, <1>4, <2>1 DEF BeginsWell
  <2>2. CASE a # 0
    <3>1. 1 \in 1..a
      BY <2>2
    <3>2. QED
      BY <1>3, <1>4, <2>2, <3>1 DEF BeginsWell
  <2>3. QED
    BY <2>1, <2>2
<1>8. BeginsWell(r) => BeginsWell(s)
  <2>1. CASE a = 0
    BY <1>4, <2>1 DEF BeginsWell
  <2>2. CASE a # 0
    <3>1. 1 \in 1..a /\ a + b # 0
      BY <2>2
    <3>2. QED
      BY <1>3, <1>4, <3>1 DEF BeginsWell
  <2>3. QED
    BY <2>1, <2>2
<1>9. s # <<>> => r # <<>>
  BY <1>4
<1>10. QED
  BY <1>5, <1>6, <1>7, <1>8, <1>9 DEF r

\* The text of lines cuts no line end.
LEMMA JoinPaired ==
  ASSUME NEW B, CRLF \in Seq(B), NEW lines \in Seq(Seq(Within(B)))
  PROVE  IsPaired(Join(lines)) /\ BeginsWell(Join(lines))
<1> DEFINE L == Seq(Within(B))
           T == {s \in Seq(L) : IsPaired(Join(s)) /\ BeginsWell(Join(s))}
<1>0. L \subseteq Seq(B) /\ Seq(L) \subseteq Seq(Seq(B))
  BY DEF Within
<1>1. <<>> \in T
  BY JoinEmpty DEF IsPaired, BeginsWell
<1>2. ASSUME NEW s \in Seq(L), NEW e \in L, s \in T PROVE Append(s, e) \in T
  <2>1. s \in Seq(Seq(B)) /\ e \in Seq(B)
    BY <1>0
  <2>2. PICK J \in Seq(B) : J = Join(s)
    BY <2>1, JoinType
  <2>3. PICK end \in Seq(B) : end = e \o CRLF
    BY <2>1, ConcatProperties
  <2>4. Join(Append(s, e)) = J \o end
    <3>1. Join(Append(s, e)) = (J \o e) \o CRLF
      BY <2>1, <2>2, JoinAppend
    <3>2. AreSame((J \o e) \o CRLF, J \o (e \o CRLF))
      BY <2>1, Regroup1, Zenon
    <3>3. QED
      BY <2>3, <3>1, <3>2 DEF AreSame
  <2>5. IsPaired(e) /\ BeginsWell(e)
    <3>1. \A i \in 1..Len(e) : e[i] # "LF"
      BY DEF Within
    <3>2. \A i \in 2..Len(e) : i \in 1..Len(e)
      BY <2>1
    <3>3. e # <<>> => 1 \in 1..Len(e)
      BY <2>1, EmptySeq
    <3>4. QED
      BY <3>1, <3>2, <3>3 DEF IsPaired, BeginsWell
  <2>6. IsPaired(CRLF) /\ BeginsWell(CRLF)
    <3>1. CRLF = <<"CR", "LF">> /\ Len(CRLF) = 2 /\ CRLF[1] = "CR"
      BY DEF CRLF
    <3>2. \A i \in 2..2 : i - 1 = 1
      OBVIOUS
    <3>3. QED
      BY <3>1, <3>2 DEF IsPaired, BeginsWell
  <2>7. IsPaired(end) /\ BeginsWell(end)
    BY <2>1, <2>3, <2>5, <2>6, PairedConcat
  <2>8. IsPaired(J \o end) /\ BeginsWell(J \o end)
    BY <1>2, <2>2, <2>7, PairedConcat
  <2>9. Append(s, e) \in Seq(L)
    BY AppendProperties
  <2>10. QED
    BY <2>4, <2>8, <2>9
<1>3. Seq(L) \subseteq T
  <2> HIDE DEF T, L
  <2> QED BY <1>1, <1>2, SeqInduction
<1>4. QED
  BY <1>3

\* In a chunk that cuts no line end at its beginning, no line has one inside.
LEMMA SplitWithin ==
  ASSUME NEW B, CRLF \in Seq(B), NEW bytes \in Seq(B), IsPaired(bytes), BeginsWell(bytes)
  PROVE  Split(bytes) \in Seq(Seq(Within(B)))
<1> DEFINE C == Within(B)
           T == {b \in Seq(B) : IsPaired(b) /\ BeginsWell(b) => Split(b) \in Seq(Seq(C))}
<1>1. <<>> \in T
  <2>1. << <<>> >> \in Seq(Seq(C)) /\ <<>> \in Seq(B)
    OBVIOUS
  <2>2. Split(<<>>) \in Seq(Seq(C))
    BY <2>1, SplitEmpty, Zenon
  <2>3. QED
    BY <2>1, <2>2
<1>2. ASSUME NEW b \in Seq(B), NEW byte \in B, b \in T PROVE Append(b, byte) \in T
  <2> DEFINE one == <<byte>>
             lines == Split(b)
             front == Front(lines)
             last == Last(lines)
  <2>1. one \in Seq(B) /\ Append(b, byte) = b \o one /\ Append(b, byte) \in Seq(B)
    BY AppendIsConcat, AppendProperties
  <2>2. SUFFICES ASSUME IsPaired(Append(b, byte)), BeginsWell(Append(b, byte))
                 PROVE  Split(Append(b, byte)) \in Seq(Seq(C))
    BY <2>1
  <2>3. IsPaired(b) /\ BeginsWell(b)
    <3>1. PICK o \in Seq(B) : o = one
      BY <2>1
    <3>2. QED
      BY <2>1, <2>2, <3>1, PairedConcat
  <2>4. lines \in Seq(Seq(C)) /\ lines # <<>> /\ lines \in Seq(Seq(B))
    <3>1. lines \in Pieces(B)
      BY SplitType
    <3>2. QED
      BY <1>2, <2>3, <3>1 DEF Pieces
  <2>5. Split(Append(b, byte)) = AddByte(lines, byte)
    BY SplitAppend
  <2>6. Join(front) \o last = b
    BY JoinSplit
  <2> DEFINE L == Seq(C)
  <2>7. lines \in Seq(L)
    BY <2>4
  <2> HIDE DEF lines
  <2>8. front \in Seq(L) /\ last \in L
    <3> HIDE DEF L
    <3> QED BY <2>4, <2>7, FrontLast
  <2>9. front \in Seq(Seq(B)) /\ last \in Seq(B)
    BY <2>4, FrontLast
  <2>10. CASE byte # "LF"
    <3>1. Append(last, byte) \in Seq(C)
      <4>1. byte \in C
        BY <2>10 DEF Within
      <4>2. QED
        BY <2>8, <4>1, AppendProperties
    <3>2. AddByte(lines, byte) = Append(front, Append(last, byte))
      BY <2>10 DEF AddByte, EndsLine
    <3>3. QED
      BY <2>5, <2>8, <3>1, <3>2, AppendProperties
  <2>11. CASE byte = "LF"
    <3>1. PICK n \in Nat : n = Len(b)
      OBVIOUS
    <3>2. Len(Append(b, byte)) = n + 1 /\ Append(b, byte)[n + 1] = byte
          /\ \A i \in 1..n : Append(b, byte)[i] = b[i]
      BY <3>1, AppendProperties
    <3>3. n # 0
      <4>1. Append(b, byte) # <<>>
        BY AppendProperties
      <4>2. n = 0 => Append(b, byte)[1] = "LF"
        BY <2>11, <3>2
      <4>3. QED
        BY <2>2, <4>1, <4>2 DEF BeginsWell
    <3>4. b[n] = "CR"
      <4>1. n + 1 \in 2..(n + 1) /\ (n + 1) - 1 = n /\ n \in 1..n
        BY <3>3
      <4>2. QED
        BY <2>2, <2>11, <3>2, <4>1 DEF IsPaired
    <3>5. b # <<>> /\ Last(b) = "CR"
      BY <3>1, <3>3, <3>4 DEF Last
    <3>6. last # <<>>
      <4>1. SUFFICES ASSUME last = <<>>
                     PROVE  FALSE
        OBVIOUS
      <4>2. b = Join(front)
        <5>1. Join(front) \in Seq(B)
          BY <2>9, JoinType
        <5>2. Join(front) \o <<>> = Join(front)
          BY <5>1, ConcatEmptySeq
        <5>3. QED
          BY <2>6, <4>1, <5>2
      <4>3. front # <<>>
        BY <3>5, <4>2, JoinEmpty
      <4>4. Last(b) = "LF"
        BY <2>9, <4>2, <4>3, JoinLen
      <4>5. QED
        BY <3>5, <4>4
    <3>7. Last(last) = "CR"
      <4>1. PICK J \in Seq(B) : J = Join(front)
        BY <2>9, JoinType
      <4>2. PICK l \in Seq(B) : l = last
        BY <2>9
      <4>3. IsConcat(J, l, b)
        <5>1. IsConcat(J, l, J \o l)
          BY Concat, Zenon
        <5>2. QED
          BY <2>6, <4>1, <4>2, <5>1
      <4>4. PICK j \in Nat, k \in Nat : j = Len(J) /\ k = Len(l)
        OBVIOUS
      <4>5. k # 0
        BY <3>6, <4>2, <4>4, EmptySeq
      <4>6. n = j + k /\ b[n] = l[k]
        <5>1. k \in 1..k
          BY <4>5
        <5>2. QED
          BY <3>1, <4>3, <4>4, <5>1 DEF IsConcat
      <4>7. QED
        BY <3>4, <4>2, <4>4, <4>6 DEF Last
    <3>8. AddByte(lines, byte) = Append(front, Front(last)) \o << <<>> >>
      BY <2>11, <3>6, <3>7 DEF AddByte, EndsLine
    <3>9. Front(last) \in L
      BY <2>8, <3>6, FrontLast
    <3>10. Append(front, Front(last)) \in Seq(L) /\ << <<>> >> \in Seq(L)
      <4>1. <<>> \in L /\ << <<>> >> \in Seq(L)
        OBVIOUS
      <4>2. Append(front, Front(last)) \in Seq(L)
        <5> HIDE DEF L
        <5> QED BY <2>8, <3>9, AppendProperties
      <4>3. QED
        BY <4>1, <4>2
    <3>11. Append(front, Front(last)) \o << <<>> >> \in Seq(L)
      BY <3>10, ConcatProperties, Zenon
    <3>12. QED
      BY <2>5, <3>8, <3>11
  <2>12. QED
    BY <2>10, <2>11
<1>3. Seq(B) \subseteq T
  <2> HIDE DEF T
  <2> QED BY <1>1, <1>2, SeqInduction
<1>4. QED
  BY <1>3
================================================================================

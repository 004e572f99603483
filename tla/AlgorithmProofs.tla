-------------------------- MODULE AlgorithmProofs --------------------------
(***************************************************************************)
(* What the stateless code between a resolver and its upstream promises of *)
(* inputs of any size: the decoders of streams (core/grpc/stream.rs,       *)
(* core/graphql/sse_client.rs), the batching loaders (core/http, grpc and  *)
(* graphql/data_loader.rs), the keys answers are shared under, and the     *)
(* SQL of @postgres and @greptimedb (core/postgres/request_template.rs).   *)
(*                                                                         *)
(* The induction is over sets of naturals, from the library's theorem that *)
(* < is well-founded on them, so that no theorem has an operator for a     *)
(* parameter; that a recursive function exists is proved with it.          *)
(***************************************************************************)
EXTENDS Upstreams,
        SequenceTheorems, FiniteSetTheorems, WellFoundedInduction, TLAPS

Less == {p \in Nat \X Nat : p[1] < p[2]}

\* There is no infinite descent among the naturals.
LEMMA LessWellFounded == IsWellFoundedOn(Less, Nat)
<1>1. OpToRel(<, Nat) = Less
  BY DEF OpToRel, Less
<1> QED
  BY <1>1, NatLessThanWellFounded

\* A set of naturals has a least one.
LEMMA LeastNatural ==
    ASSUME NEW S, S \subseteq Nat, S # {}
    PROVE  \E n \in S : \A m \in S : n <= m
<1>1. PICK n \in S : \A m \in S : <<m, n>> \notin Less
  BY LessWellFounded, WFMin
<1>2. ASSUME NEW m \in S, m < n PROVE FALSE
  <2>1. m \in Nat /\ n \in Nat
    OBVIOUS
  <2>2. <<m, n>> \in Less
    BY ONLY <2>1, <1>2 DEF Less
  <2> QED
    BY <1>1, <2>2
<1>3. \A m \in S : m \in Nat
  OBVIOUS
<1> QED
  BY <1>2, <1>3

\* Induction, for a set in place of a predicate.
LEMMA SetInduction ==
    ASSUME NEW S, 0 \in S, \A n \in Nat : n \in S => n + 1 \in S
    PROVE  \A n \in Nat : n \in S
<1>1. SUFFICES ASSUME Nat \ S # {} PROVE FALSE
  OBVIOUS
<1>2. PICK n \in Nat \ S : \A m \in Nat \ S : n <= m
  BY <1>1, LeastNatural
<1>3. n - 1 \in Nat /\ n - 1 \in S
  BY <1>2
<1> QED
  BY <1>2, <1>3

\* A function defined by recursion over the naturals exists.
Partial(S, base, step, n) ==
    {f \in [0..n -> S] : f[0] = base /\ \A i \in Nat : i < n => f[i + 1] = step[<<i + 1, f[i]>>]}

\* Each beginning of it does,
LEMMA PartialExists ==
    ASSUME NEW S, NEW base \in S, NEW step \in [Nat \X S -> S]
    PROVE  \A n \in Nat : Partial(S, base, step, n) # {}
<1> DEFINE P(n) == Partial(S, base, step, n)
           Y == {n \in Nat : P(n) # {}}
<1>1. 0 \in Y
  <2>1. [i \in 0..0 |-> base] \in P(0)
    BY DEF Partial
  <2> QED
    BY <2>1
<1>2. ASSUME NEW n \in Nat, n \in Y PROVE n + 1 \in Y
  <2>1. PICK f \in P(n) : TRUE
    BY <1>2
  <2>2. /\ f \in [0..n -> S] /\ f[0] = base
        /\ \A i \in Nat : i < n => f[i + 1] = step[<<i + 1, f[i]>>]
    BY <2>1 DEF Partial
  <2> DEFINE g == [i \in 0..(n + 1) |-> IF i <= n THEN f[i] ELSE step[<<n + 1, f[n]>>]]
  <2>3. g \in [0..(n + 1) -> S]
    <3>1. step[<<n + 1, f[n]>>] \in S
      BY <2>2
    <3> QED
      BY <2>2, <3>1
  <2>4. g[0] = base
    BY <2>2
  <2>5. ASSUME NEW i \in Nat, i < n + 1 PROVE g[i + 1] = step[<<i + 1, g[i]>>]
    <3>1. g[i] = f[i] /\ (i < n \/ i = n)
      BY <2>5
    <3>2. CASE i = n
      <4>1. g[n + 1] = step[<<n + 1, f[n]>>]
        OBVIOUS
      <4> QED
        BY <3>1, <3>2, <4>1
    <3>3. CASE i < n
      <4>1. g[i + 1] = f[i + 1]
        BY <3>3
      <4>2. f[i + 1] = step[<<i + 1, f[i]>>]
        BY <2>2, <3>3
      <4> QED
        BY <3>1, <4>1, <4>2
    <3> QED
      BY <3>1, <3>2, <3>3
  <2>6. g \in P(n + 1)
    BY <2>3, <2>4, <2>5 DEF Partial
  <2> QED
    BY <2>6
<1> HIDE DEF P, Y
<1>3. \A n \in Nat : n \in Y
  BY <1>1, <1>2, SetInduction
<1> QED
  BY <1>3 DEF Y, P

\* and they agree,
LEMMA PartialAgree ==
    ASSUME NEW S, NEW base \in S, NEW step \in [Nat \X S -> S],
           NEW n \in Nat, NEW m \in Nat, n <= m,
           NEW f \in Partial(S, base, step, n), NEW g \in Partial(S, base, step, m)
    PROVE  \A i \in 0..n : f[i] = g[i]
<1> DEFINE Y == {i \in Nat : i <= n => f[i] = g[i]}
<1>1. 0 \in Y
  BY DEF Partial
<1>2. ASSUME NEW i \in Nat, i \in Y PROVE i + 1 \in Y
  <2>1. SUFFICES ASSUME i + 1 <= n PROVE f[i + 1] = g[i + 1]
    OBVIOUS
  <2>2. f[i] = g[i] /\ i < n /\ i < m
    BY <1>2, <2>1
  <2>3. f[i + 1] = step[<<i + 1, f[i]>>] /\ g[i + 1] = step[<<i + 1, g[i]>>]
    BY <2>2 DEF Partial
  <2> QED
    BY <2>2, <2>3
<1> HIDE DEF Y
<1>3. \A i \in Nat : i \in Y
  BY <1>1, <1>2, SetInduction
<1> QED
  BY <1>3 DEF Y

\* so that they make one function: decode()'s loop, whatever its length.
Recursions(S, base, step) ==
    {f \in [Nat -> S] : f[0] = base /\ \A n \in Nat : f[n + 1] = step[<<n + 1, f[n]>>]}

\* There is a function of that recursion.
LEMMA RecursionExists ==
    ASSUME NEW S, NEW base \in S, NEW step \in [Nat \X S -> S]
    PROVE  Recursions(S, base, step) # {}
<1> DEFINE P(n) == Partial(S, base, step, n)
           part(n) == CHOOSE f \in P(n) : TRUE
           f == [n \in Nat |-> part(n)[n]]
<1>1. \A n \in Nat : part(n) \in P(n)
  BY PartialExists
<1>2. \A n \in Nat : part(n) \in [0..n -> S] /\ part(n)[0] = base
  BY <1>1 DEF Partial
<1>3. f \in [Nat -> S] /\ f[0] = base
  BY <1>2
<1>4. ASSUME NEW n \in Nat PROVE f[n + 1] = step[<<n + 1, f[n]>>]
  <2>1. part(n)[n] = part(n + 1)[n]
    <3>1. n + 1 \in Nat /\ n <= n + 1 /\ n \in 0..n
      OBVIOUS
    <3>2. /\ part(n) \in Partial(S, base, step, n)
          /\ part(n + 1) \in Partial(S, base, step, n + 1)
      BY <1>1, <3>1
    <3> HIDE DEF part, P
    <3>3. \A i \in 0..n : part(n)[i] = part(n + 1)[i]
      BY ONLY base \in S, step \in [Nat \X S -> S], <3>1, <3>2, PartialAgree
    <3> QED
      BY <3>1, <3>3
  <2>2. part(n + 1)[n + 1] = step[<<n + 1, part(n + 1)[n]>>]
    <3>1. part(n + 1) \in Partial(S, base, step, n + 1) /\ n < n + 1
      BY <1>1
    <3> HIDE DEF part, P
    <3> QED
      BY <3>1 DEF Partial
  <2> QED
    BY <2>1, <2>2
<1> HIDE DEF f
<1>5. f \in Recursions(S, base, step)
  BY <1>3, <1>4 DEF Recursions
<1> QED
  BY <1>5

-----------------------------------------------------------------------------
\* What a concatenation has at its end.
LEMMA SubSeqBack ==
    ASSUME NEW B, NEW s \in Seq(B), NEW t \in Seq(B), NEW m \in 1..(Len(s) + 1)
    PROVE  SubSeq(s \o t, m, Len(s \o t)) = SubSeq(s, m, Len(s)) \o t
<1> DEFINE l == SubSeq(s \o t, m, Len(s \o t))
           a == SubSeq(s, m, Len(s))
<1>1. /\ s \o t \in Seq(B) /\ Len(s \o t) = Len(s) + Len(t)
      /\ \A i \in 1..(Len(s) + Len(t)) : (s \o t)[i] = IF i <= Len(s) THEN s[i] ELSE t[i - Len(s)]
  BY ConcatProperties
<1>2. Len(s) \in Nat /\ Len(t) \in Nat /\ m \in Nat
  BY LenProperties
<1>3. \A i \in m..Len(s \o t) : (s \o t)[i] \in B
  BY <1>1, <1>2, ElementOfSeq
<1>4. /\ l \in Seq(B) /\ Len(l) = Len(s) + Len(t) - m + 1
      /\ \A i \in 1..(Len(s) + Len(t) - m + 1) : l[i] = (s \o t)[m + i - 1]
  <2> DEFINE u == s \o t
             n == Len(u)
  <2>1. n \in Nat /\ n = Len(s) + Len(t) /\ m <= n + 1 /\ m \in 1..(n + 1)
    BY <1>1, <1>2
  <2>2. \A i \in m..n : u[i] \in B
    BY <1>3
  <2> HIDE DEF u, n
  <2>3. /\ SubSeq(u, m, n) \in Seq(B) /\ Len(SubSeq(u, m, n)) = IF m <= n THEN n - m + 1 ELSE 0
        /\ \A i \in 1..(n - m + 1) : SubSeq(u, m, n)[i] = u[m + i - 1]
    BY ONLY <2>1, <2>2, <1>2, SubSeqProperties
  <2>4. Len(SubSeq(u, m, n)) = n - m + 1
    BY <1>2, <2>1, <2>3
  <2> QED
    BY <2>1, <2>3, <2>4 DEF u, n
<1>5. \A i \in m..Len(s) : s[i] \in B
  BY <1>2, ElementOfSeq
<1>6. /\ a \in Seq(B) /\ Len(a) = Len(s) - m + 1
      /\ \A i \in 1..(Len(s) - m + 1) : a[i] = s[m + i - 1]
  BY <1>2, <1>5, SubSeqProperties
<1>7. /\ a \o t \in Seq(B) /\ Len(a \o t) = Len(l)
      /\ \A i \in 1..Len(l) : (a \o t)[i] = IF i <= Len(a) THEN a[i] ELSE t[i - Len(a)]
  <2>1. a \in Seq(B)
    BY <1>6
  <2> HIDE DEF a
  <2>2. /\ a \o t \in Seq(B) /\ Len(a \o t) = Len(a) + Len(t)
        /\ \A i \in 1..(Len(a) + Len(t)) : (a \o t)[i] = IF i <= Len(a) THEN a[i] ELSE t[i - Len(a)]
    BY ONLY <2>1, t \in Seq(B), ConcatProperties
  <2>3. Len(l) = Len(a) + Len(t)
    BY <1>2, <1>4, <1>6
  <2> QED
    BY ONLY <2>2, <2>3
<1>8. ASSUME NEW i \in 1..Len(l) PROVE l[i] = (a \o t)[i]
  <2>1. m + i - 1 \in 1..(Len(s) + Len(t)) /\ i \in 1..(Len(s) + Len(t) - m + 1)
    BY <1>2, <1>4
  <2>2. l[i] = IF m + i - 1 <= Len(s) THEN s[m + i - 1] ELSE t[m + i - 1 - Len(s)]
    BY <1>1, <1>4, <2>1
  <2>3. (m + i - 1 <= Len(s)) <=> i <= Len(a)
    BY <1>2, <1>6
  <2>4. i - Len(a) = m + i - 1 - Len(s)
    BY <1>2, <1>6
  <2>5. i <= Len(a) => a[i] = s[m + i - 1]
    BY <1>6, <1>2
  <2> HIDE DEF l, a
  <2> QED
    BY <1>7, <2>2, <2>3, <2>4, <2>5
<1> HIDE DEF l, a
<1>9. l = a \o t
  BY <1>4, <1>7, <1>8, SeqEqual
<1> QED
  BY <1>9 DEF l, a

\* and at its beginning.
LEMMA SubSeqFront ==
    ASSUME NEW B, NEW s \in Seq(B), NEW t \in Seq(B), NEW m \in Nat \ {0}, NEW n \in 0..Len(s)
    PROVE  SubSeq(s \o t, m, n) = SubSeq(s, m, n)
<1>1. CASE n < m
  BY <1>1, SubSeqEmpty, LenProperties
<1>2. CASE m <= n
  <2>1. m \in 1..Len(s) /\ n \in 1..Len(s)
    BY <1>2, LenProperties
  <2> QED
    BY <2>1, SubSeqOfConcat1
<1> QED
  BY <1>1, <1>2

\* The values a decoder yields, and its states.
Texts(Byte) == Seq(Byte) \cup {ExtractData(block) : block \in Seq(Byte)}
Decoders(Byte) == [buffer : Seq(Byte), out : Seq(Texts(Byte))]
Units(Byte) == [rest : Seq(Byte), out : Seq(Texts(Byte))]

\* What more bytes do to a unit: they stay behind it.
Stable(kind, buffer, Byte) ==
    \E u \in Units(Byte) :
        /\ Next(kind, buffer) = <<u>> /\ Len(u.rest) < Len(buffer)
        /\ \A more \in Seq(Byte) :
              Next(kind, buffer \o more) = Unit(u.rest \o more, u.out)

\* GrpcFrameDecoder: a whole frame is one whatever follows.
LEMMA GrpcStable ==
    ASSUME NEW Byte, Byte \subseteq Nat, NEW b \in Seq(Byte), GrpcFrame(b) # <<>>
    PROVE  Stable("grpc", b, Byte)
<1> DEFINE n == MessageLength(b)
           rest == SubSeq(b, 6 + n, Len(b))
           message == SubSeq(b, 6, 5 + n)
           u == [rest |-> rest, out |-> <<message>>]
<1>1. Len(b) \in Nat /\ Len(b) >= 5
  BY LenProperties DEF GrpcFrame
<1>2. b[2] \in Nat /\ b[3] \in Nat /\ b[4] \in Nat /\ b[5] \in Nat
  <2>1. 2 \in 1..Len(b) /\ 3 \in 1..Len(b) /\ 4 \in 1..Len(b) /\ 5 \in 1..Len(b)
    BY <1>1
  <2>2. \A i \in 1..Len(b) : b[i] \in Byte
    BY ONLY b \in Seq(Byte), ElementOfSeq
  <2> QED
    BY <2>1, <2>2
<1>3. n \in Nat
  <2> DEFINE x == b[2] * 256 + b[3]
             y == x * 256 + b[4]
             z == y * 256 + b[5]
  <2>1. \A high, low \in Nat : high * 256 + low \in Nat
    OBVIOUS
  <2>2. x \in Nat
    BY <1>2, <2>1
  <2> HIDE DEF x
  <2>3. y \in Nat
    BY <1>2, <2>1, <2>2
  <2> HIDE DEF y
  <2>4. z \in Nat
    BY <1>2, <2>1, <2>3
  <2>5. n = z
    BY DEF MessageLength, x, y
  <2> QED
    BY <2>4, <2>5
<1>4. Len(b) >= 5 + n /\ GrpcFrame(b) = <<u>>
  <2> DEFINE l == MessageLength(b)
  <2>1. GrpcFrame(b) = IF Len(b) < 5 \/ Len(b) < 5 + l THEN <<>> ELSE <<u>>
    BY DEF GrpcFrame, Unit
  <2>2. l \in Nat
    BY <1>3
  <2> HIDE DEF l, u
  <2>3. ~(Len(b) < 5 \/ Len(b) < 5 + l)
    BY ONLY <2>1, GrpcFrame(b) # <<>>
  <2>4. Len(b) >= 5 + l
    BY ONLY <1>1, <2>2, <2>3
  <2>5. GrpcFrame(b) = <<u>>
    BY ONLY <2>1, <2>3
  <2> QED
    BY <2>4, <2>5 DEF l
<1>5. rest \in Seq(Byte) /\ Len(rest) < Len(b)
  <2>1. \A i \in (6 + n)..Len(b) : b[i] \in Byte
    BY <1>1, <1>3, ElementOfSeq
  <2> QED
    BY <1>1, <1>3, <1>4, <2>1, SubSeqProperties
<1>6. message \in Seq(Byte)
  <2>1. \A i \in 6..(5 + n) : b[i] \in Byte
    BY <1>1, <1>3, <1>4, ElementOfSeq
  <2> QED
    BY <1>3, <2>1, SubSeqProperties
<1>7. u \in Units(Byte)
  BY <1>5, <1>6 DEF Units, Texts
<1>8. ASSUME NEW more \in Seq(Byte)
      PROVE  Next("grpc", b \o more) = Unit(rest \o more, <<message>>)
  <2>1. /\ Len(b \o more) \in Nat /\ Len(b \o more) >= Len(b)
        /\ \A i \in 1..Len(b) : (b \o more)[i] = b[i]
    BY <1>1, ConcatProperties, LenProperties
  <2>2. MessageLength(b \o more) = n
    BY <1>1, <2>1 DEF MessageLength
  <2>3. SubSeq(b \o more, 6 + n, Len(b \o more)) = rest \o more
    <3>1. 6 + n \in 1..(Len(b) + 1)
      BY <1>1, <1>3, <1>4
    <3> QED
      BY <3>1, SubSeqBack
  <2>4. SubSeq(b \o more, 6, 5 + n) = message
    <3>1. 6 \in Nat \ {0} /\ 5 + n \in 0..Len(b)
      BY <1>1, <1>3, <1>4
    <3> QED
      BY <3>1, SubSeqFront
  <2>5. GrpcFrame(b \o more) = Unit(rest \o more, <<message>>)
    <3> DEFINE c == b \o more
    <3>1. GrpcFrame(c) = IF Len(c) < 5 \/ Len(c) < 5 + n THEN <<>>
                         ELSE Unit(rest \o more, <<message>>)
      BY <2>2, <2>3, <2>4 DEF GrpcFrame
    <3>2. n \in Nat /\ Len(b) \in Nat /\ Len(c) \in Nat /\ Len(c) >= Len(b) /\ Len(b) >= 5 + n
      BY <1>1, <1>3, <1>4, <2>1
    <3> HIDE DEF n, rest, message, c
    <3>3. ~(Len(c) < 5 \/ Len(c) < 5 + n)
      BY ONLY <3>2
    <3> QED
      BY ONLY <3>1, <3>3 DEF c
  <2> QED
    BY <2>5 DEF Next
<1> QED
  BY <1>4, <1>5, <1>7, <1>8 DEF Stable, Next

\* SseEventParser: the first blank line is the first whatever follows.
LEMMA SseStable ==
    ASSUME NEW Byte, NEW kind, kind # "grpc", NEW b \in Seq(Byte), SseEvent(b) # <<>>
    PROVE  Stable(kind, b, Byte)
<1> DEFINE at == Min(BlankLine(b))
           rest == SubSeq(b, at + 2, Len(b))
           block == SubSeq(b, 1, at - 1)
           out == EventOf(ExtractData(block))
           u == [rest |-> rest, out |-> out]
<1>1. BlankLine(b) # {} /\ SseEvent(b) = <<u>>
  BY DEF SseEvent, EventBefore, Unit
<1>2. Len(b) \in Nat /\ BlankLine(b) \subseteq Nat
  BY LenProperties DEF BlankLine
<1>3. at \in BlankLine(b) /\ \A i \in BlankLine(b) : at <= i
  BY <1>1, <1>2, LeastNatural DEF Min
<1>4. at \in 1..(Len(b) - 1) /\ b[at] = "\n" /\ b[at + 1] = "\n"
  BY <1>3 DEF BlankLine
<1> HIDE DEF at
<1>5. rest \in Seq(Byte) /\ Len(rest) < Len(b)
  <2>1. \A i \in (at + 2)..Len(b) : b[i] \in Byte
    BY <1>2, <1>4, ElementOfSeq
  <2> QED
    BY <1>2, <1>4, <2>1, SubSeqProperties
<1>6. block \in Seq(Byte)
  <2>1. \A i \in 1..(at - 1) : b[i] \in Byte
    BY <1>2, <1>4, ElementOfSeq
  <2> QED
    BY <1>4, <2>1, SubSeqProperties
<1>7. u \in Units(Byte)
  <2> DEFINE data == ExtractData(block)
  <2>1. data \in Texts(Byte)
    BY <1>6 DEF Texts
  <2> HIDE DEF data, block
  <2>2. EventOf(data) \in Seq(Texts(Byte))
    BY ONLY <2>1 DEF EventOf
  <2>3. out \in Seq(Texts(Byte)) /\ rest \in Seq(Byte)
    BY <1>5, <2>2 DEF data
  <2> HIDE DEF out, rest
  <2> QED
    BY ONLY <2>3 DEF Units
<1>8. ASSUME NEW more \in Seq(Byte)
      PROVE  Next(kind, b \o more) = Unit(rest \o more, out)
  <2>1. /\ Len(b \o more) \in Nat /\ Len(b \o more) >= Len(b)
        /\ \A i \in 1..Len(b) : (b \o more)[i] = b[i]
    BY <1>2, ConcatProperties, LenProperties
  <2>2. at \in BlankLine(b \o more)
    BY <1>2, <1>4, <2>1 DEF BlankLine
  <2>3. ASSUME NEW i \in BlankLine(b \o more), i < at PROVE FALSE
    <3>1. i \in BlankLine(b)
      BY <1>2, <1>4, <2>1, <2>3 DEF BlankLine
    <3> QED
      BY <1>2, <1>3, <2>3, <3>1
  <2>4. Min(BlankLine(b \o more)) = at
    <3>1. \A i \in BlankLine(b \o more) : i \in Nat /\ at <= i
      BY <1>4, <2>1, <2>3 DEF BlankLine
    <3>2. \A j \in BlankLine(b \o more) :
              (\A i \in BlankLine(b \o more) : j <= i) => j = at
      BY <1>2, <1>4, <2>2, <3>1
    <3> QED
      BY <2>2, <3>1, <3>2 DEF Min
  <2>5. SubSeq(b \o more, at + 2, Len(b \o more)) = rest \o more
    <3>1. at + 2 \in 1..(Len(b) + 1)
      BY <1>2, <1>4
    <3> QED
      BY <3>1, SubSeqBack
  <2>6. SubSeq(b \o more, 1, at - 1) = block
    <3>1. 1 \in Nat \ {0} /\ at - 1 \in 0..Len(b)
      BY <1>2, <1>4
    <3> QED
      BY <3>1, SubSeqFront
  <2> QED
    BY <2>2, <2>4, <2>5, <2>6 DEF Next, SseEvent, EventBefore
<1> QED
  BY <1>1, <1>5, <1>7, <1>8 DEF Stable, Next

-----------------------------------------------------------------------------
\* What a decoder may be given: the length of a gRPC message is a number.
Decodable(kind, Byte) == kind = "grpc" => Byte \subseteq Nat

\* decode(): a turn leaves a decoder, with fewer bytes, or changes nothing.
LEMMA TurnShortens ==
    ASSUME NEW Byte, NEW kind, Decodable(kind, Byte), NEW s \in Decoders(Byte)
    PROVE  /\ Turn(kind, s) \in Decoders(Byte)
           /\ Next(kind, s.buffer) = <<>> => Turn(kind, s) = s
           /\ Next(kind, s.buffer) # <<>> => /\ Stable(kind, s.buffer, Byte)
                                             /\ Len(Turn(kind, s).buffer) < Len(s.buffer)
<1>1. s.buffer \in Seq(Byte) /\ s.out \in Seq(Texts(Byte))
  BY DEF Decoders
<1>2. CASE Next(kind, s.buffer) = <<>>
  BY <1>2 DEF Turn, TakeUnit
<1>3. CASE Next(kind, s.buffer) # <<>>
  <2>1. Stable(kind, s.buffer, Byte)
    <3>1. CASE kind = "grpc"
      BY <1>1, <1>3, <3>1, GrpcStable DEF Next, Decodable
    <3>2. CASE kind # "grpc"
      BY <1>1, <1>3, <3>2, SseStable DEF Next
    <3> QED
      BY <3>1, <3>2
  <2>2. PICK u \in Units(Byte) : Next(kind, s.buffer) = <<u>> /\ Len(u.rest) < Len(s.buffer)
    BY <2>1 DEF Stable
  <2>3. Turn(kind, s) = [buffer |-> u.rest, out |-> s.out \o u.out]
    BY <2>2 DEF Turn, TakeUnit
  <2>4. u.rest \in Seq(Byte) /\ u.out \in Seq(Texts(Byte))
    BY DEF Units
  <2>5. s.out \o u.out \in Seq(Texts(Byte))
    BY ONLY <1>1, <2>4, ConcatProperties
  <2>6. Turn(kind, s) \in Decoders(Byte)
    BY <2>3, <2>4, <2>5 DEF Decoders
  <2> QED
    BY <1>3, <2>1, <2>2, <2>3, <2>6
<1> QED
  BY <1>2, <1>3

\* The turns of decode()'s loop, one after the other.
Turns(kind, s, Byte) ==
    {after \in [Nat -> Decoders(Byte)] :
        after[0] = s /\ \A n \in Nat : after[n + 1] = Turn(kind, after[n])}

\* decode(): the loop's turns, and where Drain() takes it.
LEMMA TurnsExist ==
    ASSUME NEW Byte, NEW kind, Decodable(kind, Byte), NEW s \in Decoders(Byte)
    PROVE  \E after \in Turns(kind, s, Byte) : Drain(kind, s) = after[Len(s.buffer)]
<1> DEFINE Loop(after) == [n \in Nat |-> IF n = 0 THEN s ELSE Turn(kind, after[n - 1])]
           step == [p \in Nat \X Decoders(Byte) |-> Turn(kind, p[2])]
           run == CHOOSE after : after = Loop(after)
<1>1. step \in [Nat \X Decoders(Byte) -> Decoders(Byte)]
  <2>1. \A p \in Nat \X Decoders(Byte) : Turn(kind, p[2]) \in Decoders(Byte)
    BY TurnShortens
  <2> QED
    BY <2>1
<1>2. PICK f \in [Nat -> Decoders(Byte)] :
          f[0] = s /\ \A n \in Nat : f[n + 1] = step[<<n + 1, f[n]>>]
  <2> DEFINE D == Decoders(Byte)
  <2>1. step \in [Nat \X D -> D] /\ s \in D
    BY <1>1
  <2> HIDE DEF step, D
  <2>2. Recursions(D, s, step) # {}
    BY ONLY <2>1, RecursionExists
  <2> QED
    BY <2>2 DEF D, Recursions
<1>3. ASSUME NEW n \in Nat PROVE f[n + 1] = Turn(kind, f[n])
  <2>1. <<n + 1, f[n]>> \in Nat \X Decoders(Byte)
    OBVIOUS
  <2>2. step[<<n + 1, f[n]>>] = Turn(kind, f[n])
    BY <2>1
  <2> QED
    BY <1>2, <2>2
<1>4. f = Loop(f)
  <2>1. ASSUME NEW n \in Nat PROVE f[n] = Loop(f)[n]
    <3>1. CASE n = 0
      BY <1>2, <3>1
    <3>2. CASE n # 0
      <4>1. n - 1 \in Nat /\ (n - 1) + 1 = n
        BY <3>2
      <4>2. f[n] = Turn(kind, f[n - 1])
        BY <1>3, <4>1
      <4> QED
        BY <3>2, <4>2
    <3> QED
      BY <3>1, <3>2
  <2> QED
    BY <2>1
<1>5. run = Loop(run)
  <2> HIDE DEF Loop
  <2> QED
    BY <1>4
<1>6. run[0] = s /\ DOMAIN run = Nat
  BY ONLY <1>5
<1>7. ASSUME NEW n \in Nat PROVE run[n + 1] = Turn(kind, run[n])
  <2>1. n + 1 \in Nat /\ n + 1 # 0 /\ (n + 1) - 1 = n
    OBVIOUS
  <2> HIDE DEF run
  <2>2. run[n + 1] = Turn(kind, run[(n + 1) - 1])
    BY ONLY <1>5, <2>1
  <2> QED
    BY <2>1, <2>2
<1> HIDE DEF run
<1>8. \A n \in Nat : run[n] \in Decoders(Byte)
  <2> DEFINE Y == {n \in Nat : run[n] \in Decoders(Byte)}
  <2>1. 0 \in Y
    BY <1>6
  <2>2. \A n \in Nat : n \in Y => n + 1 \in Y
    BY <1>7, TurnShortens
  <2> HIDE DEF Y
  <2>3. \A n \in Nat : n \in Y
    BY <2>1, <2>2, SetInduction
  <2> QED
    BY <2>3 DEF Y
<1>9. run \in [Nat -> Decoders(Byte)]
  BY <1>5, <1>6, <1>8
<1>10. run \in Turns(kind, s, Byte)
  BY <1>6, <1>7, <1>9 DEF Turns
<1>11. Drain(kind, s) = run[Len(s.buffer)]
  BY DEF Drain, run
<1> QED
  BY <1>10, <1>11

\* A decoder has only one course of turns,
LEMMA TurnsAgree ==
    ASSUME NEW Byte, NEW kind, NEW s, NEW f \in Turns(kind, s, Byte),
           NEW g \in Turns(kind, s, Byte)
    PROVE  f = g
<1> DEFINE Y == {n \in Nat : f[n] = g[n]}
<1>1. 0 \in Y
  BY DEF Turns
<1>2. \A n \in Nat : n \in Y => n + 1 \in Y
  BY DEF Turns
<1> HIDE DEF Y
<1>3. \A n \in Nat : n \in Y
  BY <1>1, <1>2, SetInduction
<1> QED
  BY <1>3 DEF Y, Turns

\* which ends within as many turns as there are bytes,
LEMMA TurnsEnd ==
    ASSUME NEW Byte, NEW kind, Decodable(kind, Byte), NEW s \in Decoders(Byte),
           NEW f \in Turns(kind, s, Byte)
    PROVE  Next(kind, f[Len(s.buffer)].buffer) = <<>>
<1> DEFINE Done(n) == Next(kind, f[n].buffer) = <<>>
           Y == {n \in Nat : Done(n) \/ Len(f[n].buffer) + n <= Len(s.buffer)}
<1>1. /\ f[0] = s
      /\ \A n \in Nat : f[n] \in Decoders(Byte) /\ f[n + 1] = Turn(kind, f[n])
  BY DEF Turns
<1>2. Len(s.buffer) \in Nat /\ \A n \in Nat : Len(f[n].buffer) \in Nat
  <2>1. ASSUME NEW d \in Decoders(Byte) PROVE Len(d.buffer) \in Nat
    <3>1. d.buffer \in Seq(Byte)
      BY DEF Decoders
    <3> QED
      BY ONLY <3>1, LenProperties
  <2> QED
    BY <1>1, <2>1
<1>3. 0 \in Y
  BY <1>1, <1>2
<1>4. ASSUME NEW n \in Nat, n \in Y PROVE n + 1 \in Y
  <2>1. CASE Done(n)
    <3>1. f[n + 1] = f[n]
      BY <1>1, <2>1, TurnShortens
    <3> QED
      BY <2>1, <3>1
  <2>2. CASE ~Done(n)
    <3>1. Len(f[n + 1].buffer) < Len(f[n].buffer)
      BY <1>1, <2>2, TurnShortens
    <3>2. Len(f[n].buffer) + n <= Len(s.buffer)
      BY <1>4, <2>2
    <3>3. /\ Len(f[n].buffer) \in Nat /\ Len(f[n + 1].buffer) \in Nat
          /\ Len(s.buffer) \in Nat
      BY <1>1, <1>2
    <3> DEFINE was == Len(f[n].buffer)
               is == Len(f[n + 1].buffer)
               all == Len(s.buffer)
    <3>4. is < was /\ was + n <= all /\ was \in Nat /\ is \in Nat /\ all \in Nat
      BY <3>1, <3>2, <3>3
    <3> HIDE DEF was, is, all
    <3>5. is + (n + 1) <= all
      BY ONLY <3>4, n \in Nat
    <3>6. n + 1 \in Nat
      OBVIOUS
    <3> HIDE DEF Done
    <3> QED
      BY ONLY <3>5, <3>6 DEF is, all
  <2> QED
    BY <2>1, <2>2
<1>5. \A n \in Nat : n \in Y
  <2> HIDE DEF Y
  <2> QED
    BY <1>3, <1>4, SetInduction
<1> DEFINE last == Len(s.buffer)
<1>6. last \in Nat
  BY <1>1, <1>2
<1>7. SUFFICES ASSUME ~Done(last) PROVE FALSE
  OBVIOUS
<1>8. Len(f[last].buffer) + last <= last
  BY <1>5, <1>6, <1>7
<1>9. Len(f[last + 1].buffer) < Len(f[last].buffer)
  BY <1>1, <1>6, <1>7, TurnShortens
<1>10. Len(f[last].buffer) \in Nat /\ Len(f[last + 1].buffer) \in Nat
  BY <1>2, <1>6
<1> HIDE DEF last
<1> QED
  BY ONLY <1>6, <1>8, <1>9, <1>10

\* where decode() stops, wherever that is.
LEMMA DrainIsTheEnd ==
    ASSUME NEW Byte, NEW kind, Decodable(kind, Byte), NEW s \in Decoders(Byte),
           NEW f \in Turns(kind, s, Byte), NEW n \in Nat,
           Next(kind, f[n].buffer) = <<>>
    PROVE  Drain(kind, s) = f[n]
<1>1. ASSUME NEW i \in Nat, Next(kind, f[i].buffer) = <<>>
      PROVE  \A k \in Nat : f[i + k] = f[i]
  <2> DEFINE Y == {k \in Nat : f[i + k] = f[i]}
  <2>1. 0 \in Y
    OBVIOUS
  <2>2. ASSUME NEW k \in Nat, k \in Y PROVE k + 1 \in Y
    <3>1. f[i] \in Decoders(Byte) /\ f[(i + k) + 1] = Turn(kind, f[i + k])
      BY DEF Turns
    <3>2. f[(i + k) + 1] = f[i]
      BY <1>1, <2>2, <3>1, TurnShortens
    <3>3. (i + k) + 1 = i + (k + 1)
      OBVIOUS
    <3> QED
      BY <3>2, <3>3
  <2> HIDE DEF Y
  <2>3. \A k \in Nat : k \in Y
    BY <2>1, <2>2, SetInduction
  <2> QED
    BY <2>3 DEF Y
<1> DEFINE last == Len(s.buffer)
<1>2. Drain(kind, s) = f[last]
  BY TurnsExist, TurnsAgree
<1>3. Next(kind, f[last].buffer) = <<>>
  BY TurnsEnd
<1>4. last \in Nat
  BY LenProperties DEF Decoders
<1> HIDE DEF last
<1>5. CASE n <= last
  <2>1. last - n \in Nat /\ n + (last - n) = last
    BY <1>4, <1>5
  <2>2. f[n + (last - n)] = f[n]
    BY ONLY <1>1, <2>1, n \in Nat, Next(kind, f[n].buffer) = <<>>
  <2> QED
    BY <1>2, <2>1, <2>2
<1>6. CASE last < n
  <2>1. n - last \in Nat /\ last + (n - last) = n
    BY <1>4, <1>6
  <2>2. f[last + (n - last)] = f[last]
    BY ONLY <1>1, <1>3, <1>4, <2>1
  <2> QED
    BY <1>2, <2>1, <2>2
<1> QED
  BY <1>4, <1>5, <1>6

\* decode(): it makes no difference to break off after a turn.
LEMMA DrainAfterTurn ==
    ASSUME NEW Byte, NEW kind, Decodable(kind, Byte), NEW s \in Decoders(Byte)
    PROVE  Drain(kind, Turn(kind, s)) = Drain(kind, s)
<1> DEFINE t == Turn(kind, s)
           last == Len(s.buffer)
<1>1. PICK f \in Turns(kind, s, Byte) : Drain(kind, s) = f[last]
  BY TurnsExist
<1>2. /\ f \in [Nat -> Decoders(Byte)] /\ f[0] = s
      /\ \A n \in Nat : f[n + 1] = Turn(kind, f[n])
  BY DEF Turns
<1> DEFINE g == [n \in Nat |-> f[n + 1]]
<1>3. last \in Nat /\ t \in Decoders(Byte)
  BY LenProperties, TurnShortens DEF Decoders
<1>4. g \in Turns(kind, t, Byte)
  <2>1. g[0] = t
    <3>1. f[0 + 1] = Turn(kind, f[0])
      BY <1>2
    <3> QED
      BY <1>2, <3>1
  <2>2. ASSUME NEW n \in Nat PROVE g[n + 1] = Turn(kind, g[n])
    <3>1. n + 1 \in Nat /\ f[(n + 1) + 1] = Turn(kind, f[n + 1])
      BY <1>2
    <3> QED
      BY <3>1
  <2>3. g \in [Nat -> Decoders(Byte)]
    BY <1>2
  <2> QED
    BY <2>1, <2>2, <2>3 DEF Turns
<1>5. Next(kind, f[last].buffer) = <<>>
  BY TurnsEnd
<1>6. g[last] = f[last]
  <2>1. f[last] \in Decoders(Byte) /\ f[last + 1] = Turn(kind, f[last])
    BY <1>2, <1>3
  <2>2. f[last + 1] = f[last]
    BY <1>5, <2>1, TurnShortens
  <2> QED
    BY <1>3, <2>2
<1>7. Drain(kind, t) = g[last]
  <2>1. Next(kind, g[last].buffer) = <<>>
    BY <1>5, <1>6
  <2> HIDE DEF g, last, t
  <2> QED
    BY ONLY Decodable(kind, Byte), <1>3, <1>4, <2>1, DrainIsTheEnd
<1> QED
  BY <1>1, <1>6, <1>7

\* The bytes that arrive next.
Fed(s, chunk) == [buffer |-> s.buffer \o chunk, out |-> s.out]

\* A decoder given more bytes is a decoder.
LEMMA FedIsDecoder ==
    ASSUME NEW Byte, NEW s \in Decoders(Byte), NEW chunk \in Seq(Byte)
    PROVE  Fed(s, chunk) \in Decoders(Byte)
<1>1. s.buffer \in Seq(Byte) /\ s.out \in Seq(Texts(Byte))
  BY DEF Decoders
<1>2. s.buffer \o chunk \in Seq(Byte)
  BY ONLY <1>1, chunk \in Seq(Byte), ConcatProperties
<1> QED
  BY <1>1, <1>2 DEF Fed, Decoders

\* decode(): nor does it make one to take a turn before the next bytes arrive,
LEMMA TurnThenFed ==
    ASSUME NEW Byte, NEW kind, Decodable(kind, Byte), NEW s \in Decoders(Byte),
           NEW chunk \in Seq(Byte)
    PROVE  Drain(kind, Fed(Turn(kind, s), chunk)) = Drain(kind, Fed(s, chunk))
<1>1. CASE Next(kind, s.buffer) = <<>>
  BY <1>1, TurnShortens
<1>2. CASE Next(kind, s.buffer) # <<>>
  <2>1. PICK u \in Units(Byte) :
            /\ Next(kind, s.buffer) = <<u>>
            /\ Next(kind, s.buffer \o chunk) = Unit(u.rest \o chunk, u.out)
    <3>1. Stable(kind, s.buffer, Byte)
      BY <1>2, TurnShortens
    <3> QED
      BY <3>1 DEF Stable
  <2>2. Turn(kind, s) = [buffer |-> u.rest, out |-> s.out \o u.out]
    BY <2>1 DEF Turn, TakeUnit
  <2>3. Turn(kind, Fed(s, chunk)) = [buffer |-> u.rest \o chunk, out |-> s.out \o u.out]
    <3> DEFINE t == Fed(s, chunk)
    <3>1. t.buffer = s.buffer \o chunk /\ t.out = s.out
      BY DEF Fed
    <3>2. Next(kind, t.buffer) = <<[rest |-> u.rest \o chunk, out |-> u.out]>>
      BY <2>1, <3>1 DEF Unit
    <3>3. Turn(kind, t) = TakeUnit(t, Next(kind, t.buffer))
      BY DEF Turn
    <3> HIDE DEF t
    <3>4. TakeUnit(t, <<[rest |-> u.rest \o chunk, out |-> u.out]>>) =
              [buffer |-> u.rest \o chunk, out |-> s.out \o u.out]
      BY ONLY <3>1 DEF TakeUnit
    <3> QED
      BY <3>2, <3>3, <3>4 DEF t
  <2>4. Turn(kind, Fed(s, chunk)) = Fed(Turn(kind, s), chunk)
    BY <2>2, <2>3 DEF Fed
  <2>5. Fed(s, chunk) \in Decoders(Byte)
    BY FedIsDecoder
  <2> QED
    BY <2>4, <2>5, DrainAfterTurn
<1> QED
  BY <1>1, <1>2

\* or all of them.
LEMMA DrainThenFed ==
    ASSUME NEW Byte, NEW kind, Decodable(kind, Byte), NEW s \in Decoders(Byte),
           NEW chunk \in Seq(Byte)
    PROVE  /\ Drain(kind, s) \in Decoders(Byte)
           /\ Drain(kind, Fed(Drain(kind, s), chunk)) = Drain(kind, Fed(s, chunk))
<1> DEFINE last == Len(s.buffer)
<1>1. PICK f \in Turns(kind, s, Byte) : Drain(kind, s) = f[last]
  BY TurnsExist
<1>2. /\ f \in [Nat -> Decoders(Byte)] /\ f[0] = s
      /\ \A n \in Nat : f[n + 1] = Turn(kind, f[n])
  BY DEF Turns
<1> DEFINE Y == {n \in Nat : Drain(kind, Fed(f[n], chunk)) = Drain(kind, Fed(s, chunk))}
<1>3. 0 \in Y
  BY <1>2
<1>4. ASSUME NEW n \in Nat, n \in Y PROVE n + 1 \in Y
  <2>1. f[n] \in Decoders(Byte) /\ f[n + 1] = Turn(kind, f[n])
    BY <1>2
  <2>2. Drain(kind, Fed(f[n + 1], chunk)) = Drain(kind, Fed(f[n], chunk))
    BY <2>1, TurnThenFed
  <2> QED
    BY <1>4, <2>2
<1>5. \A n \in Nat : n \in Y
  <2> HIDE DEF Y
  <2> QED
    BY <1>3, <1>4, SetInduction
<1>6. last \in Nat
  BY LenProperties DEF Decoders
<1> QED
  BY <1>1, <1>2, <1>5, <1>6

-----------------------------------------------------------------------------
\* FlattenSeq() of a sequence that is not empty: chunk after chunk.
LEMMA FlattenChunks ==
    ASSUME NEW Byte, NEW chunks \in Seq(Seq(Byte)), chunks # <<>>
    PROVE  \E flat \in [1..Len(chunks) -> Seq(Byte)] :
              /\ flat[1] = chunks[1]
              /\ \A n \in 1..(Len(chunks) - 1) : flat[n + 1] = flat[n] \o chunks[n + 1]
              /\ FlattenSeq(chunks) = flat[Len(chunks)]
<1> DEFINE last == Len(chunks)
           Loop(flat) == [i \in 1..last |-> IF i = 1 THEN chunks[i] ELSE flat[i - 1] \o chunks[i]]
           run == CHOOSE flat : flat = Loop(flat)
           B == Seq(Byte)
           step == [p \in Nat \X B |->
                       IF p[1] + 1 \in 1..last THEN p[2] \o chunks[p[1] + 1] ELSE p[2]]
<1>1. last \in Nat /\ last >= 1 /\ \A n \in 1..last : chunks[n] \in B
  <2>1. last \in Nat /\ last # 0
    BY EmptySeq, LenProperties
  <2> QED
    BY <2>1, ElementOfSeq
<1>2. step \in [Nat \X B -> B]
  <2>1. \A p \in Nat \X B : p[1] + 1 \in 1..last => p[2] \o chunks[p[1] + 1] \in Seq(Byte)
    BY <1>1, ConcatProperties
  <2> QED
    BY <2>1
<1>3. PICK f \in Partial(B, chunks[1], step, last - 1) : TRUE
  <2>1. chunks[1] \in B /\ last - 1 \in Nat
    BY <1>1
  <2> HIDE DEF step, B, last
  <2>2. \A n \in Nat : Partial(B, chunks[1], step, n) # {}
    BY ONLY <1>2, <2>1, PartialExists
  <2> QED
    BY <2>1, <2>2
<1>4. /\ f \in [0..(last - 1) -> B] /\ f[0] = chunks[1]
      /\ \A i \in Nat : i < last - 1 => f[i + 1] = step[<<i + 1, f[i]>>]
  BY <1>3 DEF Partial
<1>5. ASSUME NEW n \in 1..(last - 1) PROVE f[n] = f[n - 1] \o chunks[n + 1]
  <2>1. /\ n - 1 \in Nat /\ n - 1 < last - 1 /\ (n - 1) + 1 = n /\ n + 1 \in 1..last
        /\ n - 1 \in 0..(last - 1) /\ n \in Nat
    BY <1>1
  <2>2. <<n, f[n - 1]>> \in Nat \X B
    BY <1>4, <2>1
  <2>3. f[n] = step[<<n, f[n - 1]>>]
    BY <1>4, <2>1
  <2> QED
    BY <2>1, <2>2, <2>3
<1> DEFINE g == [i \in 1..last |-> f[i - 1]]
<1>6. g = Loop(g)
  <2>1. ASSUME NEW i \in 1..last, i # 1 PROVE g[i] = g[i - 1] \o chunks[i]
    <3>1. i - 1 \in 1..(last - 1) /\ (i - 1) + 1 = i /\ i - 1 \in 1..last
      BY <1>1, <2>1
    <3> QED
      BY <1>5, <3>1
  <2>2. g[1] = chunks[1]
    BY <1>1, <1>4
  <2> QED
    BY <2>1, <2>2
<1>7. run = Loop(run)
  <2> HIDE DEF Loop, g
  <2> QED
    BY <1>6
<1> HIDE DEF run
<1>8. run[1] = chunks[1] /\ DOMAIN run = 1..last
  <2>1. 1 \in 1..last
    BY <1>1
  <2> QED
    BY ONLY <1>7, <2>1
<1>9. ASSUME NEW n \in 1..(last - 1) PROVE run[n + 1] = run[n] \o chunks[n + 1]
  <2>1. n + 1 \in 1..last /\ n + 1 # 1 /\ (n + 1) - 1 = n
    BY <1>1
  <2>2. run[n + 1] = run[(n + 1) - 1] \o chunks[n + 1]
    BY ONLY <1>7, <2>1
  <2> QED
    BY <2>1, <2>2
<1>10. \A i \in 1..last : run[i] \in B
  <2> DEFINE Y == {i \in Nat : i + 1 \in 1..last => run[i + 1] \in B}
  <2>1. 0 \in Y
    BY <1>1, <1>8
  <2>2. ASSUME NEW i \in Nat, i \in Y PROVE i + 1 \in Y
    <3>1. SUFFICES ASSUME (i + 1) + 1 \in 1..last PROVE run[(i + 1) + 1] \in B
      OBVIOUS
    <3>2. i + 1 \in 1..(last - 1) /\ i + 1 \in 1..last
      BY <1>1, <3>1
    <3>3. run[(i + 1) + 1] = run[i + 1] \o chunks[(i + 1) + 1]
      BY <1>9, <3>2
    <3>4. run[i + 1] \in Seq(Byte) /\ chunks[(i + 1) + 1] \in Seq(Byte)
      BY <1>1, <2>2, <3>1, <3>2
    <3> QED
      BY ONLY <3>3, <3>4, ConcatProperties
  <2> HIDE DEF Y
  <2>3. \A i \in Nat : i \in Y
    BY <2>1, <2>2, SetInduction
  <2> QED
    <3>1. ASSUME NEW i \in 1..last PROVE run[i] \in B
      <4>1. i - 1 \in Nat /\ (i - 1) + 1 = i
        BY <1>1
      <4>2. i - 1 \in Y
        BY <2>3, <4>1
      <4> QED
        BY <4>1, <4>2 DEF Y
    <3> QED
      BY <3>1
<1>11. FlattenSeq(chunks) = run[last]
  BY <1>1 DEF FlattenSeq, run
<1>12. run \in [1..last -> B]
  BY <1>7, <1>8, <1>10
<1> QED
  BY <1>8, <1>9, <1>11, <1>12

\* The decoder a stream begins with.
Fresh == [buffer |-> <<>>, out |-> <<>>]

\* decode(): a chunk after the other, from what the last one left.
Course(kind, chunks, run) ==
    /\ run[0] = Fresh
    /\ \A n \in Nat : n + 1 \in 1..Len(chunks) =>
                         run[n + 1] = Decode(kind, run[n], chunks[n + 1])
    /\ Drained(kind, chunks) = run[Len(chunks)].out

\* decode() is the loop, over the bytes left and those that arrive.
LEMMA DecodeDrains ==
    ASSUME NEW Byte, NEW kind, Decodable(kind, Byte),
           NEW s \in Decoders(Byte), NEW c \in Seq(Byte)
    PROVE  Decode(kind, s, c) = Drain(kind, Fed(s, c)) /\ Decode(kind, s, c) \in Decoders(Byte)
<1>1. Decode(kind, s, c) = Drain(kind, Fed(s, c))
  BY DEF Decode, Fed
<1>2. Fed(s, c) \in Decoders(Byte) /\ <<>> \in Seq(Byte)
  BY FedIsDecoder, EmptySeq
<1> QED
  BY <1>1, <1>2, DrainThenFed

\* Every stream of chunks takes such a course.
LEMMA CourseExists ==
    ASSUME NEW Byte, NEW kind, Decodable(kind, Byte), NEW chunks \in Seq(Seq(Byte))
    PROVE  \E run : Course(kind, chunks, run)
<1> DEFINE last == Len(chunks)
           D == Decoders(Byte)
           Loop(after) == [n \in 0..last |->
                              IF n = 0 THEN Fresh ELSE Decode(kind, after[n - 1], chunks[n])]
           run == CHOOSE after : after = Loop(after)
           step == [p \in Nat \X D |->
                       IF p[1] \in 1..last THEN Decode(kind, p[2], chunks[p[1]]) ELSE p[2]]
<1>1. last \in Nat /\ \A n \in 1..last : chunks[n] \in Seq(Byte)
  BY LenProperties, ElementOfSeq
<1>2. Fresh \in D
  BY DEF Fresh, Decoders
<1>3. \A s \in D : \A c \in Seq(Byte) :
         Decode(kind, s, c) = Drain(kind, Fed(s, c)) /\ Decode(kind, s, c) \in D
  BY DecodeDrains
<1>4. step \in [Nat \X D -> D]
  <2>1. \A p \in Nat \X D : p[1] \in 1..last => Decode(kind, p[2], chunks[p[1]]) \in D
    BY <1>1, <1>3
  <2> HIDE DEF D
  <2> QED
    BY <2>1
<1>5. PICK f \in Partial(D, Fresh, step, last) : TRUE
  <2> HIDE DEF step, D, last
  <2>1. \A n \in Nat : Partial(D, Fresh, step, n) # {}
    BY ONLY <1>2, <1>4, PartialExists
  <2> QED
    BY <1>1, <2>1
<1>6. /\ f \in [0..last -> D] /\ f[0] = Fresh
      /\ \A i \in Nat : i < last => f[i + 1] = step[<<i + 1, f[i]>>]
  BY <1>5 DEF Partial
<1>7. f = Loop(f)
  <2>1. ASSUME NEW i \in 0..last, i # 0 PROVE f[i] = Decode(kind, f[i - 1], chunks[i])
    <3>1. /\ i - 1 \in Nat /\ i - 1 < last /\ (i - 1) + 1 = i /\ i \in 1..last
          /\ i - 1 \in 0..last /\ i \in Nat
      BY <1>1, <2>1
    <3>2. <<i, f[i - 1]>> \in Nat \X D
      BY <1>6, <3>1
    <3>3. f[i] = step[<<i, f[i - 1]>>]
      BY <1>6, <3>1
    <3> HIDE DEF D
    <3> QED
      BY <3>1, <3>2, <3>3
  <2> QED
    BY <1>6, <2>1
<1>8. run = Loop(run)
  <2> HIDE DEF Loop
  <2> QED
    BY <1>7
<1> HIDE DEF run
<1>9. run[0] = Fresh
  <2>1. 0 \in 0..last
    BY <1>1
  <2> QED
    BY ONLY <1>8, <2>1
<1>10. ASSUME NEW n \in Nat, n + 1 \in 1..last
       PROVE  run[n + 1] = Decode(kind, run[n], chunks[n + 1])
  <2>1. n + 1 \in 0..last /\ n + 1 # 0 /\ (n + 1) - 1 = n
    BY <1>1, <1>10
  <2>2. run[n + 1] = Decode(kind, run[(n + 1) - 1], chunks[n + 1])
    BY ONLY <1>8, <2>1
  <2> QED
    BY <2>1, <2>2
<1>11. Drained(kind, chunks) = run[last].out
  BY DEF Drained, run, Fresh
<1> QED
  BY <1>9, <1>10, <1>11 DEF Course

\* GrpcFrameDecoder, SseEventParser: a stream's chunks decoded one by one, as
\* they arrive, yield what all their bytes yield at once.
LEMMA DrainedAtOnce ==
    ASSUME NEW Byte, NEW kind, Decodable(kind, Byte), NEW chunks \in Seq(Seq(Byte))
    PROVE  Drained(kind, chunks) = Drain(kind, Fed(Fresh, FlattenSeq(chunks))).out
<1> DEFINE last == Len(chunks)
           D == Decoders(Byte)
<1>1. last \in Nat /\ \A n \in 1..last : chunks[n] \in Seq(Byte)
  BY LenProperties, ElementOfSeq
<1>2. Fresh \in D
  BY DEF Fresh, Decoders
<1>3. \A s \in D : \A c \in Seq(Byte) :
         Decode(kind, s, c) = Drain(kind, Fed(s, c)) /\ Decode(kind, s, c) \in D
  BY DecodeDrains
<1>8. PICK run : Course(kind, chunks, run)
  BY CourseExists
<1>9. run[0] = Fresh
  BY <1>8 DEF Course
<1>10. \A n \in Nat : n + 1 \in 1..last => run[n + 1] = Decode(kind, run[n], chunks[n + 1])
  BY <1>8 DEF Course
<1>11. Drained(kind, chunks) = run[last].out
  BY <1>8 DEF Course
<1>12. CASE chunks = <<>>
  <2>1. last = 0 /\ FlattenSeq(chunks) = <<>>
    BY <1>12 DEF FlattenSeq
  <2>2. Fed(Fresh, <<>>) = Fresh
    BY DEF Fed, Fresh
  <2>3. Drain(kind, Fresh) = Fresh
    <3>1. PICK g \in Turns(kind, Fresh, Byte) : Drain(kind, Fresh) = g[Len(Fresh.buffer)]
      BY <1>2, TurnsExist
    <3>2. Len(Fresh.buffer) = 0
      BY DEF Fresh
    <3>3. g[0] = Fresh
      BY DEF Turns
    <3> QED
      BY <3>1, <3>2, <3>3
  <2> QED
    BY <1>9, <1>11, <2>1, <2>2, <2>3
<1>13. CASE chunks # <<>>
  <2>1. PICK flat \in [1..last -> Seq(Byte)] :
           /\ flat[1] = chunks[1]
           /\ \A n \in 1..(last - 1) : flat[n + 1] = flat[n] \o chunks[n + 1]
           /\ FlattenSeq(chunks) = flat[last]
    BY <1>13, FlattenChunks
  <2>2. last >= 1
    <3>1. last # 0
      BY <1>13, EmptySeq
    <3> QED
      BY <1>1, <3>1
  <2> DEFINE Y == {n \in Nat : n + 1 \in 1..last =>
                       run[n + 1] = Drain(kind, Fed(Fresh, flat[n + 1]))}
  <2>3. 0 \in Y
    <3>1. run[0 + 1] = Decode(kind, run[0], chunks[0 + 1])
      BY <1>10, <2>2
    <3> QED
      BY <1>1, <1>2, <1>3, <1>9, <2>1, <2>2, <3>1
  <2>4. ASSUME NEW n \in Nat, n \in Y PROVE n + 1 \in Y
    <3>1. SUFFICES ASSUME (n + 1) + 1 \in 1..last
                   PROVE  run[(n + 1) + 1] = Drain(kind, Fed(Fresh, flat[(n + 1) + 1]))
      OBVIOUS
    <3> DEFINE m == n + 1
               was == Fed(Fresh, flat[m])
               chunk == chunks[m + 1]
    <3>2. m \in 1..(last - 1) /\ m \in 1..last /\ m + 1 \in 1..last /\ m \in Nat
      BY <1>1, <3>1
    <3>3. run[m + 1] = Decode(kind, run[m], chunk)
      BY <1>10, <3>1, <3>2
    <3>4. run[m] = Drain(kind, was)
      BY <2>4, <3>2
    <3>5. flat[m] \in Seq(Byte) /\ chunk \in Seq(Byte) /\ flat[m + 1] = flat[m] \o chunk
      BY <1>1, <2>1, <3>2
    <3>6. was \in Decoders(Byte)
      BY <1>2, <3>5, FedIsDecoder
    <3>7. /\ Drain(kind, was) \in Decoders(Byte)
          /\ Drain(kind, Fed(Drain(kind, was), chunk)) = Drain(kind, Fed(was, chunk))
      <4> HIDE DEF was, chunk
      <4> QED
        BY ONLY Decodable(kind, Byte), <3>5, <3>6, DrainThenFed
    <3>8. Fed(was, chunk) = Fed(Fresh, flat[m + 1])
      BY <3>5 DEF Fed, Fresh
    <3>9. run[m + 1] = Drain(kind, Fed(Drain(kind, was), chunk))
      BY <1>3, <3>3, <3>4, <3>5, <3>7
    <3> QED
      BY <3>7, <3>8, <3>9
  <2>5. \A n \in Nat : n \in Y
    <3> HIDE DEF Y
    <3> QED
      BY <2>3, <2>4, SetInduction
  <2>6. last - 1 \in Nat /\ (last - 1) + 1 = last /\ last \in 1..last
    BY <1>1, <2>2
  <2>7. run[last] = Drain(kind, Fed(Fresh, flat[last]))
    <3>1. last - 1 \in Y
      BY <2>5, <2>6
    <3> QED
      BY <2>6, <3>1
  <2> QED
    BY <1>11, <2>1, <2>7
<1> QED
  BY <1>12, <1>13

\* GrpcFrameDecoder, SseEventParser, and the stream!s that yield their items:
\* whatever bytes arrive, however long, and wherever the network cuts them, even
\* into chunks of none, a subscription sees the same items in the same order.
THEOREM AnyChunks ==
    ASSUME NEW Byte, NEW kind \in {"grpc", "http", "graphql"}, Decodable(kind, Byte),
           NEW chunks \in Seq(Seq(Byte)), NEW fails \in BOOLEAN
    PROVE  SameAsWhole(kind, chunks, fails)
<1> DEFINE all == FlattenSeq(chunks)
           whole == <<all>>
<1>1. all \in Seq(Byte)
  <2>1. CASE chunks = <<>>
    <3>1. all = <<>>
      BY <2>1 DEF FlattenSeq
    <3> QED
      BY <3>1
  <2>2. CASE chunks # <<>>
    <3>1. Len(chunks) \in Nat /\ Len(chunks) # 0
      BY <2>2, EmptySeq, LenProperties
    <3>2. Len(chunks) \in 1..Len(chunks)
      BY <3>1
    <3>3. PICK flat \in [1..Len(chunks) -> Seq(Byte)] : all = flat[Len(chunks)]
      BY <2>2, FlattenChunks
    <3> QED
      BY <3>2, <3>3
  <2> QED
    BY <2>1, <2>2
<1> HIDE DEF all
<1>2. whole \in Seq(Seq(Byte)) /\ Len(whole) = 1 /\ whole # <<>> /\ whole[1] = all
  BY <1>1
<1>3. FlattenSeq(whole) = all
  <2> HIDE DEF whole
  <2>1. PICK flat \in [1..Len(whole) -> Seq(Byte)] :
            /\ flat[1] = whole[1]
            /\ \A n \in 1..(Len(whole) - 1) : flat[n + 1] = flat[n] \o whole[n + 1]
            /\ FlattenSeq(whole) = flat[Len(whole)]
    BY <1>2, FlattenChunks
  <2> QED
    BY <1>2, <2>1
<1>4. Drained(kind, whole) = Drain(kind, Fed(Fresh, all)).out
  <2> HIDE DEF whole
  <2> QED
    BY <1>2, <1>3, DrainedAtOnce
<1>5. Drained(kind, chunks) = Drained(kind, whole)
  BY <1>4, DrainedAtOnce DEF all
<1>6. Stream(kind, chunks, fails) = Stream(kind, whole, fails)
  <2> HIDE DEF whole
  <2>1. CASE kind = "grpc"
    BY <1>5, <2>1 DEF Stream, GrpcStream
  <2>2. CASE kind = "http"
    BY <1>5, <2>2 DEF Stream, HttpStream
  <2>3. CASE kind = "graphql"
    BY <1>5, <2>3 DEF Stream, GraphqlStream
  <2> QED
    BY <2>1, <2>2, <2>3
<1> QED
  BY <1>6 DEF SameAsWhole, all

-----------------------------------------------------------------------------
\* IO::cache_key() of @http: what the key holds says as whom the request is
\* made.
LEMMA HttpKeySaysUser ==
    ASSUME NEW t, NEW u, NEW x, NEW y, HttpKey(t, x) = HttpKey(u, y)
    PROVE  /\ t.method = u.method /\ CreateUrl(t, x) = CreateUrl(u, y)
           /\ HttpBody(t, x) = HttpBody(u, y)
           /\ [n \in DOMAIN HttpHeaders(t, x) \ {"content-type"} |-> HttpHeaders(t, x)[n]] =
              [n \in DOMAIN HttpHeaders(u, y) \ {"content-type"} |-> HttpHeaders(u, y)[n]]
<1> DEFINE own(v, z) == [n \in DOMAIN v.headers |-> Text(v.headers[n], z)]
           sent(given) == [n \in {m \in DOMAIN given : Valid(given[m])} |-> given[n]]
           type(v) == IF v.method = "GET" THEN <<>> ELSE ContentType(v.encoding)
           rest(v, z) == [n \in DOMAIN HttpHeaders(v, z) \ {"content-type"} |-> HttpHeaders(v, z)[n]]
<1>1. /\ t.method = u.method /\ own(t, x) = own(u, y) /\ x.headers = y.headers
      /\ HttpBody(t, x) = HttpBody(u, y) /\ CreateUrl(t, x) = CreateUrl(u, y)
  BY DEF HttpKey
<1>2. ASSUME NEW v, NEW z
      PROVE  CreateHeaders(v, z) = sent(own(v, z))
  BY DEF CreateHeaders
<1>3. ASSUME NEW v PROVE DOMAIN type(v) \subseteq {"content-type"}
  BY DEF ContentType
<1>4. ASSUME NEW v, NEW z
      PROVE  rest(v, z) = [n \in DOMAIN Over(z.headers, sent(own(v, z))) \ {"content-type"} |->
                              Over(z.headers, sent(own(v, z)))[n]]
  <2> DEFINE inner == Over(z.headers, sent(own(v, z)))
  <2>1. HttpHeaders(v, z) = Over(type(v), inner)
    BY <1>2 DEF HttpHeaders
  <2> HIDE DEF inner, type
  <2>2. /\ DOMAIN Over(type(v), inner) = DOMAIN type(v) \cup DOMAIN inner
        /\ \A n \in DOMAIN inner \ DOMAIN type(v) : Over(type(v), inner)[n] = inner[n]
    BY DEF Over
  <2>3. DOMAIN Over(type(v), inner) \ {"content-type"} = DOMAIN inner \ {"content-type"}
    BY <1>3, <2>2
  <2>4. \A n \in DOMAIN inner \ {"content-type"} : Over(type(v), inner)[n] = inner[n]
    BY <1>3, <2>2
  <2> QED
    BY <2>1, <2>3, <2>4 DEF inner
<1>5. rest(t, x) = rest(u, y)
  <2> HIDE DEF own, rest
  <2> QED
    BY <1>1, <1>4
<1> QED
  BY <1>1, <1>5

\* IO::cache_key(): the key of every kind of resolver says what is asked.
LEMMA KeySaysWhatIsAsked ==
    ASSUME NEW f, NEW g, NEW x, NEW y, f.kind = g.kind,
           f.kind \in {"http", "graphql", "grpc", "s3"}, Key(f, x) = Key(g, y)
    PROVE  Keyed(f, x) = Keyed(g, y) /\ User(f, x) = User(g, y)
<1>1. CASE f.kind = "http"
  <2>1. HttpKey(f.t, x) = HttpKey(g.t, y)
    BY <1>1 DEF Key
  <2>2. /\ f.t.method = g.t.method /\ CreateUrl(f.t, x) = CreateUrl(g.t, y)
        /\ HttpBody(f.t, x) = HttpBody(g.t, y)
        /\ [n \in DOMAIN HttpHeaders(f.t, x) \ {"content-type"} |-> HttpHeaders(f.t, x)[n]] =
           [n \in DOMAIN HttpHeaders(g.t, y) \ {"content-type"} |-> HttpHeaders(g.t, y)[n]]
    BY <2>1, HttpKeySaysUser
  <2>3. ASSUME NEW h, NEW z, h.kind = "http"
        PROVE  /\ Keyed(h, z) = [part \in {"method", "url", "body"} |->
                       [method |-> h.t.method, url |-> CreateUrl(h.t, z), body |-> HttpBody(h.t, z)][part]]
               /\ User(h, z) = [n \in DOMAIN HttpHeaders(h.t, z) \ {"content-type"} |->
                                   HttpHeaders(h.t, z)[n]]
    <3>1. Sent(h, z) = ToRequest(h.t, z) /\ Unkeyed(h.kind) = {"encoding", "headers"}
      BY <2>3 DEF Sent, Unkeyed
    <3>2. /\ DOMAIN ToRequest(h.t, z) = {"method", "url", "headers", "body", "encoding"}
          /\ ToRequest(h.t, z).method = h.t.method /\ ToRequest(h.t, z).url = CreateUrl(h.t, z)
          /\ ToRequest(h.t, z).body = HttpBody(h.t, z)
          /\ ToRequest(h.t, z).headers = HttpHeaders(h.t, z)
      BY DEF ToRequest
    <3>3. DOMAIN ToRequest(h.t, z) \ {"encoding", "headers"} = {"method", "url", "body"}
      BY <3>2
    <3> QED
      BY <2>3, <3>1, <3>2, <3>3 DEF Keyed, User
  <2>4. g.kind = "http"
    BY <1>1
  <2>5. /\ Keyed(f, x) = [part \in {"method", "url", "body"} |->
              [method |-> f.t.method, url |-> CreateUrl(f.t, x), body |-> HttpBody(f.t, x)][part]]
        /\ User(f, x) = [n \in DOMAIN HttpHeaders(f.t, x) \ {"content-type"} |->
                            HttpHeaders(f.t, x)[n]]
    BY ONLY <1>1, <2>3
  <2>6. /\ Keyed(g, y) = [part \in {"method", "url", "body"} |->
              [method |-> g.t.method, url |-> CreateUrl(g.t, y), body |-> HttpBody(g.t, y)][part]]
        /\ User(g, y) = [n \in DOMAIN HttpHeaders(g.t, y) \ {"content-type"} |->
                            HttpHeaders(g.t, y)[n]]
    BY ONLY <2>3, <2>4
  <2> QED
    BY ONLY <2>2, <2>5, <2>6
<1>2. CASE f.kind = "graphql"
  <2>1. Query(f.t, x) = Query(g.t, y)
    BY <1>2 DEF Key
  <2>2. ASSUME NEW h, NEW z, h.kind = "graphql"
        PROVE  Keyed(h, z) = [part \in {"body"} |-> Query(h.t, z)] /\ User(h, z) = <<>>
    <3>1. Sent(h, z) = GraphqlRequest(h.t, z) /\ Unkeyed(h.kind) = {"url", "headers"}
      BY <2>2 DEF Sent, Unkeyed
    <3>2. DOMAIN GraphqlRequest(h.t, z) \ {"url", "headers"} = {"body"}
      BY DEF GraphqlRequest
    <3>3. GraphqlRequest(h.t, z).body = Query(h.t, z)
      BY DEF GraphqlRequest
    <3> QED
      BY <2>2, <3>1, <3>2, <3>3 DEF Keyed, User
  <2>3. g.kind = "graphql"
    BY <1>2
  <2>4. Keyed(f, x) = [part \in {"body"} |-> Query(f.t, x)] /\ User(f, x) = <<>>
    BY ONLY <1>2, <2>2
  <2>5. Keyed(g, y) = [part \in {"body"} |-> Query(g.t, y)] /\ User(g, y) = <<>>
    BY ONLY <2>2, <2>3
  <2> QED
    BY ONLY <2>1, <2>4, <2>5
<1>3. CASE f.kind = "grpc"
  <2>1. /\ GrpcRequest(f.t, x).url = GrpcRequest(g.t, y).url
        /\ GrpcRequest(f.t, x).body = GrpcRequest(g.t, y).body
    BY <1>3 DEF Key
  <2>2. ASSUME NEW h, NEW z, h.kind = "grpc"
        PROVE  /\ Keyed(h, z) = [part \in {"url", "body"} |-> GrpcRequest(h.t, z)[part]]
               /\ User(h, z) = <<>>
    <3>1. Sent(h, z) = GrpcRequest(h.t, z) /\ Unkeyed(h.kind) = {"headers"}
      BY <2>2 DEF Sent, Unkeyed
    <3>2. DOMAIN GrpcRequest(h.t, z) \ {"headers"} = {"url", "body"}
      BY DEF GrpcRequest
    <3> QED
      BY <2>2, <3>1, <3>2 DEF Keyed, User
  <2>3. \A part \in {"url", "body"} : GrpcRequest(f.t, x)[part] = GrpcRequest(g.t, y)[part]
    BY <2>1
  <2>4. g.kind = "grpc"
    BY <1>3
  <2>5. /\ Keyed(f, x) = [part \in {"url", "body"} |-> GrpcRequest(f.t, x)[part]]
        /\ User(f, x) = <<>>
    BY ONLY <1>3, <2>2
  <2>6. /\ Keyed(g, y) = [part \in {"url", "body"} |-> GrpcRequest(g.t, y)[part]]
        /\ User(g, y) = <<>>
    BY ONLY <2>2, <2>4
  <2> QED
    BY ONLY <2>3, <2>5, <2>6
<1>4. CASE f.kind = "s3"
  <2>1. S3Request(f.t, x) = S3Request(g.t, y)
    BY <1>4 DEF Key
  <2>2. ASSUME NEW h, NEW z, h.kind = "s3"
        PROVE  /\ Keyed(h, z) = [part \in DOMAIN S3Request(h.t, z) |-> S3Request(h.t, z)[part]]
               /\ User(h, z) = <<>>
    BY <2>2 DEF Keyed, User, Sent, Unkeyed
  <2>3. g.kind = "s3"
    BY <1>4
  <2>4. /\ Keyed(f, x) = [part \in DOMAIN S3Request(f.t, x) |-> S3Request(f.t, x)[part]]
        /\ User(f, x) = <<>>
    BY ONLY <1>4, <2>2
  <2>5. /\ Keyed(g, y) = [part \in DOMAIN S3Request(g.t, y) |-> S3Request(g.t, y)[part]]
        /\ User(g, y) = <<>>
    BY ONLY <2>2, <2>3
  <2> QED
    BY ONLY <2>1, <2>4, <2>5
<1> QED
  BY <1>1, <1>2, <1>3, <1>4

\* cache_key(): of all the fields of a kind and all the contexts, as many as
\* there are, no two that share an answer ask different things, or, with @http,
\* ask them as different users.
THEOREM SharingIsSafe ==
    ASSUME NEW kind \in {"http", "graphql", "grpc", "s3"}, NEW fields, NEW contexts,
           IsFiniteSet(fields), IsFiniteSet(contexts), \A f \in fields : f.kind = kind
    PROVE  KeysTellApart(fields, contexts)
<1> DEFINE asked == fields \X contexts
           keys == {Key(a[1], a[2]) : a \in asked}
           question(a) == <<Key(a[1], a[2]), Keyed(a[1], a[2]), User(a[1], a[2])>>
           questions == {question(a) : a \in asked}
           by == [q \in questions |-> q[1]]
<1>1. IsFiniteSet(asked)
  BY FS_Product
<1>2. IsFiniteSet(questions)
  <2> DEFINE ask == [a \in asked |-> question(a)]
  <2>1. ask \in Surjection(asked, questions)
    BY DEF Surjection
  <2> HIDE DEF asked, questions
  <2> QED
    BY <1>1, <2>1, FS_Surjection
<1>3. by \in Bijection(questions, keys)
  <2>1. by \in [questions -> keys]
    OBVIOUS
  <2>2. ASSUME NEW k \in keys PROVE \E q \in questions : by[q] = k
    <3>1. PICK a \in asked : k = Key(a[1], a[2])
      OBVIOUS
    <3>2. question(a) \in questions /\ question(a)[1] = k
      BY <3>1
    <3> HIDE DEF question, questions
    <3> QED
      BY <3>2
  <2>3. ASSUME NEW p \in questions, NEW q \in questions, by[p] = by[q] PROVE p = q
    <3>1. PICK a \in asked : p = question(a)
      OBVIOUS
    <3>2. PICK b \in asked : q = question(b)
      OBVIOUS
    <3>3. Key(a[1], a[2]) = Key(b[1], b[2])
      BY <2>3, <3>1, <3>2
    <3>4. a[1].kind = kind /\ b[1].kind = kind
      OBVIOUS
    <3>5. Keyed(a[1], a[2]) = Keyed(b[1], b[2]) /\ User(a[1], a[2]) = User(b[1], b[2])
      BY ONLY kind \in {"http", "graphql", "grpc", "s3"}, <3>3, <3>4, KeySaysWhatIsAsked
    <3> QED
      BY <3>1, <3>2, <3>3, <3>5
  <2> HIDE DEF by, questions, keys
  <2> QED
    BY <2>1, <2>2, <2>3 DEF Bijection, Injection, Surjection, IsInjective
<1>4. Cardinality(questions) = Cardinality(keys)
  <2> HIDE DEF by, questions, keys
  <2>1. ExistsBijection(questions, keys)
    BY <1>3 DEF ExistsBijection
  <2> QED
    BY ONLY <1>2, <2>1, FS_Bijection
<1> QED
  BY <1>4 DEF KeysTellApart

-----------------------------------------------------------------------------
\* Induction on a sequence, from its front on, for a set in place of a predicate.
LEMMA SeqInduction ==
    ASSUME NEW B, NEW Y, <<>> \in Y,
           \A s \in Seq(B) : \A x \in B : s \in Y => Append(s, x) \in Y
    PROVE  \A s \in Seq(B) : s \in Y
<1> DEFINE N == {n \in Nat : \A s \in Seq(B) : Len(s) = n => s \in Y}
<1>1. 0 \in N
  BY EmptySeq
<1>2. ASSUME NEW n \in Nat, n \in N PROVE n + 1 \in N
  <2>1. SUFFICES ASSUME NEW s \in Seq(B), Len(s) = n + 1 PROVE s \in Y
    OBVIOUS
  <2> DEFINE front == [i \in 1..n |-> s[i]]
  <2>2. \A i \in 1..(n + 1) : s[i] \in B
    BY <2>1, ElementOfSeq
  <2>3. front \in Seq(B) /\ Len(front) = n
    BY <2>2
  <2>4. s = Append(front, s[n + 1])
    <3>1. s = [i \in 1..(n + 1) |-> s[i]]
      BY <2>1, LenProperties
    <3>2. Append(front, s[n + 1]) = [i \in 1..(n + 1) |-> IF i = n + 1 THEN s[n + 1] ELSE front[i]]
      BY <2>3
    <3> QED
      BY <3>1, <3>2
  <2>5. front \in Y
    BY <1>2, <2>3
  <2>6. s[n + 1] \in B
    BY <2>2
  <2> HIDE DEF front
  <2> QED
    BY <2>3, <2>4, <2>5, <2>6
<1> HIDE DEF N
<1>3. \A n \in Nat : n \in N
  BY <1>1, <1>2, SetInduction
<1> QED
  BY <1>3, LenProperties DEF N

\* ToSet() of a longer sequence, and of two.
LEMMA AppendToSet ==
    ASSUME NEW B, NEW s \in Seq(B), NEW x \in B
    PROVE  Append(s, x) \in Seq(B) /\ ToSet(Append(s, x)) = ToSet(s) \cup {x}
<1>1. /\ Append(s, x) \in Seq(B) /\ Len(Append(s, x)) = Len(s) + 1
      /\ \A i \in 1..Len(s) : Append(s, x)[i] = s[i]
      /\ Append(s, x)[Len(s) + 1] = x /\ Len(s) \in Nat
  BY AppendProperties, LenProperties
<1>2. DOMAIN s = 1..Len(s) /\ DOMAIN Append(s, x) = 1..(Len(s) + 1)
  BY <1>1, LenProperties
<1>3. 1..(Len(s) + 1) = 1..Len(s) \cup {Len(s) + 1}
  BY <1>1
<1> QED
  BY <1>1, <1>2, <1>3 DEF ToSet

\* The items of one sequence after another are those of both.
LEMMA ConcatToSet ==
    ASSUME NEW B, NEW s \in Seq(B), NEW t \in Seq(B)
    PROVE  s \o t \in Seq(B) /\ ToSet(s \o t) = ToSet(s) \cup ToSet(t)
<1>1. /\ s \o t \in Seq(B) /\ Len(s \o t) = Len(s) + Len(t)
      /\ \A i \in 1..(Len(s) + Len(t)) : (s \o t)[i] = IF i <= Len(s) THEN s[i] ELSE t[i - Len(s)]
      /\ Len(s) \in Nat /\ Len(t) \in Nat
  BY ConcatProperties, LenProperties
<1>2. /\ DOMAIN s = 1..Len(s) /\ DOMAIN t = 1..Len(t)
      /\ DOMAIN (s \o t) = 1..(Len(s) + Len(t))
  BY <1>1, LenProperties
<1>3. ASSUME NEW i \in 1..Len(s) PROVE i \in 1..(Len(s) + Len(t)) /\ (s \o t)[i] = s[i]
  BY <1>1
<1>4. ASSUME NEW i \in 1..Len(t)
      PROVE  i + Len(s) \in 1..(Len(s) + Len(t)) /\ (s \o t)[i + Len(s)] = t[i]
  <2>1. i + Len(s) \in 1..(Len(s) + Len(t)) /\ ~(i + Len(s) <= Len(s)) /\ (i + Len(s)) - Len(s) = i
    BY <1>1
  <2> QED
    BY <1>1, <2>1
<1>5. ASSUME NEW i \in 1..(Len(s) + Len(t))
      PROVE  \/ i \in 1..Len(s) /\ (s \o t)[i] = s[i]
             \/ i - Len(s) \in 1..Len(t) /\ (s \o t)[i] = t[i - Len(s)]
  BY <1>1
<1> QED
  BY <1>1, <1>2, <1>3, <1>4, <1>5 DEF ToSet

\* The course of Only(): what it has kept of the first items.
Keeps(s, S, kept) ==
    /\ kept[0] = <<>>
    /\ \A n \in Nat : n + 1 \in 1..Len(s) =>
          kept[n + 1] = IF s[n + 1] \in S THEN Append(kept[n], s[n + 1]) ELSE kept[n]

\* filter(): Only() is where its course ends.
LEMMA OnlyExists ==
    ASSUME NEW B, NEW S, NEW s \in Seq(B)
    PROVE  \E kept : Keeps(s, S, kept) /\ Only(s, S) = kept[Len(s)]
<1> DEFINE last == Len(s)
           D == Seq(B)
           Loop(kept) == [n \in 0..last |->
                             IF n = 0 THEN <<>>
                             ELSE IF s[n] \in S THEN Append(kept[n - 1], s[n]) ELSE kept[n - 1]]
           run == CHOOSE kept : kept = Loop(kept)
           step == [p \in Nat \X D |->
                       IF p[1] \in 1..last /\ s[p[1]] \in S THEN Append(p[2], s[p[1]]) ELSE p[2]]
<1>1. last \in Nat /\ (\A n \in 1..last : s[n] \in B) /\ <<>> \in D
  BY LenProperties, ElementOfSeq
<1>2. step \in [Nat \X D -> D]
  <2>1. \A p \in Nat \X D : p[1] \in 1..last => Append(p[2], s[p[1]]) \in D
    BY <1>1, AppendProperties
  <2> QED
    BY <2>1
<1>3. PICK f \in Partial(D, <<>>, step, last) : TRUE
  <2> HIDE DEF step, D, last
  <2>1. \A n \in Nat : Partial(D, <<>>, step, n) # {}
    BY ONLY <1>1, <1>2, PartialExists
  <2> QED
    BY <1>1, <2>1
<1>4. /\ f \in [0..last -> D] /\ f[0] = <<>>
      /\ \A i \in Nat : i < last => f[i + 1] = step[<<i + 1, f[i]>>]
  BY <1>3 DEF Partial
<1>5. f = Loop(f)
  <2>1. ASSUME NEW i \in 0..last, i # 0
        PROVE  f[i] = IF s[i] \in S THEN Append(f[i - 1], s[i]) ELSE f[i - 1]
    <3>1. /\ i - 1 \in Nat /\ i - 1 < last /\ (i - 1) + 1 = i /\ i \in 1..last
          /\ i - 1 \in 0..last /\ i \in Nat
      BY <1>1, <2>1
    <3>2. <<i, f[i - 1]>> \in Nat \X D
      BY <1>4, <3>1
    <3>3. f[i] = step[<<i, f[i - 1]>>]
      BY <1>4, <3>1
    <3> HIDE DEF D
    <3> QED
      BY <3>1, <3>2, <3>3
  <2> QED
    BY <1>4, <2>1
<1>6. run = Loop(run)
  <2> HIDE DEF Loop
  <2> QED
    BY <1>5
<1> HIDE DEF run
<1>7. run[0] = <<>>
  <2>1. 0 \in 0..last
    BY <1>1
  <2> QED
    BY ONLY <1>6, <2>1
<1>8. ASSUME NEW n \in Nat, n + 1 \in 1..last
      PROVE  run[n + 1] = IF s[n + 1] \in S THEN Append(run[n], s[n + 1]) ELSE run[n]
  <2>1. n + 1 \in 0..last /\ n + 1 # 0 /\ (n + 1) - 1 = n
    BY <1>1, <1>8
  <2>2. run[n + 1] = IF s[n + 1] \in S THEN Append(run[(n + 1) - 1], s[n + 1])
                     ELSE run[(n + 1) - 1]
    BY ONLY <1>6, <2>1
  <2> QED
    BY <2>1, <2>2
<1>9. Only(s, S) = run[last]
  BY DEF Only, run
<1>10. Keeps(s, S, run)
  BY <1>7, <1>8 DEF Keeps
<1> QED
  BY <1>9, <1>10

\* Only(), item by item.
LEMMA OnlyAppend ==
    ASSUME NEW B, NEW S, NEW s \in Seq(B), NEW x \in B
    PROVE  Only(Append(s, x), S) = IF x \in S THEN Append(Only(s, S), x) ELSE Only(s, S)
<1> DEFINE t == Append(s, x)
           last == Len(s)
<1>1. /\ t \in Seq(B) /\ Len(t) = last + 1 /\ t[last + 1] = x
      /\ last \in Nat /\ \A i \in 1..last : t[i] = s[i]
  BY AppendProperties, LenProperties
<1> HIDE DEF t
<1>2. PICK f : Keeps(s, S, f) /\ Only(s, S) = f[last]
  BY OnlyExists
<1>3. PICK g : Keeps(t, S, g) /\ Only(t, S) = g[Len(t)]
  BY <1>1, OnlyExists
<1> DEFINE Y == {n \in Nat : n <= last => f[n] = g[n]}
<1>4. 0 \in Y
  BY <1>2, <1>3 DEF Keeps
<1>5. ASSUME NEW n \in Nat, n \in Y PROVE n + 1 \in Y
  <2>1. SUFFICES ASSUME n + 1 <= last PROVE f[n + 1] = g[n + 1]
    OBVIOUS
  <2>2. n + 1 \in 1..last /\ n + 1 \in 1..Len(t) /\ n <= last
    BY <1>1, <2>1
  <2>3. f[n] = g[n] /\ t[n + 1] = s[n + 1]
    BY <1>1, <1>5, <2>2
  <2> QED
    BY <1>2, <1>3, <2>2, <2>3 DEF Keeps
<1>6. f[last] = g[last]
  <2> HIDE DEF Y
  <2>1. \A n \in Nat : n \in Y
    BY <1>4, <1>5, SetInduction
  <2> QED
    BY <1>1, <2>1 DEF Y
<1>7. g[last + 1] = IF x \in S THEN Append(g[last], x) ELSE g[last]
  <2>1. last + 1 \in 1..Len(t)
    BY <1>1
  <2> QED
    BY <1>1, <1>3, <2>1 DEF Keeps
<1> QED
  BY <1>1, <1>2, <1>3, <1>6, <1>7 DEF t

\* Of nothing, nothing is kept.
LEMMA OnlyEmpty == ASSUME NEW S PROVE Only(<<>>, S) = <<>>
<1>1. PICK kept : Keeps(<<>>, S, kept) /\ Only(<<>>, S) = kept[Len(<<>>)]
  <2>1. <<>> \in Seq({})
    OBVIOUS
  <2> QED
    BY <2>1, OnlyExists
<1> QED
  BY <1>1, EmptySeq DEF Keeps

\* What is kept are the items of the set.
LEMMA OnlyKeeps ==
    ASSUME NEW B, NEW S, NEW s \in Seq(B)
    PROVE  Only(s, S) \in Seq(B) /\ ToSet(Only(s, S)) = ToSet(s) \cap S
<1> DEFINE Y == {t \in Seq(B) : Only(t, S) \in Seq(B) /\ ToSet(Only(t, S)) = ToSet(t) \cap S}
<1>1. <<>> \in Y
  <2>1. ToSet(<<>>) = {}
    <3>1. DOMAIN <<>> = {}
      BY EmptySeq
    <3> QED
      BY <3>1 DEF ToSet
  <2>2. Only(<<>>, S) = <<>> /\ <<>> \in Seq(B)
    BY OnlyEmpty
  <2> QED
    BY <2>1, <2>2
<1>2. ASSUME NEW t \in Seq(B), NEW x \in B, t \in Y PROVE Append(t, x) \in Y
  <2>1. Append(t, x) \in Seq(B) /\ ToSet(Append(t, x)) = ToSet(t) \cup {x}
    BY AppendToSet
  <2>2. Only(t, S) \in Seq(B) /\ ToSet(Only(t, S)) = ToSet(t) \cap S
    BY <1>2
  <2>3. /\ Append(Only(t, S), x) \in Seq(B)
        /\ ToSet(Append(Only(t, S), x)) = ToSet(Only(t, S)) \cup {x}
    BY <2>2, AppendToSet
  <2>4. Only(Append(t, x), S) = IF x \in S THEN Append(Only(t, S), x) ELSE Only(t, S)
    BY OnlyAppend
  <2> QED
    BY <2>1, <2>2, <2>3, <2>4
<1> HIDE DEF Y
<1>3. \A t \in Seq(B) : t \in Y
  BY <1>1, <1>2, SeqInduction
<1> QED
  BY <1>3 DEF Y

\* To keep fewer of what has been kept is to keep fewer at once.
LEMMA OnlyTwice ==
    ASSUME NEW B, NEW S, NEW T, NEW s \in Seq(B), \A x \in B : x \in S => x \in T
    PROVE  Only(Only(s, T), S) = Only(s, S)
<1> DEFINE Y == {t \in Seq(B) : Only(Only(t, T), S) = Only(t, S)}
<1>1. <<>> \in Y
  BY OnlyEmpty
<1>2. ASSUME NEW t \in Seq(B), NEW x \in B, t \in Y PROVE Append(t, x) \in Y
  <2>1. Append(t, x) \in Seq(B)
    BY AppendProperties
  <2>2. Only(t, T) \in Seq(B)
    BY OnlyKeeps
  <2>3. Only(Append(t, x), T) = IF x \in T THEN Append(Only(t, T), x) ELSE Only(t, T)
    BY OnlyAppend
  <2>4. Only(Append(t, x), S) = IF x \in S THEN Append(Only(t, S), x) ELSE Only(t, S)
    BY OnlyAppend
  <2>5. Only(Append(Only(t, T), x), S) =
            IF x \in S THEN Append(Only(Only(t, T), S), x) ELSE Only(Only(t, T), S)
    BY <2>2, OnlyAppend
  <2>6. Only(Only(t, T), S) = Only(t, S) /\ (x \in S => x \in T)
    BY <1>2
  <2> QED
    BY <2>1, <2>3, <2>4, <2>5, <2>6
<1> HIDE DEF Y
<1>3. \A t \in Seq(B) : t \in Y
  BY <1>1, <1>2, SeqInduction
<1> QED
  BY <1>3 DEF Y

\* A set that differs in no item keeps the same.
LEMMA OnlySame ==
    ASSUME NEW B, NEW S, NEW T, NEW s \in Seq(B),
           \A x \in ToSet(s) : x \in S <=> x \in T
    PROVE  Only(s, S) = Only(s, T)
<1> DEFINE Y == {t \in Seq(B) : (\A x \in ToSet(t) : x \in S <=> x \in T) => Only(t, S) = Only(t, T)}
<1>1. <<>> \in Y
  BY OnlyEmpty
<1>2. ASSUME NEW t \in Seq(B), NEW x \in B, t \in Y PROVE Append(t, x) \in Y
  <2>1. Append(t, x) \in Seq(B) /\ ToSet(Append(t, x)) = ToSet(t) \cup {x}
    BY AppendToSet
  <2>2. Only(Append(t, x), T) = IF x \in T THEN Append(Only(t, T), x) ELSE Only(t, T)
    BY OnlyAppend
  <2>3. Only(Append(t, x), S) = IF x \in S THEN Append(Only(t, S), x) ELSE Only(t, S)
    BY OnlyAppend
  <2>4. ASSUME \A y \in ToSet(Append(t, x)) : y \in S <=> y \in T
        PROVE  Only(Append(t, x), S) = Only(Append(t, x), T)
    <3>1. (x \in S <=> x \in T) /\ \A y \in ToSet(t) : y \in S <=> y \in T
      BY <2>1, <2>4
    <3>2. Only(t, S) = Only(t, T)
      BY <1>2, <3>1
    <3> QED
      BY <2>2, <2>3, <3>1, <3>2
  <2> QED
    BY <2>1, <2>4
<1> HIDE DEF Y
<1>3. \A t \in Seq(B) : t \in Y
  BY <1>1, <1>2, SeqInduction
<1> QED
  BY <1>3 DEF Y

\* FlattenSeq(): nothing of any of the sequences is lost.
LEMMA FlattenHolds ==
    ASSUME NEW B, NEW ss \in Seq(Seq(B))
    PROVE  /\ FlattenSeq(ss) \in Seq(B)
           /\ \A k \in 1..Len(ss) : ToSet(ss[k]) \subseteq ToSet(FlattenSeq(ss))
<1>1. CASE ss = <<>>
  <2>1. FlattenSeq(ss) = <<>> /\ Len(ss) = 0 /\ <<>> \in Seq(B)
    BY <1>1 DEF FlattenSeq
  <2>2. 1..Len(ss) = {}
    BY <2>1
  <2> QED
    BY <2>1, <2>2
<1>2. CASE ss # <<>>
  <2> DEFINE last == Len(ss)
  <2>1. PICK flat \in [1..last -> Seq(B)] :
           /\ flat[1] = ss[1]
           /\ \A n \in 1..(last - 1) : flat[n + 1] = flat[n] \o ss[n + 1]
           /\ FlattenSeq(ss) = flat[last]
    BY <1>2, FlattenChunks
  <2>2. last \in Nat /\ last >= 1 /\ \A n \in 1..last : ss[n] \in Seq(B)
    <3>1. last \in Nat /\ last # 0
      BY <1>2, EmptySeq, LenProperties
    <3> QED
      BY <3>1, ElementOfSeq
  <2> DEFINE Y == {n \in Nat : n + 1 \in 1..last =>
                       \A k \in 1..(n + 1) : ToSet(ss[k]) \subseteq ToSet(flat[n + 1])}
  <2>3. 0 \in Y
    BY <2>1, <2>2
  <2>4. ASSUME NEW n \in Nat, n \in Y PROVE n + 1 \in Y
    <3> DEFINE m == n + 1
    <3>1. SUFFICES ASSUME m + 1 \in 1..last, NEW k \in 1..(m + 1)
                   PROVE  ToSet(ss[k]) \subseteq ToSet(flat[m + 1])
      OBVIOUS
    <3>2. m \in 1..last /\ m \in 1..(last - 1) /\ m \in Nat
      BY <2>2, <3>1
    <3>3. flat[m + 1] = flat[m] \o ss[m + 1] /\ flat[m] \in Seq(B) /\ ss[m + 1] \in Seq(B)
      BY <2>1, <2>2, <3>1, <3>2
    <3>4. ToSet(flat[m + 1]) = ToSet(flat[m]) \cup ToSet(ss[m + 1])
      BY ONLY <3>3, ConcatToSet
    <3>5. \A j \in 1..m : ToSet(ss[j]) \subseteq ToSet(flat[m])
      BY <2>4, <3>2
    <3>6. k \in 1..m \/ k = m + 1
      BY <3>1, <3>2
    <3> HIDE DEF m
    <3> QED
      BY <3>4, <3>5, <3>6
  <2>5. last - 1 \in Y
    <3> HIDE DEF Y
    <3>1. \A n \in Nat : n \in Y
      BY <2>3, <2>4, SetInduction
    <3> QED
      BY <2>2, <3>1
  <2>6. (last - 1) + 1 = last /\ last \in 1..last
    BY <2>2
  <2> QED
    BY <2>1, <2>5, <2>6
<1> QED
  BY <1>1, <1>2

\* The records asked for with others are, by id, those asked for alone.
LEMMA ExtractOfAsked ==
    ASSUME NEW R, NEW records \in Seq(R), NEW id, NEW list, NEW asked, id \in asked
    PROVE  Extract(Only(records, {r \in ToSet(records) : r.id \in asked}), id, list) =
           Extract(records, id, list)
<1> DEFINE of(s) == {r \in ToSet(s) : r.id = id}
           T == {r \in ToSet(records) : r.id \in asked}
           some == Only(records, T)
<1>1. records \in Seq(ToSet(records))
  <2>1. Len(records) \in Nat /\ records = [i \in 1..Len(records) |-> records[i]]
    BY LenProperties
  <2>2. \A i \in 1..Len(records) : records[i] \in ToSet(records)
    BY LenProperties DEF ToSet
  <2> HIDE DEF ToSet
  <2> QED
    BY ONLY <2>1, <2>2
<1>2. some \in Seq(ToSet(records)) /\ ToSet(some) = ToSet(records) \cap T
  BY <1>1, OnlyKeeps
<1>3. Only(some, of(records)) = Only(records, of(records))
  <2>1. \A r \in ToSet(records) : r \in of(records) => r \in T
    OBVIOUS
  <2> HIDE DEF of, T
  <2> QED
    BY <1>1, <2>1, OnlyTwice
<1>4. Only(some, of(some)) = Only(some, of(records))
  <2>1. \A r \in ToSet(some) : r \in of(some) <=> r \in of(records)
    BY <1>2
  <2> HIDE DEF of, some
  <2> QED
    BY <1>2, <2>1, OnlySame
<1>5. GroupBy(some, id) = GroupBy(records, id)
  BY <1>3, <1>4 DEF GroupBy
<1> QED
  BY <1>5 DEF Extract

\* The values of a name are those of the pairs of that name.
LEMMA ValuesOfName ==
    ASSUME NEW Pair, NEW params \in Seq(Pair), NEW name
    PROVE  /\ PairsNamed(params, name) \in Seq(Pair)
           /\ ToSet(PairsNamed(params, name)) = {p \in ToSet(params) : p[1] = name}
           /\ ToSet(ValuesNamed(params, name)) = {p[2] : p \in {q \in ToSet(params) : q[1] = name}}
           /\ ValuesNamed(params, name) # <<>> => Last(ValuesNamed(params, name)) \in ToSet(ValuesNamed(params, name))
<1> DEFINE pairs == PairsNamed(params, name)
           values == ValuesNamed(params, name)
<1>1. pairs \in Seq(Pair) /\ ToSet(pairs) = {p \in ToSet(params) : p[1] = name}
  <2>1. ToSet(params) \cap {p \in ToSet(params) : p[1] = name} = {p \in ToSet(params) : p[1] = name}
    OBVIOUS
  <2> QED
    BY <2>1, OnlyKeeps DEF PairsNamed
<1>2. values = [i \in DOMAIN pairs |-> pairs[i][2]]
  BY DEF ValuesNamed
<1> HIDE DEF pairs, values
<1>3. DOMAIN pairs = 1..Len(pairs) /\ Len(pairs) \in Nat
  BY <1>1, LenProperties
<1>4. ToSet(values) = {p[2] : p \in ToSet(pairs)}
  BY <1>2 DEF ToSet
<1>5. ASSUME values # <<>> PROVE Last(values) \in ToSet(values)
  <2> DEFINE V == {pairs[i][2] : i \in 1..Len(pairs)}
  <2>1. values \in Seq(V) /\ Len(values) = Len(pairs)
    BY <1>2, <1>3
  <2>2. Len(values) # 0
    BY <1>5, <2>1, EmptySeq
  <2>3. Len(values) \in DOMAIN values
    BY <1>2, <1>3, <2>1, <2>2
  <2> QED
    BY <2>3 DEF Last, ToSet
<1> QED
  BY <1>1, <1>4, <1>5 DEF pairs, values

\* A batch's requests, for GET, POST and gRPC: what a key's records are found
\* by, the one request, and the answer taken apart.
IdOfKey(kind, key) == IF kind = "grpc" THEN key.id ELSE HttpId(key, kind = "get", "id")
OneRequest(kind, keys) ==
    IF kind = "grpc" THEN GrpcMerged(keys) ELSE HttpMerged(keys, kind = "get", "id")
Apart(kind, keys, list, records, fails) ==
    LET answer == Grouping(records, kind = "get", "id", fails, OneRequest(kind, keys))
    IN  IF kind = "grpc" THEN GrpcGrouped(keys, answer)
        ELSE HttpGrouped(keys, kind = "get", "id", list, answer)

\* The keys there are: of POST and gRPC the batching value is in the body.
BatchKeys(kind, Pair, Item, Headers) ==
    {key \in [params : Seq(Pair), body : Seq(Item), id : Seq(Item), headers : Headers] :
        kind = "get" \/ key.id = <<>> \/ key.id[1] \in ToSet(key.body)}

\* QueryBatching, BodyBatching, convert_multiple_inputs(): the one request asks
\* for what each key asks for.
LEMMA AskedTogether ==
    ASSUME NEW kind \in {"get", "post", "grpc"}, NEW Pair, NEW Item, NEW Headers,
           NEW keys \in Seq(BatchKeys(kind, Pair, Item, Headers)), NEW i \in 1..Len(keys),
           IdOfKey(kind, keys[i]) # <<>>
    PROVE  IdOfKey(kind, keys[i])[1] \in Asked(OneRequest(kind, keys), kind = "get", "id")
<1> DEFINE count == Len(keys)
           key == keys[i]
<1>1. count \in Nat /\ \A k \in 1..count : keys[k] \in BatchKeys(kind, Pair, Item, Headers)
  BY LenProperties, ElementOfSeq
<1>2. \A k \in 1..count : keys[k].params \in Seq(Pair) /\ keys[k].body \in Seq(Item)
  BY <1>1 DEF BatchKeys
<1>3. CASE kind = "get"
  <2> DEFINE values == ValuesNamed(key.params, "id")
             others == [k \in 1..(count - 1) |-> Grouped(keys[k + 1].params, <<"id">>)]
             params == keys[1].params \o FlattenSeq(others)
  <2>1. IdOfKey(kind, key) = IF values = <<>> THEN <<>> ELSE <<Last(values)>>
    BY <1>3 DEF IdOfKey, HttpId
  <2>2. values # <<>> /\ IdOfKey(kind, key)[1] = Last(values)
    <3> HIDE DEF values
    <3> QED
      BY <2>1
  <2>3. Last(values) \in {p[2] : p \in {q \in ToSet(key.params) : q[1] = "id"}}
    <3>1. key.params \in Seq(Pair)
      BY <1>2
    <3> QED
      BY <2>2, <3>1, ValuesOfName
  <2>4. PICK p \in ToSet(key.params) : p[1] = "id" /\ p[2] = Last(values)
    BY <2>3
  <2>5. \A k \in 1..(count - 1) : k + 1 \in 1..count /\ Grouped(keys[k + 1].params, <<"id">>) = PairsNamed(keys[k + 1].params, "id")
    BY <1>1 DEF Grouped
  <2>6. others \in Seq(Seq(Pair)) /\ Len(others) = count - 1
    <3>1. \A k \in 1..(count - 1) : others[k] \in Seq(Pair)
      BY <1>2, <2>5, ValuesOfName
    <3>2. count - 1 \in Nat
      BY <1>1
    <3> QED
      BY <3>1, <3>2
  <2>7. 1 \in 1..count
    BY <1>1
  <2>8. /\ FlattenSeq(others) \in Seq(Pair)
        /\ \A k \in 1..(count - 1) : ToSet(others[k]) \subseteq ToSet(FlattenSeq(others))
    <3> HIDE DEF others
    <3> QED
      BY <2>6, FlattenHolds
  <2>9. params \in Seq(Pair) /\ ToSet(params) = ToSet(keys[1].params) \cup ToSet(FlattenSeq(others))
    <3> HIDE DEF others
    <3> QED
      BY <1>2, <2>7, <2>8, ConcatToSet
  <2>10. p \in ToSet(params)
    <3>1. CASE i = 1
      BY <2>4, <2>9, <3>1
    <3>2. CASE i # 1
      <4>1. i - 1 \in 1..(count - 1) /\ (i - 1) + 1 = i
        BY <1>1, <3>2
      <4>2. others[i - 1] = PairsNamed(key.params, "id")
        BY <2>5, <4>1
      <4>3. p \in ToSet(PairsNamed(key.params, "id"))
        BY <1>2, <2>4, ValuesOfName
      <4> HIDE DEF others, params
      <4> QED
        BY <2>8, <2>9, <4>1, <4>2, <4>3
    <3> QED
      BY <3>1, <3>2
  <2>11. Asked(OneRequest(kind, keys), kind = "get", "id") = ToSet(ValuesNamed(params, "id"))
    BY <1>3 DEF Asked, OneRequest, HttpMerged, QueryBatching
  <2>12. p[2] \in ToSet(ValuesNamed(params, "id"))
    <3> HIDE DEF params
    <3>1. params \in Seq(Pair)
      BY <2>9
    <3>2. ToSet(ValuesNamed(params, "id")) = {q[2] : q \in {r \in ToSet(params) : r[1] = "id"}}
      BY ONLY <3>1, ValuesOfName
    <3> QED
      BY <2>4, <2>10, <3>2
  <2> QED
    BY <2>2, <2>4, <2>11, <2>12
<1>4. CASE kind # "get"
  <2> DEFINE bodies == [k \in 1..count |-> keys[k].body]
  <2>1. IdOfKey(kind, key) = key.id
    BY <1>4 DEF IdOfKey, HttpId
  <2>2. key.id[1] \in ToSet(key.body)
    BY <1>1, <1>4, <2>1 DEF BatchKeys
  <2>3. bodies \in Seq(Seq(Item)) /\ Len(bodies) = count
    BY <1>1, <1>2
  <2>4. ToSet(bodies[i]) \subseteq ToSet(FlattenSeq(bodies))
    <3> HIDE DEF bodies
    <3> QED
      BY <2>3, FlattenHolds
  <2>5. DOMAIN keys = 1..count
    BY LenProperties
  <2>6. Asked(OneRequest(kind, keys), kind = "get", "id") = ToSet(FlattenSeq(bodies))
    BY <1>4, <2>5 DEF Asked, OneRequest, HttpMerged, GrpcMerged, BodyBatching
  <2> QED
    BY <2>1, <2>2, <2>4, <2>6
<1> QED
  BY <1>3, <1>4

\* load_with_group_by(): what each of a batch's keys gets.
LEMMA ApartIsByKey ==
    ASSUME NEW kind \in {"get", "post", "grpc"}, NEW Pair, NEW Item, NEW Headers, NEW R,
           NEW keys \in Seq(BatchKeys(kind, Pair, Item, Headers)), NEW list \in BOOLEAN,
           NEW records \in Seq(R), NEW fails \in BOOLEAN
    PROVE  Apart(kind, keys, list, records, fails) =
               IF fails \/ \E i \in DOMAIN keys : IdOfKey(kind, keys[i]) = <<>> THEN Fails
               ELSE <<[i \in DOMAIN keys |->
                          Extract(records, IdOfKey(kind, keys[i])[1], kind # "grpc" /\ list)]>>
<1> DEFINE asked == Asked(OneRequest(kind, keys), kind = "get", "id")
           some == Only(records, {r \in ToSet(records) : r.id \in asked})
           answer == IF fails THEN Fails ELSE <<some>>
           all == kind # "grpc" /\ list
<1>1. Apart(kind, keys, list, records, fails) =
          IF answer = Fails \/ \E i \in DOMAIN keys : IdOfKey(kind, keys[i]) = <<>> THEN Fails
          ELSE <<[i \in DOMAIN keys |-> Extract(answer[1], IdOfKey(kind, keys[i])[1], all)]>>
  <2>1. Grouping(records, kind = "get", "id", fails, OneRequest(kind, keys)) = answer
    BY DEF Grouping
  <2> HIDE DEF answer
  <2>2. CASE kind = "grpc"
    BY <2>1, <2>2 DEF Apart, GrpcGrouped, IdOfKey
  <2>3. CASE kind # "grpc"
    <3>1. all = list
      BY <2>3
    <3> HIDE DEF all
    <3> QED
      BY <2>1, <2>3, <3>1 DEF Apart, HttpGrouped, IdOfKey
  <2> QED
    BY <2>2, <2>3
<1>2. (answer = Fails) = fails
  BY DEF Fails
<1>3. CASE fails \/ \E i \in DOMAIN keys : IdOfKey(kind, keys[i]) = <<>>
  <2> HIDE DEF answer, all
  <2> QED
    BY <1>1, <1>2, <1>3
<1>4. CASE ~fails /\ \A i \in DOMAIN keys : IdOfKey(kind, keys[i]) # <<>>
  <2>1. answer[1] = some /\ answer # Fails
    BY <1>4 DEF Fails
  <2>2. ASSUME NEW i \in DOMAIN keys
        PROVE  Extract(some, IdOfKey(kind, keys[i])[1], all) =
                   Extract(records, IdOfKey(kind, keys[i])[1], all)
    <3>1. i \in 1..Len(keys)
      BY LenProperties
    <3>2. IdOfKey(kind, keys[i])[1] \in asked
      BY <1>4, <3>1, AskedTogether
    <3> HIDE DEF asked, all
    <3> QED
      BY <3>2, ExtractOfAsked
  <2> HIDE DEF some, answer, all
  <2> QED
    BY <1>1, <1>4, <2>1, <2>2 DEF all
<1> QED
  BY <1>3, <1>4

\* HttpDataLoader, GraphqlDataLoader, GrpcDataLoader: a batch of requests, as
\* many as there are, of any records and in any order, gets for each of them
\* what it gets alone, if nothing but the group's key tells them apart.
THEOREM BatchesAreTakenApart ==
    ASSUME NEW kind \in {"get", "post", "grpc", "graphql", "single"},
           NEW Pair, NEW Item, NEW Headers, NEW R,
           NEW keys \in Seq(BatchKeys(kind, Pair, Item, Headers)), keys # <<>>,
           NEW list \in BOOLEAN, NEW records \in Seq(R), NEW fails \in BOOLEAN, NEW short \in Nat
    PROVE  ApartAsAlone(kind, keys, list, records, fails, short)
<1>1. Len(keys) \in Nat /\ DOMAIN keys = 1..Len(keys)
  BY LenProperties
<1>2. CASE kind = "graphql"
  <2> DEFINE body == GraphqlMerged(keys).body
             answer == Listing(fails, short, GraphqlMerged(keys))
  <2>1. body = [i \in 1..Len(keys) |-> keys[i].body] /\ Len(body) = Len(keys)
    <3>1. body = [i \in 1..Len(keys) |-> keys[i].body]
      BY <1>1 DEF GraphqlMerged
    <3>2. body \in Seq({keys[i].body : i \in 1..Len(keys)})
      BY <1>1, <3>1
    <3> HIDE DEF body
    <3> QED
      BY <1>1, <3>1, <3>2, LenProperties
  <2>2. answer = IF fails THEN Fails ELSE <<[i \in 1..(Len(keys) - short) |-> body[i]]>>
    BY <2>1 DEF Listing
  <2>3. ASSUME NEW i \in DOMAIN keys
        PROVE  GraphqlBatch(keys, answer)[i] =
                   IF fails \/ i > Len(keys) - short THEN Fails ELSE <<keys[i].body>>
    <3>1. GraphqlBatch(keys, answer)[i] =
              IF answer # Fails /\ i \in DOMAIN answer[1] THEN <<answer[1][i]>> ELSE Fails
      BY DEF GraphqlBatch
    <3>2. CASE fails
      BY <2>2, <3>1, <3>2
    <3>3. CASE ~fails
      <4>1. answer # Fails /\ answer[1] = [j \in 1..(Len(keys) - short) |-> body[j]]
        BY <2>2, <3>3 DEF Fails
      <4>2. i \in DOMAIN answer[1] <=> ~(i > Len(keys) - short)
        BY <1>1, <4>1
      <4>3. i \in DOMAIN answer[1] => answer[1][i] = keys[i].body
        BY <1>1, <2>1, <4>1
      <4> HIDE DEF answer
      <4> QED
        BY <3>1, <3>3, <4>1, <4>2, <4>3
    <3> QED
      BY <3>2, <3>3
  <2> QED
    BY <1>2, <2>3 DEF ApartAsAlone
<1>3. CASE kind = "single"
  <2> DEFINE failing(key) == IF key.id[1] = "2" /\ fails THEN Fails ELSE <<key.id[1]>>
             answers == [i \in DOMAIN keys |-> failing(keys[i])]
  <2>1. \A i \in DOMAIN keys : failing(keys[i]) # Fails => failing(keys[i])[1] = keys[i].id[1]
    BY DEF Fails
  <2>2. OneByOne(answers) = IF \E i \in DOMAIN keys : failing(keys[i]) = Fails THEN Fails
                            ELSE <<[i \in DOMAIN keys |-> failing(keys[i])[1]]>>
    BY DEF OneByOne
  <2>3. OneByOne(answers) = IF \E i \in DOMAIN keys : failing(keys[i]) = Fails THEN Fails
                            ELSE <<[i \in DOMAIN keys |-> keys[i].id[1]]>>
    <3> HIDE DEF answers, failing
    <3> QED
      BY <2>1, <2>2
  <2> QED
    BY <1>3, <2>3 DEF ApartAsAlone
<1>4. CASE kind \in {"get", "post", "grpc"}
  <2> DEFINE batch(ks) == Apart(kind, ks, list, records, fails)
             own(key) == IdOfKey(kind, key)
             K == BatchKeys(kind, Pair, Item, Headers)
             share(key) == Extract(records, own(key)[1], kind # "grpc" /\ list)
  <2>1. \A ks \in Seq(K) :
           batch(ks) = IF fails \/ \E i \in DOMAIN ks : own(ks[i]) = <<>> THEN Fails
                       ELSE <<[i \in DOMAIN ks |-> share(ks[i])]>>
    BY <1>4, ApartIsByKey
  <2>2. \A i \in DOMAIN keys : keys[i] \in K
    BY <1>1, ElementOfSeq
  <2>3. ASSUME NEW i \in DOMAIN keys
        PROVE  batch(<<keys[i]>>) = IF fails \/ own(keys[i]) = <<>> THEN Fails
                                    ELSE << <<share(keys[i])>> >>
    <3> DEFINE key == keys[i]
               ks == <<key>>
    <3>1. ks \in Seq(K) /\ DOMAIN ks = {1} /\ ks[1] = key
      BY <2>2
    <3>2. [j \in DOMAIN ks |-> share(ks[j])] = <<share(key)>>
      BY <3>1
    <3> HIDE DEF ks, batch, own, share, K, key
    <3>3. batch(ks) = IF fails \/ own(key) = <<>> THEN Fails ELSE << <<share(key)>> >>
      BY <2>1, <3>1, <3>2
    <3> QED
      BY <3>3 DEF ks, key
  <2>4. IF \E i \in DOMAIN keys : batch(<<keys[i]>>) = Fails
        THEN batch(keys) = Fails
        ELSE \A i \in DOMAIN keys : batch(keys)[1][i] = batch(<<keys[i]>>)[1][1]
    <3> HIDE DEF batch, own, share, K
    <3>1. CASE fails \/ \E i \in DOMAIN keys : own(keys[i]) = <<>>
      <4>1. 1 \in DOMAIN keys
        BY <1>1, EmptySeq
      <4>2. \E i \in DOMAIN keys : batch(<<keys[i]>>) = Fails
        BY <2>3, <3>1, <4>1
      <4>3. batch(keys) = Fails
        BY <2>1, <3>1 DEF K
      <4> QED
        BY <4>2, <4>3
    <3>2. CASE ~fails /\ \A i \in DOMAIN keys : own(keys[i]) # <<>>
      <4>1. batch(keys) = <<[i \in DOMAIN keys |-> share(keys[i])]>>
        BY <2>1, <3>2 DEF K
      <4>2. \A i \in DOMAIN keys : batch(<<keys[i]>>) = << <<share(keys[i])>> >>
        BY <2>3, <3>2
      <4> DEFINE alone(i) == batch(<<keys[i]>>)
                 together == batch(keys)
      <4>3. \A i \in DOMAIN keys : alone(i) = << <<share(keys[i])>> >>
        BY <4>2
      <4>4. together = <<[i \in DOMAIN keys |-> share(keys[i])]>>
        BY <4>1
      <4> HIDE DEF alone, together
      <4>5. \A i \in DOMAIN keys : alone(i) # Fails /\ alone(i)[1][1] = share(keys[i])
        BY <4>3 DEF Fails
      <4>6. \A i \in DOMAIN keys : together[1][i] = share(keys[i])
        BY <4>4
      <4>7. IF \E i \in DOMAIN keys : alone(i) = Fails THEN together = Fails
            ELSE \A i \in DOMAIN keys : together[1][i] = alone(i)[1][1]
        BY <4>5, <4>6
      <4> QED
        BY <4>7 DEF alone, together
    <3> QED
      BY <3>1, <3>2
  <2>5. ApartAsAlone(kind, keys, list, records, fails, short) =
            IF \E i \in DOMAIN keys : batch(<<keys[i]>>) = Fails
            THEN batch(keys) = Fails
            ELSE \A i \in DOMAIN keys : batch(keys)[1][i] = batch(<<keys[i]>>)[1][1]
    <3>1. ~(kind = "graphql") /\ ~(kind = "single")
      BY <1>4
    <3> QED
      BY <3>1 DEF ApartAsAlone, Apart, OneRequest
  <2> QED
    BY <2>4, <2>5
<1> QED
  BY <1>2, <1>3, <1>4

\* A sequence of one, changed.
LEMMA OneChanged == \A a, b : [<<a>> EXCEPT ![1] = b] = <<b>>
OBVIOUS

-----------------------------------------------------------------------------
(* What the other side sends: the messages of a stream, as bytes.          *)
\* block.lines(): without a line end there is one line.
LEMMA LinesOfOne ==
    ASSUME NEW Byte, NEW block \in Seq(Byte), \A i \in 1..Len(block) : block[i] # "\n"
    PROVE  Lines(block) = <<block>>
<1> DEFINE last == Len(block)
           Loop(lines) == [n \in 0..last |->
               IF n = 0 THEN << <<>> >>
               ELSE IF block[n] = "\n" THEN Append(lines[n - 1], <<>>)
               ELSE [lines[n - 1] EXCEPT ![Len(lines[n - 1])] = Append(@, block[n])]]
           run == CHOOSE lines : lines = Loop(lines)
           front(n) == SubSeq(block, 1, n)
           f == [n \in 0..last |-> <<front(n)>>]
<1>1. last \in Nat /\ \A i \in 1..last : block[i] \in Byte
  BY LenProperties, ElementOfSeq
<1>2. front(0) = <<>>
  BY <1>1, SubSeqEmpty
<1>3. front(last) = block
  BY SubSeqFull
<1>4. ASSUME NEW n \in 1..last PROVE Append(front(n - 1), block[n]) = front(n)
  <2>1. n \in Nat /\ n - 1 \in Nat
    BY <1>1
  <2>2. \A i \in 1..n : block[i] \in Byte
    BY <1>1
  <2>3. /\ front(n) \in Seq(Byte) /\ Len(front(n)) = n
        /\ \A i \in 1..n : front(n)[i] = block[i]
    BY ONLY <2>1, <2>2, SubSeqProperties
  <2>4. \A i \in 1..(n - 1) : block[i] \in Byte
    BY <2>1, <2>2
  <2>5. /\ front(n - 1) \in Seq(Byte) /\ Len(front(n - 1)) = n - 1
        /\ \A i \in 1..(n - 1) : front(n - 1)[i] = block[i]
    BY ONLY <2>1, <2>4, SubSeqProperties
  <2> HIDE DEF front
  <2>6. front(n) = [i \in 1..n |-> block[i]]
    BY ONLY <2>1, <2>3, LenProperties
  <2>7. Append(front(n - 1), block[n]) = [i \in 1..n |-> IF i = n THEN block[n] ELSE front(n - 1)[i]]
    BY ONLY <2>1, <2>5
  <2> QED
    BY ONLY <2>1, <2>5, <2>6, <2>7
<1> HIDE DEF front
<1>5. f = Loop(f)
  <2>1. ASSUME NEW n \in 0..last, n # 0
        PROVE  f[n] = IF block[n] = "\n" THEN Append(f[n - 1], <<>>)
                      ELSE [f[n - 1] EXCEPT ![Len(f[n - 1])] = Append(@, block[n])]
    <3>1. n \in 1..last /\ n - 1 \in 0..last
      BY <1>1, <2>1
    <3>2. f[n - 1] = <<front(n - 1)>> /\ f[n] = <<front(n)>> /\ block[n] # "\n"
      BY <3>1
    <3>3. [<<front(n - 1)>> EXCEPT ![1] = Append(@, block[n])] = <<front(n)>>
      <4>1. Append(front(n - 1), block[n]) = front(n)
        BY <1>4, <3>1
      <4> DEFINE was == front(n - 1)
                 byte == block[n]
      <4> HIDE DEF was, byte
      <4>2. Append(<<was>>[1], byte) = front(n)
        BY <4>1 DEF was, byte
      <4>3. [<<was>> EXCEPT ![1] = Append(@, byte)] = <<front(n)>>
        BY ONLY <4>2, OneChanged
      <4> QED
        BY <4>3 DEF was, byte
    <3>4. Len(<<front(n - 1)>>) = 1
      OBVIOUS
    <3> QED
      BY ONLY <3>2, <3>3, <3>4
  <2>2. f[0] = << <<>> >>
    BY <1>1, <1>2
  <2> HIDE DEF f
  <2>3. f = [n \in 0..last |-> f[n]]
    BY DEF f
  <2> QED
    BY <2>1, <2>2, <2>3
<1>6. run = Loop(run)
  <2> HIDE DEF Loop, f
  <2> QED
    BY <1>5
<1> HIDE DEF run
<1>7. \A n \in 0..last : run[n] = f[n]
  <2> DEFINE Y == {n \in Nat : n \in 0..last => run[n] = f[n]}
  <2>1. 0 \in Y
    <3>1. 0 \in 0..last
      BY <1>1
    <3>2. run[0] = << <<>> >>
      BY ONLY <1>6, <3>1
    <3> QED
      BY <1>2, <3>1, <3>2
  <2>2. ASSUME NEW n \in Nat, n \in Y PROVE n + 1 \in Y
    <3>1. SUFFICES ASSUME n + 1 \in 0..last PROVE run[n + 1] = f[n + 1]
      OBVIOUS
    <3>2. n \in 0..last /\ n + 1 # 0 /\ (n + 1) - 1 = n
      BY <1>1, <3>1
    <3>3. run[n] = f[n]
      BY <2>2, <3>2
    <3> DEFINE next(lines) == IF block[n + 1] = "\n" THEN Append(lines, <<>>)
                              ELSE [lines EXCEPT ![Len(lines)] = Append(@, block[n + 1])]
    <3> HIDE DEF f
    <3>4. run[n + 1] = next(run[(n + 1) - 1])
      BY ONLY <1>6, <3>1, <3>2
    <3>5. f[n + 1] = next(f[(n + 1) - 1])
      BY ONLY <1>5, <3>1, <3>2
    <3> QED
      BY <3>2, <3>3, <3>4, <3>5
  <2> HIDE DEF Y
  <2>3. \A n \in Nat : n \in Y
    BY <2>1, <2>2, SetInduction
  <2>4. \A n \in 0..last : n \in Nat
    BY <1>1
  <2> QED
    BY <2>3, <2>4 DEF Y
<1>8. Lines(block) = run[last]
  BY DEF Lines, run
<1>9. last \in 0..last
  BY <1>1
<1> QED
  BY <1>3, <1>7, <1>8, <1>9

\* The data of an event of one line is that line's.
LEMMA JoinOne ==
    ASSUME NEW part
    PROVE  JoinLines(<<part>>) = part
<1> DEFINE parts == <<part>>
           Loop(text) == [n \in 0..1 |->
               IF n = 0 THEN <<>>
               ELSE IF n = 1 THEN parts[1] ELSE text[n - 1] \o <<"\n">> \o parts[n]]
           run == CHOOSE text : text = Loop(text)
           f == [n \in 0..1 |-> IF n = 0 THEN <<>> ELSE part]
<1>1. Len(parts) = 1 /\ parts[1] = part
  OBVIOUS
<1> HIDE DEF parts
<1>2. f = Loop(f)
  <2>1. \A n \in 0..1 : n # 0 => n = 1
    OBVIOUS
  <2> QED
    BY ONLY <1>1, <2>1
<1>3. run = Loop(run)
  <2> HIDE DEF f, Loop
  <2> QED
    BY <1>2
<1> HIDE DEF run
<1>4. run[1] = part
  BY ONLY <1>1, <1>3
<1>5. JoinLines(parts) = run[1]
  <2> HIDE DEF Loop
  <2>1. JoinLines(parts) = (CHOOSE text : text = [n \in 0..1 |->
               IF n = 0 THEN <<>>
               ELSE IF n = 1 THEN parts[1] ELSE text[n - 1] \o <<"\n">> \o parts[n]])[1]
    BY ONLY <1>1 DEF JoinLines
  <2> QED
    BY ONLY <2>1 DEF run, Loop
<1> QED
  BY <1>4, <1>5 DEF parts

\* FlattenSeq() of one sequence is that one.
LEMMA FlattenOne ==
    ASSUME NEW Byte, NEW s \in Seq(Byte)
    PROVE  FlattenSeq(<<s>>) = s
<1> DEFINE whole == <<s>>
<1>1. whole \in Seq(Seq(Byte)) /\ Len(whole) = 1 /\ whole # <<>> /\ whole[1] = s
  OBVIOUS
<1> HIDE DEF whole
<1>2. PICK flat \in [1..Len(whole) -> Seq(Byte)] :
          /\ flat[1] = whole[1]
          /\ \A n \in 1..(Len(whole) - 1) : flat[n + 1] = flat[n] \o whole[n + 1]
          /\ FlattenSeq(whole) = flat[Len(whole)]
  BY <1>1, FlattenChunks
<1>3. FlattenSeq(whole) = s
  BY <1>1, <1>2
<1> QED
  BY <1>3 DEF whole

\* value.trim_start() takes the blank after the colon, and no more of a text
\* that begins with another character.
LEMMA TrimBlank ==
    ASSUME NEW Byte, "blank" \in Byte, NEW text \in Seq(Byte), text # <<>>, text[1] # "blank"
    PROVE  TrimStart(<<"blank">> \o text) = text
<1> DEFINE all == <<"blank">> \o text
           I == {i \in 1..Len(all) : all[i] # "blank"}
<1>1. Len(text) \in Nat /\ Len(text) # 0
  BY LenProperties, EmptySeq
<1>2. /\ all \in Seq(Byte) /\ Len(all) = 1 + Len(text)
      /\ \A i \in 1..(1 + Len(text)) : all[i] = IF i <= 1 THEN "blank" ELSE text[i - 1]
  <2> DEFINE one == <<"blank">>
  <2>1. one \in Seq(Byte) /\ Len(one) = 1 /\ one[1] = "blank"
    OBVIOUS
  <2> HIDE DEF one
  <2>2. /\ one \o text \in Seq(Byte) /\ Len(one \o text) = Len(one) + Len(text)
        /\ \A i \in 1..(Len(one) + Len(text)) :
              (one \o text)[i] = IF i <= Len(one) THEN one[i] ELSE text[i - Len(one)]
    BY <2>1, ConcatProperties
  <2>3. all = one \o text
    BY DEF one
  <2>4. \A i \in 1..(1 + Len(text)) : i <= 1 => i = 1
    OBVIOUS
  <2> HIDE DEF all
  <2> QED
    BY <2>1, <2>2, <2>3, <2>4
<1> HIDE DEF all
<1>3. 2 \in I /\ \A i \in I : i >= 2
  <2>1. all[1] = "blank" /\ all[2] = text[1]
    BY <1>1, <1>2
  <2> QED
    BY <1>1, <1>2, <2>1
<1>4. Min(I) = 2
  <2>1. \A i \in I : i \in Nat
    BY <1>2, <1>1
  <2>2. \A j \in I : (\A i \in I : j <= i) => j = 2
    BY <1>3, <2>1
  <2> HIDE DEF I
  <2> QED
    BY <1>3, <2>1, <2>2 DEF Min
<1>5. SelectInSeq(all, LAMBDA byte : byte # "blank") = 2
  <2>1. I # {}
    BY <1>3
  <2> QED
    BY <1>4, <2>1 DEF SelectInSeq
<1>6. SubSeq(all, 2, Len(all)) = text
  <2> DEFINE l == SubSeq(all, 2, Len(all))
  <2>1. \A i \in 2..Len(all) : all[i] \in Byte
    BY <1>1, <1>2, ElementOfSeq
  <2>2. /\ l \in Seq(Byte) /\ Len(l) = Len(all) - 1
        /\ \A i \in 1..(Len(all) - 1) : l[i] = all[2 + i - 1]
    BY <1>1, <1>2, <2>1, SubSeqProperties
  <2>3. ASSUME NEW i \in 1..Len(text) PROVE l[i] = text[i]
    <3>1. i + 1 \in 1..(1 + Len(text)) /\ ~(i + 1 <= 1) /\ (i + 1) - 1 = i /\ 2 + i - 1 = i + 1
      BY <1>1
    <3> QED
      BY <1>1, <1>2, <2>2, <3>1
  <2> HIDE DEF l
  <2>4. Len(l) = Len(text)
    BY <1>1, <1>2, <2>2
  <2>5. l = text
    BY <2>2, <2>3, <2>4, SeqEqual
  <2> QED
    BY <2>5 DEF l
<1>7. TrimStart(all) = text
  <2>1. 2 # 0
    OBVIOUS
  <2> QED
    BY <1>5, <1>6, <2>1 DEF TrimStart
<1> QED
  BY <1>7 DEF all

\* The bytes an event is made of, and the JSON that may stand in one.
EventBytes == {"data", ":", "blank", "\n"}
JsonTexts(Byte) ==
    {m \in Seq(Byte) : m # <<>> /\ m[1] # "blank" /\ \A i \in 1..Len(m) : m[i] # "\n"}

\* The bytes of an event.
LEMMA EventIsBytes ==
    ASSUME NEW Byte, EventBytes \subseteq Byte, NEW message \in JsonTexts(Byte)
    PROVE  LET e == Event(message) l == Len(message)
           IN  /\ e \in Seq(Byte) /\ Len(e) = 5 + l /\ l \in Nat /\ l # 0
               /\ e[1] = "data" /\ e[2] = ":" /\ e[3] = "blank"
               /\ \A i \in 1..l : e[3 + i] = message[i]
               /\ e[4 + l] = "\n" /\ e[5 + l] = "\n"
               /\ \A i \in 1..(3 + l) : e[i] # "\n"
<1> DEFINE e == Event(message)
           l == Len(message)
           head == <<"data", ":", "blank">>
           tail == <<"\n", "\n">>
           block == head \o message
<1>1. /\ message \in Seq(Byte) /\ message # <<>> /\ message[1] # "blank"
      /\ \A i \in 1..l : message[i] # "\n"
  BY DEF JsonTexts
<1>2. l \in Nat /\ l # 0
  BY <1>1, LenProperties, EmptySeq
<1>3. head \in Seq(Byte) /\ Len(head) = 3 /\ tail \in Seq(Byte) /\ Len(tail) = 2
  BY DEF EventBytes
<1>4. head[1] = "data" /\ head[2] = ":" /\ head[3] = "blank" /\ tail[1] = "\n" /\ tail[2] = "\n"
  OBVIOUS
<1>5. e = block \o tail
  BY DEF Event
<1> HIDE DEF e, head, tail
<1>6. /\ block \in Seq(Byte) /\ Len(block) = 3 + l
      /\ \A i \in 1..(3 + l) : block[i] = IF i <= 3 THEN head[i] ELSE message[i - 3]
  <2>1. /\ head \o message \in Seq(Byte) /\ Len(head \o message) = Len(head) + Len(message)
        /\ \A i \in 1..(Len(head) + Len(message)) :
              (head \o message)[i] = IF i <= Len(head) THEN head[i] ELSE message[i - Len(head)]
    BY ONLY <1>1, <1>3, ConcatProperties
  <2> QED
    BY ONLY <2>1, <1>3
<1> HIDE DEF block
<1>7. /\ e \in Seq(Byte) /\ Len(e) = 5 + l
      /\ \A i \in 1..(5 + l) : e[i] = IF i <= 3 + l THEN block[i] ELSE tail[i - (3 + l)]
  <2>1. /\ block \o tail \in Seq(Byte) /\ Len(block \o tail) = Len(block) + Len(tail)
        /\ \A i \in 1..(Len(block) + Len(tail)) :
              (block \o tail)[i] = IF i <= Len(block) THEN block[i] ELSE tail[i - Len(block)]
    BY ONLY <1>3, <1>6, ConcatProperties
  <2>2. Len(block) = 3 + l /\ Len(block) + Len(tail) = 5 + l
    BY <1>2, <1>3, <1>6
  <2> QED
    BY ONLY <1>5, <2>1, <2>2
<1> HIDE DEF l
<1>8. e[1] = "data" /\ e[2] = ":" /\ e[3] = "blank"
  <2>1. \A i \in {1, 2, 3} : i \in 1..(5 + l) /\ i \in 1..(3 + l) /\ i <= 3 + l /\ i <= 3
    BY ONLY <1>2
  <2>2. \A i \in {1, 2, 3} : e[i] = head[i]
    BY ONLY <1>6, <1>7, <2>1
  <2> QED
    BY ONLY <1>4, <2>2
<1>9. ASSUME NEW i \in 1..l PROVE e[3 + i] = message[i]
  <2>1. /\ 3 + i \in 1..(5 + l) /\ 3 + i \in 1..(3 + l) /\ 3 + i <= 3 + l
        /\ ~(3 + i <= 3) /\ (3 + i) - 3 = i
    BY ONLY <1>2, i \in 1..l
  <2> QED
    BY ONLY <1>6, <1>7, <2>1
<1>10. e[4 + l] = "\n" /\ e[5 + l] = "\n"
  <2>1. /\ 4 + l \in 1..(5 + l) /\ ~(4 + l <= 3 + l) /\ (4 + l) - (3 + l) = 1
        /\ 5 + l \in 1..(5 + l) /\ ~(5 + l <= 3 + l) /\ (5 + l) - (3 + l) = 2
    BY ONLY <1>2
  <2> QED
    BY ONLY <1>4, <1>7, <2>1
<1>11. ASSUME NEW i \in 1..(3 + l) PROVE e[i] # "\n"
  <2>1. CASE i <= 3
    <3>1. i = 1 \/ i = 2 \/ i = 3
      BY <1>2, <2>1
    <3> QED
      BY ONLY <1>8, <3>1
  <2>2. CASE ~(i <= 3)
    <3>1. i - 3 \in 1..l /\ 3 + (i - 3) = i
      BY <1>2, <2>2
    <3> QED
      BY <1>1, <1>9, <3>1 DEF l
  <2> QED
    BY <2>1, <2>2
<1> QED
  BY <1>2, <1>7, <1>8, <1>9, <1>10, <1>11 DEF e, l

\* SseEventParser: an event alone is its JSON, and leaves nothing behind; and of
\* an event that is not whole nothing comes out.
LEMMA EventIsOne ==
    ASSUME NEW Byte, EventBytes \subseteq Byte, NEW message \in JsonTexts(Byte)
    PROVE  /\ SseEvent(Event(message)) = Unit(<<>>, <<message>>)
           /\ \A n \in 0..(Len(Event(message)) - 1) : SseEvent(SubSeq(Event(message), 1, n)) = <<>>
<1> DEFINE e == Event(message)
           l == Len(message)
           block == SubSeq(e, 1, 3 + l)
           blank == <<"blank">>
<1>1. /\ message \in Seq(Byte) /\ message # <<>> /\ message[1] # "blank"
      /\ EventBytes \subseteq Byte
  BY DEF JsonTexts
<1>2. /\ e \in Seq(Byte) /\ Len(e) = 5 + l /\ l \in Nat /\ l # 0
      /\ e[1] = "data" /\ e[2] = ":" /\ e[3] = "blank"
      /\ \A i \in 1..l : e[3 + i] = message[i]
      /\ e[4 + l] = "\n" /\ e[5 + l] = "\n"
      /\ \A i \in 1..(3 + l) : e[i] # "\n"
  BY EventIsBytes
<1> HIDE DEF e, l
<1>3. BlankLine(e) = {4 + l}
  <2>1. 4 + l \in BlankLine(e)
    <3>1. 4 + l \in 1..(Len(e) - 1) /\ (4 + l) + 1 = 5 + l
      BY ONLY <1>2
    <3> QED
      BY ONLY <1>2, <3>1 DEF BlankLine
  <2>2. ASSUME NEW i \in BlankLine(e) PROVE i = 4 + l
    <3>1. i \in 1..(4 + l) /\ e[i] = "\n"
      <4>1. Len(e) - 1 = 4 + l
        BY ONLY <1>2
      <4> QED
        BY ONLY <4>1, i \in BlankLine(e) DEF BlankLine
    <3>2. i \notin 1..(3 + l)
      BY ONLY <1>2, <3>1
    <3> QED
      BY ONLY <1>2, <3>1, <3>2
  <2> QED
    BY ONLY <2>1, <2>2
<1>4. Min(BlankLine(e)) = 4 + l
  <2>1. 4 + l <= 4 + l
    BY <1>2
  <2>2. Min({4 + l}) = 4 + l
    BY ONLY <2>1 DEF Min
  <2> QED
    BY <1>3, <2>2
<1>5. SubSeq(e, (4 + l) + 2, Len(e)) = <<>>
  <2>1. (4 + l) + 2 \in Nat /\ Len(e) \in Nat /\ Len(e) < (4 + l) + 2
    BY ONLY <1>2
  <2> QED
    BY <1>2, <2>1, SubSeqEmpty
<1>6. /\ block \in Seq(Byte) /\ Len(block) = 3 + l
      /\ \A i \in 1..(3 + l) : block[i] = e[i]
  <2>1. 3 + l \in Nat /\ \A i \in 1..(3 + l) : i \in 1..Len(e) /\ 1 + i - 1 = i
    BY ONLY <1>2
  <2>2. \A i \in 1..(3 + l) : e[i] \in Byte
    BY ONLY <1>2, <2>1, ElementOfSeq
  <2>3. (3 + l) - 1 + 1 = 3 + l
    BY ONLY <1>2
  <2>4. /\ SubSeq(e, 1, 3 + l) \in Seq(Byte)
        /\ Len(SubSeq(e, 1, 3 + l)) = IF 1 <= 3 + l THEN (3 + l) - 1 + 1 ELSE 0
        /\ \A i \in 1..((3 + l) - 1 + 1) : SubSeq(e, 1, 3 + l)[i] = e[1 + i - 1]
    BY ONLY <2>1, <2>2, SubSeqProperties
  <2> QED
    BY ONLY <1>2, <2>1, <2>3, <2>4
<1> HIDE DEF block
<1>7. Lines(block) = <<block>>
  <2>1. \A i \in 1..Len(block) : block[i] # "\n"
    BY ONLY <1>2, <1>6
  <2> QED
    BY ONLY <1>6, <2>1, LinesOfOne
<1>8. SubSeq(block, 3, Len(block)) = blank \o message
  <2> DEFINE s == SubSeq(block, 3, Len(block))
             t == blank \o message
  <2>1. 3 + l \in Nat /\ (3 + l) - 3 + 1 = 1 + l /\ 3 <= 3 + l
    BY ONLY <1>2
  <2>2. \A i \in 3..(3 + l) : block[i] \in Byte
    <3>1. \A i \in 3..(3 + l) : i \in 1..Len(block)
      BY ONLY <1>2, <1>6
    <3> QED
      BY ONLY <1>6, <3>1, ElementOfSeq
  <2>3. /\ s \in Seq(Byte) /\ Len(s) = 1 + l /\ \A i \in 1..(1 + l) : s[i] = block[3 + i - 1]
    BY <1>6, <2>1, <2>2, SubSeqProperties
  <2>4. blank \in Seq(Byte) /\ Len(blank) = 1 /\ blank[1] = "blank"
    BY <1>1 DEF EventBytes
  <2> HIDE DEF blank, s
  <2>5. /\ t \in Seq(Byte) /\ Len(t) = 1 + l
        /\ \A i \in 1..(1 + l) : t[i] = IF i <= 1 THEN blank[i] ELSE message[i - 1]
    <3>1. /\ blank \o message \in Seq(Byte) /\ Len(blank \o message) = Len(blank) + Len(message)
          /\ \A i \in 1..(Len(blank) + Len(message)) :
                (blank \o message)[i] = IF i <= Len(blank) THEN blank[i] ELSE message[i - Len(blank)]
      BY ONLY <1>1, <2>4, ConcatProperties
    <3> QED
      BY ONLY <2>4, <3>1 DEF l
  <2> HIDE DEF t
  <2>6. ASSUME NEW i \in 1..(1 + l) PROVE s[i] = t[i]
    <3>1. 3 + i - 1 \in 1..(3 + l) /\ s[i] = block[3 + i - 1] /\ block[3 + i - 1] = e[3 + i - 1]
      BY <1>2, <1>6, <2>3
    <3>2. CASE i = 1
      <4>1. 3 + i - 1 = 3 /\ i <= 1
        BY <3>2
      <4>2. t[i] = "blank"
        BY <2>4, <2>5, <3>2, <4>1
      <4> QED
        BY ONLY <1>2, <3>1, <4>1, <4>2
    <3>3. CASE i # 1
      <4>1. i - 1 \in 1..l /\ 3 + (i - 1) = 3 + i - 1 /\ ~(i <= 1)
        BY <1>2, <3>3
      <4>2. t[i] = message[i - 1]
        BY <2>5, <4>1
      <4>3. e[3 + (i - 1)] = message[i - 1]
        BY ONLY <1>2, <4>1
      <4> QED
        BY <3>1, <4>1, <4>2, <4>3
    <3> QED
      BY <3>2, <3>3
  <2>7. s = t
    BY ONLY <2>3, <2>5, <2>6, SeqEqual
  <2> QED
    BY <2>7 DEF s, t
<1>9. TrimStart(blank \o message) = message
  <2>1. "blank" \in Byte
    BY <1>1 DEF EventBytes
  <2> QED
    BY ONLY <1>1, <2>1, TrimBlank DEF blank
<1>10. DataOf(block) = <<message>>
  <2>1. block # <<"data">> /\ Len(block) > 1
    <3> DEFINE one == <<"data">>
    <3>1. Len(one) = 1
      OBVIOUS
    <3>2. Len(block) = 3 + l /\ l \in Nat
      BY <1>2, <1>6
    <3> HIDE DEF one
    <3>3. block # one /\ Len(block) > 1
      BY ONLY <3>1, <3>2
    <3> QED
      BY <3>3 DEF one
  <2>2. block[1] = "data" /\ block[2] = ":"
    <3>1. 1 \in 1..(3 + l) /\ 2 \in 1..(3 + l)
      BY ONLY <1>2
    <3> QED
      BY ONLY <1>2, <1>6, <3>1
  <2> HIDE DEF blank
  <2> QED
    BY <1>8, <1>9, <2>1, <2>2 DEF DataOf
<1>11. DataLines(<<block>>) = <<message>>
  <2>1. [i \in DOMAIN <<block>> |-> DataOf(<<block>>[i])] = <<DataOf(block)>>
    OBVIOUS
  <2>2. <<message>> \in Seq(Seq(Byte))
    BY <1>1
  <2> DEFINE m == <<message>>
  <2>3. m \in Seq(Seq(Byte)) /\ DataOf(block) = m
    BY <1>10, <2>2
  <2> HIDE DEF m
  <2>4. FlattenSeq(<<m>>) = m
    BY ONLY <2>3, FlattenOne
  <2>5. DataLines(<<block>>) = m
    BY <2>1, <2>3, <2>4 DEF DataLines
  <2> QED
    BY <2>5 DEF m
<1>12. ExtractData(block) = message
  <2>1. ExtractData(block) = JoinLines(<<message>>)
    BY ONLY <1>7, <1>11 DEF ExtractData
  <2> QED
    BY <2>1, JoinOne
<1>13. SseEvent(e) = Unit(<<>>, <<message>>)
  <2>1. BlankLine(e) # {}
    BY <1>3
  <2>2. (4 + l) - 1 = 3 + l
    BY <1>2
  <2>3. SubSeq(e, 1, (4 + l) - 1) = block
    BY <2>2 DEF block
  <2>4. EventOf(message) = <<message>>
    BY <1>1 DEF EventOf
  <2>5. EventBefore(e, 4 + l) = Unit(<<>>, <<message>>)
    BY ONLY <1>5, <1>12, <2>3, <2>4 DEF EventBefore
  <2> QED
    BY ONLY <1>4, <2>1, <2>5 DEF SseEvent
<1>14. ASSUME NEW n \in 0..(Len(e) - 1) PROVE SseEvent(SubSeq(e, 1, n)) = <<>>
  <2> DEFINE p == SubSeq(e, 1, n)
  <2>1. n \in Nat /\ n <= 4 + l /\ \A i \in 1..n : i \in 1..Len(e)
    BY <1>2
  <2>2. \A i \in 1..n : e[i] \in Byte
    BY <1>2, <2>1, ElementOfSeq
  <2>3. Len(p) = n /\ \A i \in 1..n : p[i] = e[i]
    <3>1. CASE n = 0
      BY <3>1, <1>2, SubSeqEmpty
    <3>2. CASE n # 0
      BY <2>1, <2>2, <3>2, SubSeqProperties
    <3> QED
      BY <3>1, <3>2
  <2> HIDE DEF p
  <2>4. ASSUME NEW i \in BlankLine(p) PROVE FALSE
    <3>1. i \in 1..(n - 1) /\ p[i] = "\n"
      BY <2>3, <2>4 DEF BlankLine
    <3>2. i \in 1..n /\ i \in 1..(3 + l)
      BY ONLY <1>2, <2>1, <3>1
    <3> QED
      BY ONLY <1>2, <2>3, <3>1, <3>2
  <2>5. BlankLine(p) = {}
    BY <2>4
  <2> QED
    BY <2>5 DEF SseEvent, p
<1> QED
  BY <1>13, <1>14 DEF e

\* GrpcFrameDecoder: a frame alone is its message, and leaves nothing behind; and
\* of a frame that is not whole nothing comes out.
LEMMA FrameIsOne ==
    ASSUME NEW message \in Seq(0..255), Len(message) <= 255
    PROVE  /\ Framed(message) \in Seq(0..255) /\ Framed(message) # <<>>
           /\ GrpcFrame(Framed(message)) = Unit(<<>>, <<message>>)
           /\ \A n \in 0..(Len(Framed(message)) - 1) :
                 GrpcFrame(SubSeq(Framed(message), 1, n)) = <<>>
<1> DEFINE frame == Framed(message)
           head == <<0, 0, 0, 0, Len(message)>>
           Byte == 0..255
<1>1. Len(message) \in Byte
  <2> DEFINE l == Len(message)
  <2>1. l \in Nat /\ l <= 255
    BY LenProperties
  <2> HIDE DEF l
  <2>2. l \in 0..255
    BY ONLY <2>1
  <2> QED
    BY <2>2 DEF l
<1>2. head \in Seq(Byte) /\ Len(head) = 5
  BY <1>1
<1>3. frame = head \o message
  BY DEF Framed
<1> HIDE DEF frame
<1>4. head[2] = 0 /\ head[3] = 0 /\ head[4] = 0 /\ head[5] = Len(message)
  OBVIOUS
<1> HIDE DEF head, Byte
<1>5. /\ frame \in Seq(Byte) /\ Len(frame) = 5 + Len(message)
      /\ \A i \in 1..(5 + Len(message)) :
            frame[i] = IF i <= 5 THEN head[i] ELSE message[i - 5]
  <2>1. message \in Seq(Byte)
    BY DEF Byte
  <2>2. /\ head \o message \in Seq(Byte) /\ Len(head \o message) = Len(head) + Len(message)
        /\ \A i \in 1..(Len(head) + Len(message)) :
              (head \o message)[i] = IF i <= Len(head) THEN head[i] ELSE message[i - Len(head)]
    BY ONLY <1>2, <2>1, ConcatProperties, ZenonT(40)
  <2>3. head \o message = frame /\ Len(head) = 5
    BY <1>2, <1>3
  <2> QED
    BY ONLY <2>2, <2>3
<1>6. MessageLength(frame) = Len(message)
  <2>1. \A i \in 1..5 : frame[i] = head[i]
    <3>1. Len(message) \in Nat
      BY LenProperties
    <3>2. \A i \in 1..5 : i \in 1..(5 + Len(message)) /\ i <= 5
      BY ONLY <3>1
    <3> QED
      BY <1>5, <3>2
  <2>2. frame[2] = 0 /\ frame[3] = 0 /\ frame[4] = 0 /\ frame[5] = Len(message)
    BY <1>4, <2>1
  <2>3. Len(message) \in Nat
    BY LenProperties
  <2> QED
    BY ONLY <2>2, <2>3 DEF MessageLength
<1>7. SubSeq(frame, 6, 5 + Len(message)) = message
  <2> DEFINE l == SubSeq(frame, 6, 5 + Len(message))
  <2>1. Len(message) \in Nat
    BY LenProperties
  <2>2. \A i \in 6..(5 + Len(message)) : frame[i] \in Byte
    BY <1>5, <2>1, ElementOfSeq
  <2>3. /\ l \in Seq(Byte) /\ Len(l) = Len(message)
        /\ \A i \in 1..Len(message) : l[i] = frame[6 + i - 1]
    BY <2>1, <2>2, SubSeqProperties
  <2>4. ASSUME NEW i \in 1..Len(message) PROVE l[i] = message[i]
    <3>1. i + 5 \in 1..(5 + Len(message)) /\ ~(i + 5 <= 5) /\ (i + 5) - 5 = i /\ 6 + i - 1 = i + 5
      BY <2>1
    <3> QED
      BY <1>5, <2>3, <3>1
  <2> HIDE DEF l
  <2>5. l = message
    BY <2>3, <2>4, SeqEqual DEF Byte
  <2> QED
    BY <2>5 DEF l
<1>8. SubSeq(frame, 6 + Len(message), Len(frame)) = <<>>
  BY <1>1, <1>5, SubSeqEmpty DEF Byte
<1>9. GrpcFrame(frame) = Unit(<<>>, <<message>>)
  <2>1. ~(Len(frame) < 5 \/ Len(frame) < 5 + Len(message))
    BY <1>1, <1>5 DEF Byte
  <2> QED
    BY <1>6, <1>7, <1>8, <2>1 DEF GrpcFrame
<1>10. ASSUME NEW n \in 0..(Len(frame) - 1) PROVE GrpcFrame(SubSeq(frame, 1, n)) = <<>>
  <2> DEFINE p == SubSeq(frame, 1, n)
             l == Len(message)
  <2>1. l \in Nat
    BY LenProperties
  <2>2. n \in Nat /\ n < 5 + l /\ \A i \in 1..n : i \in 1..Len(frame)
    BY <1>5, <2>1
  <2>3. \A i \in 1..n : frame[i] \in Byte
    BY <1>5, <2>2, ElementOfSeq
  <2>4. Len(p) = n /\ \A i \in 1..n : p[i] = frame[i]
    <3>1. CASE n = 0
      BY <3>1, <1>5, SubSeqEmpty
    <3>2. CASE n # 0
      BY <2>2, <2>3, <3>2, SubSeqProperties
    <3> QED
      BY <3>1, <3>2
  <2> HIDE DEF p, l
  <2>5. CASE n < 5
    BY <2>4, <2>5 DEF GrpcFrame, p
  <2>6. CASE ~(n < 5)
    <3>1. \A i \in {2, 3, 4, 5} : i \in 1..n
      BY <2>2, <2>6
    <3>2. p[2] = frame[2] /\ p[3] = frame[3] /\ p[4] = frame[4] /\ p[5] = frame[5]
      BY <2>4, <3>1
    <3>3. MessageLength(p) = l
      BY ONLY <1>6, <3>2 DEF MessageLength, l
    <3>4. Len(p) < 5 + MessageLength(p)
      BY <2>2, <2>4, <3>3
    <3> QED
      BY <3>4 DEF GrpcFrame, p
  <2> QED
    BY <2>5, <2>6
<1>11. frame # <<>>
  <2>1. Len(message) \in Nat
    BY LenProperties
  <2>2. Len(frame) # 0
    BY <1>5, <2>1
  <2> QED
    BY <2>2
<1> QED
  BY <1>5, <1>9, <1>10, <1>11 DEF frame, Byte

\* What there is to send over each of the streams, and in which bytes.
Alphabet(kind, Byte) == IF kind = "grpc" THEN 0..255 ELSE Byte
Sendable(kind, Byte) ==
    IF kind = "grpc" THEN {m \in Seq(0..255) : Len(m) <= 255} ELSE JsonTexts(Byte)

\* GrpcFrameDecoder, SseEventParser: what one message is sent as, is one unit.
LEMMA PackedIsOne ==
    ASSUME NEW kind \in {"grpc", "http", "graphql"}, NEW Byte, EventBytes \subseteq Byte,
           NEW message \in Sendable(kind, Byte)
    PROVE  LET packed == Packed(kind, message)
           IN  /\ packed \in Seq(Alphabet(kind, Byte)) /\ packed # <<>>
               /\ message \in Seq(Alphabet(kind, Byte))
               /\ Next(kind, packed) = Unit(<<>>, <<message>>)
               /\ \A n \in 0..(Len(packed) - 1) : Next(kind, SubSeq(packed, 1, n)) = <<>>
<1>1. CASE kind = "grpc"
  <2>1. message \in Seq(0..255) /\ Len(message) <= 255
    BY <1>1 DEF Sendable
  <2>2. /\ Framed(message) \in Seq(0..255) /\ Framed(message) # <<>>
        /\ GrpcFrame(Framed(message)) = Unit(<<>>, <<message>>)
        /\ \A n \in 0..(Len(Framed(message)) - 1) :
              GrpcFrame(SubSeq(Framed(message), 1, n)) = <<>>
    BY ONLY <2>1, FrameIsOne
  <2> QED
    BY <1>1, <2>1, <2>2 DEF Packed, Next, Alphabet
<1>2. CASE kind # "grpc"
  <2>1. message \in JsonTexts(Byte)
    BY <1>2 DEF Sendable
  <2>2. message \in Seq(Byte)
    BY <2>1 DEF JsonTexts
  <2>3. Event(message) \in Seq(Byte) /\ Event(message) # <<>>
    <3>1. /\ Event(message) \in Seq(Byte) /\ Len(Event(message)) = 5 + Len(message)
          /\ Len(message) \in Nat
      BY <2>1, EventIsBytes
    <3>2. Len(Event(message)) # 0
      BY <3>1
    <3> QED
      BY <3>1, <3>2
  <2>4. /\ SseEvent(Event(message)) = Unit(<<>>, <<message>>)
        /\ \A n \in 0..(Len(Event(message)) - 1) : SseEvent(SubSeq(Event(message), 1, n)) = <<>>
    BY <2>1, EventIsOne
  <2> QED
    BY <1>2, <2>2, <2>3, <2>4 DEF Packed, Next, Alphabet
<1> QED
  BY <1>1, <1>2

\* decode(): given just that, a decoder with nothing left over yields the message.
LEMMA PackedAlone ==
    ASSUME NEW kind \in {"grpc", "http", "graphql"}, NEW Byte, EventBytes \subseteq Byte,
           NEW message \in Sendable(kind, Byte), NEW out \in Seq(Texts(Alphabet(kind, Byte)))
    PROVE  Decode(kind, [buffer |-> <<>>, out |-> out], Packed(kind, message)) =
               [buffer |-> <<>>, out |-> Append(out, message)]
<1> DEFINE A == Alphabet(kind, Byte)
           packed == Packed(kind, message)
           s == [buffer |-> packed, out |-> out]
           t == [buffer |-> <<>>, out |-> Append(out, message)]
<1>1. /\ packed \in Seq(A) /\ message \in Seq(A)
      /\ Next(kind, packed) = Unit(<<>>, <<message>>)
      /\ \A n \in 0..(Len(packed) - 1) : Next(kind, SubSeq(packed, 1, n)) = <<>>
      /\ packed # <<>>
  BY PackedIsOne
<1> HIDE DEF packed, A
<1>2. message \in Texts(A) /\ out \in Seq(Texts(A))
  BY <1>1 DEF Texts, A
<1>3. Append(out, message) \in Seq(Texts(A)) /\ out \o <<message>> = Append(out, message)
  BY ONLY <1>2, AppendIsConcat, AppendProperties
<1>4. s \in Decoders(A) /\ t \in Decoders(A) /\ Decodable(kind, A)
  <2>1. Decodable(kind, A)
    BY DEF Decodable, A, Alphabet
  <2>2. <<>> \in Seq(A)
    OBVIOUS
  <2> QED
    BY <1>1, <1>2, <1>3, <2>1, <2>2 DEF Decoders
<1>5. Turn(kind, s) = t
  <2>1. Next(kind, s.buffer) = <<[rest |-> <<>>, out |-> <<message>>]>>
    BY <1>1 DEF Unit
  <2>2. TakeUnit(s, <<[rest |-> <<>>, out |-> <<message>>]>>) =
            [buffer |-> <<>>, out |-> out \o <<message>>]
    BY ONLY s.out = out DEF TakeUnit
  <2> QED
    BY <1>3, <2>1, <2>2 DEF Turn
<1>6. Drain(kind, s) = Drain(kind, t)
  BY <1>4, <1>5, DrainAfterTurn
<1>7. Drain(kind, t) = t
  <2>1. PICK g \in Turns(kind, t, A) : Drain(kind, t) = g[Len(t.buffer)]
    BY <1>4, TurnsExist
  <2>2. Len(t.buffer) = 0
    OBVIOUS
  <2>3. g[0] = t
    BY DEF Turns
  <2> QED
    BY <2>1, <2>2, <2>3
<1>8. Decode(kind, [buffer |-> <<>>, out |-> out], packed) = Drain(kind, s)
  <2>1. <<>> \o packed = packed
    BY <1>1, ConcatEmptySeq
  <2> QED
    BY <2>1 DEF Decode
<1> QED
  BY <1>6, <1>7, <1>8 DEF packed

\* handle_sse_request(), gRPC: the messages sent, and the bytes of the one that
\* was cut short, if the connection broke off in one.
SentUnits(kind, messages, part) ==
    Append([i \in 1..Len(messages) |-> Packed(kind, messages[i])], part)

\* The items a stream yields of messages.
Items(kind, messages, fails) ==
    [i \in 1..Len(messages) |-> Parsed(kind, messages[i])] \o Failure(fails)

\* GrpcFrameDecoder, SseEventParser: cut wherever the network cuts them, the
\* bytes of messages, however many and long, come out as those messages, each
\* once and in order, and of a message that is not whole nothing comes out.
THEOREM MessagesArrive ==
    ASSUME NEW kind \in {"grpc", "http", "graphql"}, NEW Byte, EventBytes \subseteq Byte,
           NEW messages \in Seq(Sendable(kind, Byte)),
           NEW part \in Seq(Alphabet(kind, Byte)), Next(kind, part) = <<>>,
           NEW chunks \in Seq(Seq(Alphabet(kind, Byte))), NEW fails \in BOOLEAN,
           FlattenSeq(chunks) = FlattenSeq(SentUnits(kind, messages, part))
    PROVE  Stream(kind, chunks, fails) = Items(kind, messages, fails)
<1> DEFINE A == Alphabet(kind, Byte)
           D == Decoders(A)
           count == Len(messages)
           frames == SentUnits(kind, messages, part)
           first(n) == [i \in 1..n |-> messages[i]]
           St(n) == [buffer |-> <<>>, out |-> first(n)]
<1>1. count \in Nat /\ \A i \in 1..count : messages[i] \in Sendable(kind, Byte)
  BY ElementOfSeq, LenProperties
<1>2. \A i \in 1..count :
         Packed(kind, messages[i]) \in Seq(A) /\ messages[i] \in Seq(A)
  BY <1>1, PackedIsOne
<1>3. /\ frames \in Seq(Seq(A)) /\ Len(frames) = count + 1
      /\ \A i \in 1..count : frames[i] = Packed(kind, messages[i])
      /\ frames[count + 1] = part
  <2> DEFINE packed == [i \in 1..count |-> Packed(kind, messages[i])]
  <2>1. packed \in Seq(Seq(A)) /\ Len(packed) = count
    BY <1>1, <1>2
  <2>2. \A i \in 1..count : packed[i] = Packed(kind, messages[i])
    OBVIOUS
  <2>3. part \in Seq(A)
    OBVIOUS
  <2> HIDE DEF packed, A
  <2>4. /\ Append(packed, part) \in Seq(Seq(A)) /\ Len(Append(packed, part)) = count + 1
        /\ \A i \in 1..count : Append(packed, part)[i] = packed[i]
        /\ Append(packed, part)[count + 1] = part
    BY ONLY <2>1, <2>3, AppendProperties
  <2> QED
    BY <2>2, <2>4 DEF SentUnits, packed
<1>4. Decodable(kind, A)
  BY DEF Decodable, Alphabet
<1> HIDE DEF frames, D, A
<1>5. PICK run : Course(kind, frames, run)
  BY <1>3, <1>4, CourseExists
<1>6. \A n \in 0..count : first(n) \in Seq(Texts(A)) /\ St(n) \in D
  <2>1. ASSUME NEW n \in 0..count PROVE first(n) \in Seq(Texts(A))
    <3>1. \A i \in 1..n : messages[i] \in Texts(A)
      BY <1>1, <1>2 DEF Texts
    <3> QED
      BY <1>1, <3>1
  <2> QED
    BY <2>1 DEF D, Decoders
<1>7. ASSUME NEW n \in Nat, n + 1 \in 1..count, run[n] = St(n)
      PROVE  run[n + 1] = St(n + 1)
  <2> DEFINE m == messages[n + 1]
             was == first(n)
  <2>1. n \in 0..count /\ n + 1 \in 1..Len(frames)
    BY <1>1, <1>3, <1>7
  <2>2. run[n + 1] = Decode(kind, run[n], frames[n + 1])
    BY <1>5, <2>1 DEF Course
  <2>3. run[n + 1] = Decode(kind, [buffer |-> <<>>, out |-> was], Packed(kind, m))
    BY <1>3, <1>7, <2>2
  <2>4. m \in Sendable(kind, Byte) /\ was \in Seq(Texts(Alphabet(kind, Byte)))
    BY <1>1, <1>6, <1>7, <2>1 DEF A
  <2>5. Append(was, m) = first(n + 1)
    <3>1. Append(was, m) = [i \in 1..(n + 1) |-> IF i = n + 1 THEN m ELSE was[i]]
      BY <1>7
    <3> QED
      BY <3>1
  <2> HIDE DEF m, was
  <2>6. run[n + 1] = [buffer |-> <<>>, out |-> Append(was, m)]
    <3>1. Decode(kind, [buffer |-> <<>>, out |-> was], Packed(kind, m))
              = [buffer |-> <<>>, out |-> Append(was, m)]
      BY ONLY kind \in {"grpc", "http", "graphql"}, EventBytes \subseteq Byte, <2>4, PackedAlone, ZenonT(40)
    <3> QED
      BY ONLY <2>3, <3>1
  <2> QED
    BY <2>5, <2>6
<1>8. \A n \in 0..count : run[n] = St(n)
  <2> DEFINE Y == {n \in Nat : n \in 0..count => run[n] = St(n)}
  <2>1. 0 \in Y
    <3>1. first(0) = <<>>
      OBVIOUS
    <3> QED
      BY <1>5, <3>1 DEF Course, Fresh
  <2>2. ASSUME NEW n \in Nat, n \in Y PROVE n + 1 \in Y
    <3>1. SUFFICES ASSUME n + 1 \in 0..count PROVE run[n + 1] = St(n + 1)
      OBVIOUS
    <3>2. n + 1 \in 1..count /\ n \in 0..count
      BY <1>1, <3>1
    <3> QED
      BY <1>7, <2>2, <3>2
  <2> HIDE DEF Y
  <2>3. \A n \in Nat : n \in Y
    BY <2>1, <2>2, SetInduction
  <2> QED
    BY <2>3 DEF Y
<1>9. run[count + 1] = [buffer |-> part, out |-> first(count)]
  <2> DEFINE s == [buffer |-> part, out |-> first(count)]
  <2>1. count + 1 \in 1..Len(frames) /\ count \in 0..count /\ count \in Nat
    BY <1>1, <1>3
  <2>2. run[count + 1] = Decode(kind, St(count), part)
    BY <1>3, <1>5, <1>8, <2>1 DEF Course
  <2>3. <<>> \o part = part
    BY ConcatEmptySeq
  <2>4. run[count + 1] = Drain(kind, s)
    BY <2>2, <2>3 DEF Decode
  <2>5. s \in Decoders(A)
    <3>1. part \in Seq(A)
      BY DEF A
    <3>2. first(count) \in Seq(Texts(A))
      BY <1>6, <2>1
    <3> HIDE DEF first
    <3> QED
      BY <3>1, <3>2 DEF Decoders
  <2>6. s.buffer = part /\ Next(kind, part) = <<>>
    BY DEF Next
  <2> HIDE DEF s
  <2>7. PICK f \in Turns(kind, s, A) : TRUE
    BY ONLY <1>4, <2>5, TurnsExist
  <2>8. f[0] = s /\ 0 \in Nat
    BY <2>7 DEF Turns
  <2>9. Drain(kind, s) = f[0]
    <3>1. Next(kind, f[0].buffer) = <<>>
      BY <2>6, <2>8
    <3> QED
      BY ONLY <1>4, <2>5, <2>7, <2>8, <3>1, DrainIsTheEnd
  <2> QED
    BY <2>4, <2>8, <2>9 DEF s
<1>10. Drained(kind, frames) = first(count)
  BY <1>3, <1>5, <1>9 DEF Course
<1>11. Stream(kind, frames, fails) =
           [i \in 1..count |-> Parsed(kind, messages[i])] \o Failure(fails)
  <2>1. DOMAIN first(count) = 1..count /\ \A i \in 1..count : first(count)[i] = messages[i]
    OBVIOUS
  <2> HIDE DEF first
  <2>2. [i \in DOMAIN first(count) |-> Parsed(kind, first(count)[i])] =
            [i \in 1..count |-> Parsed(kind, messages[i])]
    BY <2>1
  <2>3. CASE kind = "grpc"
    BY <1>10, <2>2, <2>3 DEF Stream, GrpcStream, Parsed
  <2>4. CASE kind = "http"
    BY <1>10, <2>2, <2>4 DEF Stream, HttpStream, Parsed
  <2>5. CASE kind = "graphql"
    BY <1>10, <2>2, <2>5 DEF Stream, GraphqlStream, Parsed
  <2> QED
    BY <2>3, <2>4, <2>5
<1>12. Stream(kind, chunks, fails) = Stream(kind, <<FlattenSeq(chunks)>>, fails)
  BY <1>4, AnyChunks DEF SameAsWhole, A
<1>13. Stream(kind, frames, fails) = Stream(kind, <<FlattenSeq(frames)>>, fails)
  BY <1>3, <1>4, AnyChunks DEF SameAsWhole
<1> QED
  BY <1>11, <1>12, <1>13 DEF frames, Items

\* What is put together of one more part: all of the others, and that.
LEMMA FlattenAppend ==
    ASSUME NEW B, NEW ss \in Seq(Seq(B)), NEW x \in Seq(B)
    PROVE  FlattenSeq(Append(ss, x)) = FlattenSeq(ss) \o x
<1> DEFINE t == Append(ss, x)
           last == Len(ss)
<1>1. /\ t \in Seq(Seq(B)) /\ t # <<>> /\ Len(t) = last + 1 /\ t[last + 1] = x
      /\ last \in Nat /\ \A i \in 1..last : t[i] = ss[i]
  BY AppendProperties, LenProperties
<1> HIDE DEF t
<1>2. PICK g \in [1..Len(t) -> Seq(B)] :
         /\ g[1] = t[1] /\ \A n \in 1..(Len(t) - 1) : g[n + 1] = g[n] \o t[n + 1]
         /\ FlattenSeq(t) = g[Len(t)]
  BY <1>1, FlattenChunks
<1>3. CASE ss = <<>>
  <2>1. last = 0 /\ FlattenSeq(ss) = <<>>
    BY <1>3 DEF FlattenSeq
  <2>2. FlattenSeq(t) = x
    BY <1>1, <1>2, <2>1
  <2> QED
    BY <2>1, <2>2, ConcatEmptySeq DEF t
<1>4. CASE ss # <<>>
  <2>1. PICK f \in [1..last -> Seq(B)] :
           /\ f[1] = ss[1] /\ \A n \in 1..(last - 1) : f[n + 1] = f[n] \o ss[n + 1]
           /\ FlattenSeq(ss) = f[last]
    BY <1>4, FlattenChunks
  <2>2. last >= 1
    <3>1. last # 0
      BY <1>4, EmptySeq
    <3> QED
      BY <1>1, <3>1
  <2> DEFINE Y == {n \in Nat : n + 1 \in 1..last => f[n + 1] = g[n + 1]}
  <2>3. 0 \in Y
    BY <1>1, <1>2, <2>1, <2>2
  <2>4. ASSUME NEW n \in Nat, n \in Y PROVE n + 1 \in Y
    <3>1. SUFFICES ASSUME n + 2 \in 1..last PROVE f[n + 2] = g[n + 2]
      OBVIOUS
    <3>2. /\ n + 1 \in 1..last /\ n + 1 \in 1..(last - 1) /\ n + 1 \in 1..(Len(t) - 1)
          /\ (n + 1) + 1 = n + 2
      BY <1>1, <3>1
    <3>3. f[n + 1] = g[n + 1] /\ t[n + 2] = ss[n + 2]
      BY <1>1, <2>4, <3>1, <3>2
    <3> HIDE DEF Y, last
    <3> QED
      BY <1>2, <2>1, <3>2, <3>3
  <2>5. f[last] = g[last]
    <3> HIDE DEF Y
    <3>1. \A n \in Nat : n \in Y
      BY <2>3, <2>4, SetInduction
    <3>2. last - 1 \in Nat /\ (last - 1) + 1 = last /\ last \in 1..last
      BY <1>1, <2>2
    <3> QED
      BY <3>1, <3>2 DEF Y
  <2>6. last \in 1..(Len(t) - 1)
    BY <1>1, <2>2
  <2>7. g[last + 1] = g[last] \o t[last + 1]
    BY <1>2, <2>6
  <2> QED
    BY <1>1, <1>2, <2>1, <2>5, <2>7 DEF t
<1> QED
  BY <1>3, <1>4

\* A beginning that reaches into the second of two.
LEMMA SubSeqAcross ==
    ASSUME NEW B, NEW s \in Seq(B), NEW t \in Seq(B), NEW n \in 0..Len(t)
    PROVE  SubSeq(s \o t, 1, Len(s) + n) = s \o SubSeq(t, 1, n)
<1> DEFINE c == s \o t
           l == Len(s)
           p == SubSeq(t, 1, n)
           a == SubSeq(c, 1, l + n)
<1>1. l \in Nat /\ Len(t) \in Nat
  BY LenProperties
<1>2. /\ c \in Seq(B)
      /\ \A i \in 1..(l + Len(t)) : c[i] = IF i <= l THEN s[i] ELSE t[i - l]
      /\ Len(c) = l + Len(t)
  BY ConcatProperties
<1> HIDE DEF c
<1>3. p \in Seq(B) /\ Len(p) = n /\ \A i \in 1..n : p[i] = t[i]
  <2>1. \A i \in 1..n : t[i] \in B
    BY <1>1, ElementOfSeq
  <2>2. /\ p \in Seq(B) /\ Len(p) = IF 1 <= n THEN n - 1 + 1 ELSE 0
        /\ \A i \in 1..(n - 1 + 1) : p[i] = t[1 + i - 1]
    BY ONLY <1>1, <2>1, n \in 0..Len(t), SubSeqProperties
  <2> HIDE DEF p
  <2> QED
    BY <1>1, <2>2
<1>4. a \in Seq(B) /\ Len(a) = l + n /\ \A i \in 1..(l + n) : a[i] = c[i]
  <2>1. \A i \in 1..(l + n) : c[i] \in B
    BY <1>1, <1>2, ElementOfSeq
  <2>2. /\ a \in Seq(B) /\ Len(a) = IF 1 <= l + n THEN (l + n) - 1 + 1 ELSE 0
        /\ \A i \in 1..((l + n) - 1 + 1) : a[i] = c[1 + i - 1]
    BY ONLY <1>1, <2>1, n \in 0..Len(t), SubSeqProperties
  <2> HIDE DEF a
  <2> QED
    BY <1>1, <2>2
<1> HIDE DEF p, a
<1>5. /\ s \o p \in Seq(B) /\ Len(s \o p) = l + n
      /\ \A i \in 1..(l + n) : (s \o p)[i] = IF i <= l THEN s[i] ELSE p[i - l]
  BY <1>3, ConcatProperties
<1>6. ASSUME NEW i \in 1..(l + n) PROVE a[i] = (s \o p)[i]
  <2>1. i \in 1..(l + Len(t)) /\ (~(i <= l) => i - l \in 1..n)
    BY <1>1
  <2> QED
    BY <1>2, <1>3, <1>4, <1>5, <2>1
<1>7. a = s \o p
  BY ONLY <1>4, <1>5, <1>6, SeqEqual
<1> QED
  BY <1>7 DEF a, p, c, l

\* A set of naturals up to a bound has a greatest one.
LEMMA GreatestNatural ==
    ASSUME NEW bound \in Nat, NEW S, S \subseteq 0..bound, S # {}
    PROVE  \E n \in S : \A m \in S : m <= n
<1> DEFINE T == {bound - n : n \in S}
<1>1. \A n \in S : n \in Nat /\ n <= bound
  OBVIOUS
<1>2. T \subseteq Nat /\ T # {}
  <2>1. \A n \in S : bound - n \in Nat
    BY <1>1
  <2>2. PICK n \in S : TRUE
    OBVIOUS
  <2>3. bound - n \in T
    OBVIOUS
  <2> QED
    BY <2>1, <2>3
<1>3. PICK d \in T : \A e \in T : d <= e
  <2> HIDE DEF T
  <2> QED
    BY ONLY <1>2, LeastNatural
<1>4. PICK n \in S : d = bound - n
  BY <1>3
<1>5. ASSUME NEW m \in S PROVE m <= n
  <2>1. d <= bound - m
    BY <1>3
  <2>2. m \in Nat /\ n \in Nat
    BY <1>1
  <2> QED
    BY ONLY <1>4, <2>1, <2>2, bound \in Nat
<1> QED
  BY <1>5

\* What the first n of the messages are sent as.
SentOf(kind, messages, n) == [i \in 1..n |-> Packed(kind, messages[i])]
SentBytes(kind, messages, n) == FlattenSeq(SentOf(kind, messages, n))

\* Wire(): the bytes of one message follow those of the messages before it,
LEMMA OneMoreSent ==
    ASSUME NEW kind \in {"grpc", "http", "graphql"}, NEW Byte, EventBytes \subseteq Byte,
           NEW messages \in Seq(Sendable(kind, Byte)), NEW n \in 0..Len(messages)
    PROVE  /\ SentOf(kind, messages, n) \in Seq(Seq(Alphabet(kind, Byte)))
           /\ SentBytes(kind, messages, n) \in Seq(Alphabet(kind, Byte))
           /\ SentBytes(kind, messages, 0) = <<>>
           /\ Wire(kind, SubSeq(messages, 1, n)) = SentBytes(kind, messages, n)
           /\ n < Len(messages) =>
                 SentBytes(kind, messages, n + 1) =
                     SentBytes(kind, messages, n) \o Packed(kind, messages[n + 1])
<1> DEFINE A == Alphabet(kind, Byte)
           count == Len(messages)
           sent(k) == SentOf(kind, messages, k)
<1>1. count \in Nat /\ \A i \in 1..count : messages[i] \in Sendable(kind, Byte)
  BY ElementOfSeq, LenProperties
<1>2. \A i \in 1..count : Packed(kind, messages[i]) \in Seq(A)
  BY <1>1, PackedIsOne
<1>3. \A k \in 0..count : sent(k) \in Seq(Seq(A)) /\ Len(sent(k)) = k
  <2> TAKE k \in 0..count
  <2>1. k \in Nat /\ \A i \in 1..k : Packed(kind, messages[i]) \in Seq(A)
    BY <1>1, <1>2
  <2> HIDE DEF A
  <2> QED
    BY <2>1 DEF SentOf
<1> HIDE DEF A
<1>4. n \in 0..count /\ n \in Nat
  BY <1>1
<1>5. SentBytes(kind, messages, n) \in Seq(A)
  BY <1>3, FlattenHolds DEF SentBytes
<1>6. SentBytes(kind, messages, 0) = <<>>
  <2>1. sent(0) = <<>>
    BY DEF SentOf
  <2> QED
    BY <2>1 DEF SentBytes, FlattenSeq
<1>7. Wire(kind, SubSeq(messages, 1, n)) = SentBytes(kind, messages, n)
  <2> DEFINE front == SubSeq(messages, 1, n)
  <2>1. DOMAIN front = 1..n /\ \A i \in 1..n : front[i] = messages[i]
    <3>1. CASE n = 0
      BY <3>1, SubSeqEmpty
    <3>2. CASE n # 0
      <4>1. \A i \in 1..n : messages[i] \in Sendable(kind, Byte)
        BY <1>1, <1>4
      <4>2. 1 <= n
        BY <1>4, <3>2
      <4> DEFINE S == Sendable(kind, Byte)
      <4> HIDE DEF S
      <4>3. /\ front \in Seq(S) /\ Len(front) = n - 1 + 1
            /\ \A i \in 1..(n - 1 + 1) : front[i] = messages[1 + i - 1]
        BY <1>4, <4>1, <4>2, SubSeqProperties DEF S
      <4> HIDE DEF front
      <4> QED
        BY <1>4, <4>3, LenProperties
    <3> QED
      BY <3>1, <3>2
  <2> HIDE DEF front
  <2>2. [i \in DOMAIN front |-> Packed(kind, front[i])] = sent(n)
    BY <2>1 DEF SentOf
  <2> QED
    BY <2>2 DEF Wire, SentBytes, front
<1>8. ASSUME n < count
      PROVE  SentBytes(kind, messages, n + 1) =
                 SentBytes(kind, messages, n) \o Packed(kind, messages[n + 1])
  <2>1. n + 1 \in 0..count /\ n + 1 \in 1..count
    BY <1>1, <1>4, <1>8
  <2>2. /\ sent(n) \in Seq(Seq(A)) /\ Len(sent(n)) = n
        /\ sent(n + 1) \in Seq(Seq(A)) /\ Len(sent(n + 1)) = n + 1
    BY <1>3, <1>4, <2>1
  <2> DEFINE x == Packed(kind, messages[n + 1])
  <2>3. x \in Seq(A)
    BY <1>2, <2>1
  <2>4. /\ \A i \in 1..(n + 1) : sent(n + 1)[i] = Packed(kind, messages[i])
        /\ \A i \in 1..n : sent(n)[i] = Packed(kind, messages[i])
    BY DEF SentOf
  <2> HIDE DEF x, sent
  <2>5. /\ Append(sent(n), x) \in Seq(Seq(A)) /\ Len(Append(sent(n), x)) = n + 1
        /\ \A i \in 1..n : Append(sent(n), x)[i] = sent(n)[i]
        /\ Append(sent(n), x)[n + 1] = x
    BY ONLY <2>2, <2>3, AppendProperties
  <2>6. \A i \in 1..(n + 1) : sent(n + 1)[i] = Append(sent(n), x)[i]
    <3> TAKE i \in 1..(n + 1)
    <3>1. i \in 1..n \/ i = n + 1
      BY <1>4
    <3>2. sent(n + 1)[n + 1] = x
      BY <1>4, <2>4 DEF x
    <3> QED
      BY <2>4, <2>5, <3>1, <3>2
  <2>7. sent(n + 1) = Append(sent(n), x)
    BY ONLY <2>2, <2>5, <2>6, SeqEqual
  <2>8. FlattenSeq(Append(sent(n), x)) = FlattenSeq(sent(n)) \o x
    BY ONLY <2>2, <2>3, FlattenAppend
  <2> QED
    BY <2>7, <2>8 DEF SentBytes, x, sent
<1> QED
  BY <1>3, <1>4, <1>5, <1>6, <1>7, <1>8 DEF A

\* What follows the bytes of the first n.
SentAfter(kind, messages, n, A) ==
    {more \in Seq(A) : SentBytes(kind, messages, Len(messages)) =
                           SentBytes(kind, messages, n) \o more}

\* so that those of some of them are where those of all of them begin.
LEMMA SentFirst ==
    ASSUME NEW kind \in {"grpc", "http", "graphql"}, NEW Byte, EventBytes \subseteq Byte,
           NEW messages \in Seq(Sendable(kind, Byte)), NEW n \in 0..Len(messages)
    PROVE  SentAfter(kind, messages, n, Alphabet(kind, Byte)) # {}
<1> DEFINE A == Alphabet(kind, Byte)
           count == Len(messages)
           F(k) == SentBytes(kind, messages, k)
           Y == {d \in Nat : n + d <= count => \E more \in Seq(A) : F(n + d) = F(n) \o more}
<1>1. count \in Nat /\ n \in Nat /\ n <= count
  BY LenProperties
<1>2. \A k \in 0..count :
         /\ F(k) \in Seq(A)
         /\ k < count => F(k + 1) = F(k) \o Packed(kind, messages[k + 1])
  <2> TAKE k \in 0..count
  <2>1. /\ SentBytes(kind, messages, k) \in Seq(Alphabet(kind, Byte))
        /\ k < Len(messages) =>
              SentBytes(kind, messages, k + 1) =
                  SentBytes(kind, messages, k) \o Packed(kind, messages[k + 1])
    <3>1. k \in 0..Len(messages)
      OBVIOUS
    <3> QED
      BY ONLY kind \in {"grpc", "http", "graphql"}, EventBytes \subseteq Byte,
              messages \in Seq(Sendable(kind, Byte)), <3>1, OneMoreSent, ZenonT(60)
  <2> QED
    BY <2>1
<1>3. \A k \in 1..count : Packed(kind, messages[k]) \in Seq(A)
  <2> TAKE k \in 1..count
  <2>1. messages[k] \in Sendable(kind, Byte)
    BY ElementOfSeq
  <2> QED
    BY <2>1, PackedIsOne
<1> HIDE DEF A, F
<1>4. 0 \in Y
  <2>1. F(n) \in Seq(A) /\ <<>> \in Seq(A) /\ n + 0 = n
    BY <1>1, <1>2
  <2>2. F(n) = F(n) \o <<>>
    BY ONLY <2>1, ConcatEmptySeq
  <2> QED
    BY <2>1, <2>2
<1>5. ASSUME NEW d \in Nat, d \in Y PROVE d + 1 \in Y
  <2>1. SUFFICES ASSUME n + (d + 1) <= count
                 PROVE  \E more \in Seq(A) : F(n + (d + 1)) = F(n) \o more
    <3>1. d + 1 \in Nat
      OBVIOUS
    <3> DEFINE e == d + 1
    <3> HIDE DEF e, count
    <3> QED
      BY <2>1, <3>1, Zenon DEF e
  <2> DEFINE k == n + d
  <2>2. k \in 0..count /\ k < count /\ n + (d + 1) = k + 1 /\ k + 1 \in 1..count /\ k <= count
    BY <1>1, <2>1
  <2> HIDE DEF k
  <2>3. PICK more \in Seq(A) : F(k) = F(n) \o more
    <3>1. n + d <= count => \E r \in Seq(A) : F(n + d) = F(n) \o r
      BY <1>5
    <3>2. k = n + d
      BY DEF k
    <3> HIDE DEF Y, count
    <3> QED
      BY ONLY <2>2, <3>1, <3>2
  <2> DEFINE x == Packed(kind, messages[k + 1])
  <2>4. F(k + 1) = F(k) \o x /\ x \in Seq(A) /\ F(n) \in Seq(A)
    <3>1. x \in Seq(A)
      BY <1>3, <2>2
    <3>2. F(n) \in Seq(A)
      BY <1>2
    <3> QED
      BY <1>2, <2>2, <3>1, <3>2
  <2> HIDE DEF x, Y
  <2>5. more \o x \in Seq(A) /\ (F(n) \o more) \o x = F(n) \o (more \o x)
    <3>1. x \in Seq(A) /\ F(n) \in Seq(A)
      BY <2>4
    <3>2. more \o x \in Seq(A)
      BY ONLY <3>1, ConcatProperties
    <3>3. (F(n) \o more) \o x = F(n) \o (more \o x)
      BY ONLY <3>1, ConcatAssociative
    <3> QED
      BY <3>2, <3>3
  <2> QED
    BY <2>2, <2>3, <2>4, <2>5
<1>6. count - n \in Y
  <2> HIDE DEF Y
  <2>1. \A d \in Nat : d \in Y
    BY <1>4, <1>5, SetInduction
  <2> QED
    BY <1>1, <2>1
<1>7. n + (count - n) = count
  BY <1>1
<1>8. PICK more \in Seq(A) : F(count) = F(n) \o more
  BY <1>1, <1>6, <1>7
<1> QED
  BY <1>8 DEF SentAfter, A, F

\* What went out of the message after the first n.
Begun(kind, messages, n, broken, A) ==
    {part \in Seq(A) :
        /\ Next(kind, part) = <<>>
        /\ SubSeq(SentBytes(kind, messages, Len(messages)), 1, broken) =
               SentBytes(kind, messages, n) \o part}

\* What was sent of messages when the connection breaks off after some byte: the
\* messages that went out in full, and of the next one a beginning, no unit yet.
LEMMA BrokenOff ==
    ASSUME NEW kind \in {"grpc", "http", "graphql"}, NEW Byte, EventBytes \subseteq Byte,
           NEW messages \in Seq(Sendable(kind, Byte)),
           NEW broken \in 0..Len(SentBytes(kind, messages, Len(messages))),
           NEW last \in 0..Len(messages),
           Len(SentBytes(kind, messages, last)) <= broken,
           last < Len(messages) => ~(Len(SentBytes(kind, messages, last + 1)) <= broken)
    PROVE  Begun(kind, messages, last, broken, Alphabet(kind, Byte)) # {}
<1> DEFINE A == Alphabet(kind, Byte)
           count == Len(messages)
           F(k) == SentBytes(kind, messages, k)
           all == F(count)
<1>1. count \in Nat /\ last \in Nat /\ count \in 0..count
  BY LenProperties
<1>2. F(last) \in Seq(A) /\ all \in Seq(A)
  <2>1. F(last) \in Seq(A)
    BY OneMoreSent
  <2>2. all \in Seq(A)
    BY <1>1, OneMoreSent
  <2> QED
    BY <2>1, <2>2
<1> DEFINE whole == Len(F(last))
<1>3. whole \in Nat /\ Len(all) \in Nat /\ broken \in Nat /\ whole <= broken /\ broken <= Len(all)
  <2>1. whole \in Nat /\ Len(all) \in Nat
    BY <1>2, LenProperties
  <2> QED
    BY <2>1
<1>4. CASE last = count
  <2>1. Next(kind, <<>>) = <<>>
    <3>1. GrpcFrame(<<>>) = <<>>
      BY DEF GrpcFrame
    <3>2. BlankLine(<<>>) = {}
      BY DEF BlankLine
    <3>3. SseEvent(<<>>) = <<>>
      BY <3>2 DEF SseEvent
    <3> QED
      BY <3>1, <3>3 DEF Next
  <2>2. broken = Len(all) /\ all = F(last)
    BY <1>3, <1>4
  <2>3. SubSeq(all, 1, Len(all)) = all /\ all \o <<>> = all /\ <<>> \in Seq(A)
    <3> HIDE DEF A, all
    <3> QED
      BY <1>2, SubSeqFull, ConcatEmptySeq
  <2> HIDE DEF A, F, all
  <2> QED
    BY <2>1, <2>2, <2>3 DEF A, F, all, Begun
<1>5. CASE last < count
  <2> DEFINE x == Packed(kind, messages[last + 1])
             d == broken - whole
             part == SubSeq(x, 1, d)
  <2>1. last + 1 \in 0..count /\ last + 1 \in 1..count
    BY <1>1, <1>5
  <2>2. F(last + 1) = F(last) \o x
    <3>1. last < Len(messages)
      BY <1>5
    <3>2. last < Len(messages) =>
             SentBytes(kind, messages, last + 1) =
                 SentBytes(kind, messages, last) \o Packed(kind, messages[last + 1])
      BY ONLY kind \in {"grpc", "http", "graphql"}, EventBytes \subseteq Byte,
              messages \in Seq(Sendable(kind, Byte)), last \in 0..Len(messages),
              OneMoreSent, ZenonT(60)
    <3> QED
      BY <3>1, <3>2
  <2>3. messages[last + 1] \in Sendable(kind, Byte)
    BY <2>1, ElementOfSeq
  <2>4. x \in Seq(A) /\ \A n \in 0..(Len(x) - 1) : Next(kind, SubSeq(x, 1, n)) = <<>>
    BY <2>3, PackedIsOne
  <2>5. PICK more \in Seq(A) : all = F(last + 1) \o more
    <3> DEFINE next == last + 1
    <3>1. next \in 0..Len(messages)
      BY <2>1
    <3> HIDE DEF next
    <3>2. SentAfter(kind, messages, next, Alphabet(kind, Byte)) # {}
      BY ONLY kind \in {"grpc", "http", "graphql"}, EventBytes \subseteq Byte,
              messages \in Seq(Sendable(kind, Byte)), <3>1, SentFirst
    <3> QED
      BY <3>2 DEF SentAfter, next
  <2>6. ~(Len(F(last + 1)) <= broken)
    BY <1>5
  <2> HIDE DEF F, x, A, all, whole
  <2>7. Len(F(last + 1)) = whole + Len(x) /\ Len(x) \in Nat /\ F(last + 1) \in Seq(A)
    BY <1>2, <2>2, <2>4, ConcatProperties, LenProperties DEF whole
  <2>8. d \in 0..(Len(x) - 1) /\ d \in 0..Len(x) /\ whole + d = broken
        /\ broken \in 0..Len(F(last + 1))
    BY <1>3, <2>6, <2>7
  <2>9. SubSeq(all, 1, broken) = SubSeq(F(last + 1), 1, broken)
    BY <2>5, <2>7, <2>8, SubSeqFront
  <2>10. SubSeq(F(last) \o x, 1, Len(F(last)) + d) = F(last) \o SubSeq(x, 1, d)
    BY ONLY <1>2, <2>4, <2>8, SubSeqAcross
  <2>11. SubSeq(all, 1, broken) = F(last) \o part
    BY <2>2, <2>8, <2>9, <2>10 DEF whole
  <2>12. part \in Seq(A)
    <3>1. \A i \in 1..d : x[i] \in A
      BY <2>4, <2>7, <2>8, ElementOfSeq
    <3>2. d \in Int
      BY <2>8
    <3> HIDE DEF d
    <3> QED
      BY ONLY <3>1, <3>2, SubSeqProperties DEF part
  <2>13. Next(kind, part) = <<>>
    BY <2>4, <2>8
  <2> HIDE DEF part
  <2> QED
    BY <2>11, <2>12, <2>13 DEF F, A, all, Begun
<1>6. last = count \/ last < count
  BY <1>1
<1> QED
  BY <1>4, <1>5, <1>6

\* GrpcFrameDecoder, SseEventParser: the bytes of messages, however many and
\* long, cut wherever the network cuts them and broken off after any byte, come
\* out as the messages that went out in full, each once and in order, then the
\* connection's error.
THEOREM CutsAreHarmless ==
    ASSUME NEW kind \in {"grpc", "http", "graphql"}, NEW Byte, EventBytes \subseteq Byte,
           NEW messages \in Seq(Sendable(kind, Byte)),
           NEW broken \in 0..Len(Wire(kind, messages)),
           NEW chunks \in Seq(Seq(Alphabet(kind, Byte))), NEW fails \in BOOLEAN,
           FlattenSeq(chunks) = SubSeq(Wire(kind, messages), 1, broken)
    PROVE  CutsDoNotMatter(kind, messages, chunks, fails)
<1> DEFINE A == Alphabet(kind, Byte)
           count == Len(messages)
           F(k) == SentBytes(kind, messages, k)
           all == F(count)
           Wired(n) == Len(Wire(kind, SubSeq(messages, 1, n)))
           whole == {n \in 0..count : Wired(n) <= Len(FlattenSeq(chunks))}
           last == CHOOSE n \in whole : \A m \in whole : m <= n
           front == SubSeq(messages, 1, last)
<1>1. count \in Nat /\ count \in 0..count /\ 0 \in 0..count
  BY LenProperties
<1>2. \A n \in 0..count : F(n) \in Seq(A) /\ Wire(kind, SubSeq(messages, 1, n)) = F(n)
  <2> TAKE n \in 0..count
  <2>1. /\ SentBytes(kind, messages, n) \in Seq(Alphabet(kind, Byte))
        /\ Wire(kind, SubSeq(messages, 1, n)) = SentBytes(kind, messages, n)
    <3>1. n \in 0..Len(messages)
      OBVIOUS
    <3> QED
      BY ONLY kind \in {"grpc", "http", "graphql"}, EventBytes \subseteq Byte,
              messages \in Seq(Sendable(kind, Byte)), <3>1, OneMoreSent, ZenonT(60)
  <2> QED
    BY <2>1
<1>3. Wire(kind, messages) = all /\ F(0) = <<>>
  <2>1. SubSeq(messages, 1, count) = messages
    BY SubSeqFull
  <2>2. F(0) = <<>>
    BY <1>1, OneMoreSent
  <2> QED
    BY <1>1, <1>2, <2>1, <2>2
<1>4. broken \in 0..Len(all) /\ FlattenSeq(chunks) = SubSeq(all, 1, broken)
  BY <1>3
<1> HIDE DEF A, F, all
<1>5. Len(FlattenSeq(chunks)) = broken
  <2>1. all \in Seq(A) /\ Len(all) \in Nat
    BY <1>1, <1>2, LenProperties DEF all
  <2>2. broken \in Nat /\ \A i \in 1..broken : all[i] \in A
    BY <1>4, <2>1, ElementOfSeq
  <2>3. Len(SubSeq(all, 1, broken)) = IF 1 <= broken THEN broken - 1 + 1 ELSE 0
    BY ONLY <2>2, SubSeqProperties
  <2> QED
    BY <1>4, <2>2, <2>3
<1>6. whole = {n \in 0..count : Len(F(n)) <= broken}
  BY <1>2, <1>5
<1>7. /\ last \in 0..count /\ Len(F(last)) <= broken
      /\ last < count => ~(Len(F(last + 1)) <= broken)
  <2>1. 0 \in whole
    <3>1. Len(F(0)) = 0 /\ broken >= 0
      BY <1>3, <1>4
    <3> QED
      BY <1>1, <1>6, <3>1
  <2> HIDE DEF whole
  <2>2. whole \subseteq 0..count /\ whole # {}
    BY <1>6, <2>1
  <2>3. \E n \in whole : \A m \in whole : m <= n
    BY ONLY <1>1, <2>2, GreatestNatural
  <2>4. last \in whole /\ \A m \in whole : m <= last
    BY <2>3
  <2> HIDE DEF last
  <2>5. last \in 0..count /\ Len(F(last)) <= broken
    BY <1>6, <2>4
  <2>6. ASSUME last < count, Len(F(last + 1)) <= broken PROVE FALSE
    <3>1. last + 1 \in 0..count /\ ~(last + 1 <= last)
      BY <1>1, <2>5, <2>6
    <3>2. last + 1 \in whole
      BY <1>6, <2>6, <3>1
    <3> QED
      BY <2>4, <3>1, <3>2
  <2> QED
    BY <2>5, <2>6
<1> HIDE DEF last, whole
<1>8. PICK part \in Seq(A) : Next(kind, part) = <<>> /\ SubSeq(all, 1, broken) = F(last) \o part
  <2>1. /\ broken \in 0..Len(SentBytes(kind, messages, Len(messages)))
        /\ last \in 0..Len(messages) /\ Len(SentBytes(kind, messages, last)) <= broken
        /\ last < Len(messages) => ~(Len(SentBytes(kind, messages, last + 1)) <= broken)
    BY <1>4, <1>7 DEF F, all
  <2>2. Begun(kind, messages, last, broken, Alphabet(kind, Byte)) # {}
    BY ONLY kind \in {"grpc", "http", "graphql"}, EventBytes \subseteq Byte,
            messages \in Seq(Sendable(kind, Byte)), <2>1, BrokenOff
  <2> QED
    BY ONLY <2>2 DEF A, F, all, Begun
<1>9. /\ front \in Seq(Sendable(kind, Byte)) /\ Len(front) = last
      /\ \A i \in 1..last : front[i] = messages[i]
  <2> DEFINE S == Sendable(kind, Byte)
  <2>1. last \in Nat /\ \A i \in 1..last : messages[i] \in S
    BY <1>1, <1>7, ElementOfSeq
  <2> HIDE DEF S
  <2>2. /\ front \in Seq(S) /\ Len(front) = IF 1 <= last THEN last - 1 + 1 ELSE 0
        /\ \A i \in 1..(last - 1 + 1) : front[i] = messages[1 + i - 1]
    BY ONLY <2>1, SubSeqProperties DEF front
  <2> HIDE DEF front
  <2> QED
    BY <2>1, <2>2 DEF S
<1> HIDE DEF front
<1>10. SentUnits(kind, front, part) = Append(SentOf(kind, messages, last), part)
  <2>1. [i \in 1..last |-> Packed(kind, front[i])] = SentOf(kind, messages, last)
    BY <1>9 DEF SentOf
  <2> QED
    BY <1>9, <2>1 DEF SentUnits
<1>11. FlattenSeq(Append(SentOf(kind, messages, last), part)) = F(last) \o part
  <2>1. SentOf(kind, messages, last) \in Seq(Seq(A))
    BY <1>7, OneMoreSent DEF A
  <2> QED
    BY <2>1, FlattenAppend DEF F, SentBytes
<1>12. FlattenSeq(chunks) = FlattenSeq(SentUnits(kind, front, part))
  BY <1>4, <1>8, <1>10, <1>11
<1>13. Stream(kind, chunks, fails) = Items(kind, front, fails)
  <2>1. /\ part \in Seq(Alphabet(kind, Byte)) /\ Next(kind, part) = <<>>
        /\ chunks \in Seq(Seq(Alphabet(kind, Byte)))
    BY <1>8 DEF A
  <2>2. front \in Seq(Sendable(kind, Byte))
    BY <1>9
  <2> QED
    BY ONLY kind \in {"grpc", "http", "graphql"}, EventBytes \subseteq Byte, fails \in BOOLEAN,
            <1>12, <2>1, <2>2, MessagesArrive
<1>14. [i \in 1..Len(front) |-> Parsed(kind, front[i])] = [n \in 1..last |-> Parsed(kind, messages[n])]
  BY <1>9
<1>15. Stream(kind, chunks, fails) = [n \in 1..last |-> Parsed(kind, messages[n])] \o Failure(fails)
  BY <1>13, <1>14 DEF Items
<1> QED
  BY <1>15 DEF CutsDoNotMatter, last, whole

-----------------------------------------------------------------------------
(* The statements @postgres and @greptimedb fields send.                    *)

\* filter(): the statements' own is that of the batches.
LEMMA SqlOnly == \A s, S : Sql!Only(s, S) = Only(s, S)
  BY DEF Sql!Only, Only

\* render_filter(): the parameters of a filter are the values that are not null,
LEMMA ParamsKept ==
    ASSUME NEW B, NEW s \in Seq(B)
    PROVE  /\ Sql!Params(s) = Only(s, {e \in B : e.val # "null"})
           /\ Sql!Params(s) \in Seq(B)
           /\ ToSet(Sql!Params(s)) = {e \in ToSet(s) : e.val # "null"}
<1> DEFINE S == {e \in ToSet(s) : e.val # "null"}
           T == {e \in B : e.val # "null"}
<1>1. \A e \in ToSet(s) : e \in B
  BY ElementOfSeq DEF ToSet
<1>2. (\A e \in ToSet(s) : e \in S <=> e \in T) /\ ToSet(s) \cap S = S
  BY <1>1
<1>3. Sql!Params(s) = Only(s, S)
  BY SqlOnly DEF Sql!Params, Sql!ToSet, ToSet
<1>4. Only(s, S) = Only(s, T) /\ Only(s, S) \in Seq(B) /\ ToSet(Only(s, S)) = ToSet(s) \cap S
  <2> HIDE DEF S, T
  <2> QED
    BY <1>2, OnlySame, OnlyKeeps
<1> QED
  BY <1>2, <1>3, <1>4

\* and with one more entry, that one's too.
LEMMA ParamsAppend ==
    ASSUME NEW B, NEW s \in Seq(B), NEW x \in B
    PROVE  Sql!Params(Append(s, x)) =
               IF x.val = "null" THEN Sql!Params(s) ELSE Append(Sql!Params(s), x)
<1> DEFINE T == {e \in B : e.val # "null"}
<1>1. Append(s, x) \in Seq(B)
  BY AppendProperties
<1>2. Sql!Params(s) = Only(s, T) /\ Sql!Params(Append(s, x)) = Only(Append(s, x), T)
  BY <1>1, ParamsKept
<1>3. Only(Append(s, x), T) = IF x \in T THEN Append(Only(s, T), x) ELSE Only(s, T)
  <2> HIDE DEF T
  <2> QED
    BY OnlyAppend
<1> QED
  BY <1>2, <1>3

\* render_filter(): the clauses that have a parameter, one more of them.
LEMMA BoundAppend ==
    ASSUME NEW B, NEW s \in Seq(B), NEW x \in B
    PROVE  /\ Sql!Bound(s) \in Seq(B)
           /\ Sql!Bound(Append(s, x)) =
                 IF x.param = 0 THEN Sql!Bound(s) ELSE Append(Sql!Bound(s), x)
<1> DEFINE T == {e \in B : e.param # 0}
<1>1. ASSUME NEW t \in Seq(B) PROVE Sql!Bound(t) = Only(t, T)
  <2> DEFINE S == {e \in ToSet(t) : e.param # 0}
  <2>1. \A e \in ToSet(t) : e \in B
    BY ElementOfSeq DEF ToSet
  <2>2. Only(t, S) = Only(t, T)
    <3>1. \A e \in ToSet(t) : e \in S <=> e \in T
      BY <2>1
    <3> HIDE DEF S, T
    <3> QED
      BY <3>1, OnlySame
  <2> QED
    BY <2>2, SqlOnly DEF Sql!Bound, Sql!ToSet, ToSet
<1>2. Append(s, x) \in Seq(B)
  BY AppendProperties
<1>3. Only(Append(s, x), T) = IF x \in T THEN Append(Only(s, T), x) ELSE Only(s, T)
  <2> HIDE DEF T
  <2> QED
    BY OnlyAppend
<1>4. Only(s, T) \in Seq(B)
  <2> HIDE DEF T
  <2> QED
    BY OnlyKeeps
<1> QED
  BY <1>1, <1>2, <1>3, <1>4

\* A clause of a filter, at its placeholder.
Clause(x, param) == [col |-> x.col, param |-> param]
Clauses(B) == {Clause(x, p) : x \in B, p \in Nat}

\* render_filter(): one entry more is one clause more, and the others stay.
LEMMA WhereAppend ==
    ASSUME NEW B, NEW s \in Seq(B), NEW x \in B, NEW n \in Nat
    PROVE  /\ Sql!Where(s, n) \in Seq(Clauses(B)) /\ Len(Sql!Where(s, n)) = Len(s)
           /\ Sql!Where(Append(s, x), n) =
                 Append(Sql!Where(s, n),
                        Clause(x, IF x.val = "null" THEN 0 ELSE n + Len(Sql!Params(Append(s, x)))))
<1> DEFINE At(t, i) == Clause(t[i], IF t[i].val = "null" THEN 0
                                    ELSE n + Len(Sql!Params(SubSeq(t, 1, i))))
<1>1. ASSUME NEW t PROVE Sql!Where(t, n) = [i \in DOMAIN t |-> At(t, i)]
  BY DEF Sql!Where, Clause
<1>2. ASSUME NEW t \in Seq(B), NEW i \in 1..Len(t) PROVE At(t, i) \in Clauses(B)
  <2>1. SubSeq(t, 1, i) \in Seq(B)
    <3>1. Len(t) \in Nat /\ \A j \in 1..Len(t) : t[j] \in B
      BY LenProperties, ElementOfSeq
    <3>2. \A j \in 1..i : t[j] \in B
      BY <3>1
    <3> QED
      BY <3>2, SubSeqProperties
  <2>2. Sql!Params(SubSeq(t, 1, i)) \in Seq(B) /\ t[i] \in B
    BY <2>1, ParamsKept, ElementOfSeq
  <2>3. n + Len(Sql!Params(SubSeq(t, 1, i))) \in Nat
    BY <2>2, LenProperties
  <2> QED
    BY <2>2, <2>3 DEF Clauses
<1>3. ASSUME NEW t \in Seq(B)
      PROVE  Sql!Where(t, n) \in Seq(Clauses(B)) /\ Len(Sql!Where(t, n)) = Len(t)
  <2>1. DOMAIN t = 1..Len(t) /\ Len(t) \in Nat
    BY LenProperties
  <2> HIDE DEF At
  <2> QED
    BY <1>1, <1>2, <2>1
<1> DEFINE r == Append(s, x)
<1>4. /\ r \in Seq(B) /\ Len(r) = Len(s) + 1 /\ r[Len(s) + 1] = x
      /\ Len(s) \in Nat /\ \A i \in 1..Len(s) : r[i] = s[i]
  BY AppendProperties, LenProperties
<1> HIDE DEF r
<1>5. ASSUME NEW i \in 1..Len(s) PROVE SubSeq(r, 1, i) = SubSeq(s, 1, i)
  <2>1. \A j \in 1..i : j \in 1..Len(s)
    BY <1>4
  <2> QED
    BY <1>4, <2>1
<1>6. SubSeq(r, 1, Len(s) + 1) = r
  <2>1. r = [i \in 1..(Len(s) + 1) |-> r[i]]
    BY <1>4, LenProperties
  <2> QED
    BY <1>4, <2>1
<1>7. \A i \in 1..Len(s) : At(r, i) = At(s, i)
  BY <1>4, <1>5
<1>8. At(r, Len(s) + 1) = Clause(x, IF x.val = "null" THEN 0 ELSE n + Len(Sql!Params(r)))
  BY <1>4, <1>6
<1>9. Sql!Where(r, n) = Append(Sql!Where(s, n), At(r, Len(s) + 1))
  <2>1. /\ Sql!Where(r, n) = [i \in 1..(Len(s) + 1) |-> At(r, i)]
        /\ Sql!Where(s, n) = [i \in 1..Len(s) |-> At(s, i)]
    <3>1. DOMAIN r = 1..(Len(s) + 1) /\ DOMAIN s = 1..Len(s)
      BY <1>4, LenProperties
    <3> HIDE DEF At
    <3> QED
      BY <1>1, <3>1
  <2>2. Append(Sql!Where(s, n), At(r, Len(s) + 1)) =
            [i \in 1..(Len(s) + 1) |-> IF i = Len(s) + 1 THEN At(r, Len(s) + 1) ELSE At(s, i)]
    <3>1. /\ Sql!Where(s, n) \in Seq(Clauses(B)) /\ Len(Sql!Where(s, n)) = Len(s)
          /\ \A i \in 1..Len(s) : Sql!Where(s, n)[i] = At(s, i)
      BY <1>3, <2>1
    <3> HIDE DEF At
    <3> QED
      BY <1>4, <3>1
  <2>3. \A i \in 1..(Len(s) + 1) : At(r, i) = IF i = Len(s) + 1 THEN At(r, Len(s) + 1) ELSE At(s, i)
    <3> HIDE DEF At
    <3> QED
      BY <1>4, <1>7
  <2> HIDE DEF At
  <2> QED
    BY <2>1, <2>2, <2>3
<1> HIDE DEF At
<1> QED
  BY <1>3, <1>8, <1>9 DEF r

\* render_filter(): the columns a filter's clauses are about,
ColumnsOf(entries) == {e.col : e \in ToSet(entries)}

\* and the placeholders they use.
ParamsOf(clauses) == {w.param : w \in ToSet(clauses)} \ {0}

LEMMA WhereCounts ==
    ASSUME NEW B, NEW s \in Seq(B), NEW n \in Nat
    PROVE  /\ ParamsOf(Sql!Where(s, n)) = (n + 1)..(n + Len(Sql!Params(s)))
           /\ Len(Sql!Bound(Sql!Where(s, n))) = Len(Sql!Params(s))
           /\ ColumnsOf(Sql!Where(s, n)) = ColumnsOf(s)
<1> DEFINE W(t) == Sql!Where(t, n)
           P(t) == Sql!Params(t)
           C == Clauses(B)
           Y == {t \in Seq(B) : /\ ParamsOf(W(t)) = (n + 1)..(n + Len(P(t)))
                                /\ Len(Sql!Bound(W(t))) = Len(P(t))
                                /\ ColumnsOf(W(t)) = ColumnsOf(t)}
<1>1. <<>> \in Y
  <2>1. Sql!Params(<<>>) = <<>> /\ Sql!Bound(<<>>) = <<>>
    BY SqlOnly, OnlyEmpty DEF Sql!Params, Sql!Bound
  <2>2. DOMAIN <<>> = {} /\ <<>> \in Seq(B) /\ Len(<<>>) = 0
    BY EmptySeq
  <2>3. Sql!Where(<<>>, n) = <<>>
    BY <2>2 DEF Sql!Where
  <2>4. ToSet(<<>>) = {}
    BY <2>2 DEF ToSet
  <2>5. ParamsOf(<<>>) = {} /\ ColumnsOf(<<>>) = {}
    BY <2>4 DEF ParamsOf, ColumnsOf
  <2>6. (n + 1)..(n + 0) = {}
    OBVIOUS
  <2> QED
    BY <2>1, <2>2, <2>3, <2>5, <2>6
<1>2. ASSUME NEW t \in Seq(B), NEW x \in B, t \in Y PROVE Append(t, x) \in Y
  <2> DEFINE r == Append(t, x)
             c == Clause(x, IF x.val = "null" THEN 0 ELSE n + Len(P(r)))
  <2>1. r \in Seq(B) /\ ToSet(r) = ToSet(t) \cup {x}
    BY AppendToSet
  <2>2. W(t) \in Seq(C) /\ W(r) = Append(W(t), c)
    BY WhereAppend
  <2>3. P(t) \in Seq(B) /\ P(r) = IF x.val = "null" THEN P(t) ELSE Append(P(t), x)
    BY ParamsKept, ParamsAppend
  <2>4. Len(P(t)) \in Nat /\ Len(P(r)) = IF x.val = "null" THEN Len(P(t)) ELSE Len(P(t)) + 1
    BY <2>3, AppendProperties, LenProperties
  <2>5. c \in C /\ c.col = x.col /\ c.param = IF x.val = "null" THEN 0 ELSE n + Len(P(r))
    <3>1. (IF x.val = "null" THEN 0 ELSE n + Len(P(r))) \in Nat
      BY <2>4
    <3> QED
      BY <3>1 DEF Clauses, Clause
  <2> HIDE DEF c, r, W, P, C
  <2>6. ToSet(W(r)) = ToSet(W(t)) \cup {c}
    BY <2>2, <2>5, AppendToSet
  <2>7. Sql!Bound(W(t)) \in Seq(C)
        /\ Sql!Bound(W(r)) = IF c.param = 0 THEN Sql!Bound(W(t)) ELSE Append(Sql!Bound(W(t)), c)
    BY <2>2, <2>5, BoundAppend
  <2>8. /\ ParamsOf(W(t)) = (n + 1)..(n + Len(P(t)))
        /\ Len(Sql!Bound(W(t))) = Len(P(t))
        /\ ColumnsOf(W(t)) = ColumnsOf(t)
    BY <1>2
  <2>9. ColumnsOf(W(r)) = ColumnsOf(r)
    BY <2>1, <2>5, <2>6, <2>8 DEF ColumnsOf
  <2>10. ParamsOf(W(r)) = ParamsOf(W(t)) \cup ({c.param} \ {0})
    BY <2>6 DEF ParamsOf
  <2>11. ParamsOf(W(r)) = (n + 1)..(n + Len(P(r)))
    <3>1. CASE x.val = "null"
      BY <2>4, <2>5, <2>8, <2>10, <3>1
    <3>2. CASE x.val # "null"
      <4>1. c.param = n + Len(P(t)) + 1 /\ c.param # 0
        BY <2>4, <2>5, <3>2
      <4>2. (n + 1)..(n + (Len(P(t)) + 1)) = (n + 1)..(n + Len(P(t))) \cup {n + Len(P(t)) + 1}
        BY <2>4
      <4> QED
        BY <2>4, <2>8, <2>10, <3>2, <4>1, <4>2
    <3> QED
      BY <3>1, <3>2
  <2>12. Len(Sql!Bound(W(r))) = Len(P(r))
    <3>1. CASE x.val = "null"
      BY <2>4, <2>5, <2>7, <2>8, <3>1
    <3>2. CASE x.val # "null"
      <4>1. c.param # 0
        BY <2>4, <2>5, <3>2
      <4>2. Len(Append(Sql!Bound(W(t)), c)) = Len(Sql!Bound(W(t))) + 1
        BY <2>5, <2>7, AppendProperties
      <4> QED
        BY <2>4, <2>7, <2>8, <3>2, <4>1, <4>2
    <3> QED
      BY <3>1, <3>2
  <2> QED
    BY <2>1, <2>9, <2>11, <2>12 DEF r
<1> HIDE DEF Y
<1>3. \A t \in Seq(B) : t \in Y
  BY <1>1, <1>2, SeqInduction
<1> QED
  BY <1>3 DEF Y

\* render(): a statement sends k values it sets, then those of its filter, then
\* m others, each under the placeholder of its place;
Sends(q, F, k, m) ==
    /\ q.where = Sql!Where(F, k)
    /\ DOMAIN q.set = 1..k /\ Len(q.set) = k /\ \A i \in 1..k : q.set[i].param = i
    /\ DOMAIN q.tail = 1..m /\ Len(q.tail) = m
    /\ \A i \in 1..m : q.tail[i] = k + Len(Sql!Params(F)) + i
    /\ Len(q.params) = k + Len(Sql!Params(F)) + m
    /\ DOMAIN q.params = 1..Len(q.params)
    /\ \A i \in 1..Len(q.params) : k < i => q.params[i] # "null"

\* so that each of its placeholders has one, and only what it sets may be null.
Placed(q) ==
    /\ Sql!Used(q) \ {0} = 1..Len(q.params)
    /\ Len(Sql!Bound(q.where)) + Len(q.set) + Len(q.tail) = Len(q.params)
    /\ \A i \in DOMAIN q.params :
          q.params[i] = "null" => \E s \in Sql!ToSet(q.set) : s.param = i

\* render(): what is sent is placed, whatever the entries.
LEMMA EachInItsPlace ==
    ASSUME NEW B, NEW F \in Seq(B), NEW k \in Nat, NEW m \in Nat, NEW q, Sends(q, F, k, m)
    PROVE  Placed(q)
<1>0. /\ q.where = Sql!Where(F, k)
      /\ DOMAIN q.set = 1..k /\ Len(q.set) = k /\ \A i \in 1..k : q.set[i].param = i
      /\ DOMAIN q.tail = 1..m /\ Len(q.tail) = m
      /\ \A i \in 1..m : q.tail[i] = k + Len(Sql!Params(F)) + i
      /\ Len(q.params) = k + Len(Sql!Params(F)) + m
      /\ DOMAIN q.params = 1..Len(q.params)
      /\ \A i \in 1..Len(q.params) : k < i => q.params[i] # "null"
  BY DEF Sends
<1> DEFINE l == Len(Sql!Params(F))
<1>1. l \in Nat
  BY ParamsKept, LenProperties
<1>2. /\ ParamsOf(q.where) = (k + 1)..(k + l)
      /\ Len(Sql!Bound(q.where)) = l
  BY <1>0, WhereCounts
<1> HIDE DEF l
<1>3. {q.where[i].param : i \in DOMAIN q.where} \ {0} = ParamsOf(q.where)
  BY DEF ParamsOf, ToSet
<1>4. \A p : p \in {q.set[i].param : i \in DOMAIN q.set} <=> p \in 1..k
  <2>1. ASSUME NEW p \in 1..k PROVE p \in {q.set[i].param : i \in DOMAIN q.set}
    <3>1. p \in DOMAIN q.set /\ q.set[p].param = p
      BY <1>0
    <3> QED
      BY ONLY <3>1
  <2>2. ASSUME NEW i \in DOMAIN q.set PROVE q.set[i].param \in 1..k
    BY <1>0
  <2> QED
    BY ONLY <2>1, <2>2
<1>5. \A p : p \in Sql!ToSet(q.tail) <=> p \in (k + l + 1)..(k + l + m)
  <2>1. ASSUME NEW p \in (k + l + 1)..(k + l + m)
        PROVE  p \in Sql!ToSet(q.tail)
    <3>1. p - (k + l) \in 1..m
      BY <1>1
    <3>2. q.tail[p - (k + l)] = k + l + (p - (k + l))
      BY <1>0, <3>1 DEF l
    <3>3. p - (k + l) \in DOMAIN q.tail /\ q.tail[p - (k + l)] = p
      BY <1>0, <1>1, <3>1, <3>2
    <3> QED
      BY ONLY <3>3 DEF Sql!ToSet
  <2>2. ASSUME NEW i \in DOMAIN q.tail PROVE q.tail[i] \in (k + l + 1)..(k + l + m)
    <3>1. i \in 1..m /\ q.tail[i] = k + l + i
      BY <1>0 DEF l
    <3> QED
      BY <1>1, <3>1
  <2> QED
    BY ONLY <2>1, <2>2 DEF Sql!ToSet
<1>6. Sql!Used(q) \ {0} = 1..(k + l + m)
  <2>1. \A p : p \in Sql!Used(q) \ {0} <=>
               /\ p # 0
               /\ p \in (k + 1)..(k + l) \/ p \in 1..k \/ p \in (k + l + 1)..(k + l + m)
    BY <1>2, <1>3, <1>4, <1>5 DEF Sql!Used
  <2>2. \A p : p \in 1..(k + l + m) <=>
               /\ p # 0
               /\ p \in (k + 1)..(k + l) \/ p \in 1..k \/ p \in (k + l + 1)..(k + l + m)
    BY <1>1
  <2> QED
    BY ONLY <2>1, <2>2
<1>7. Len(q.params) = k + l + m
  BY <1>0 DEF l
<1>8. ASSUME NEW i \in 1..Len(q.params), q.params[i] = "null"
      PROVE  \E s \in Sql!ToSet(q.set) : s.param = i
  <2>1. i \in 1..k
    BY <1>0, <1>1, <1>7, <1>8
  <2>2. i \in DOMAIN q.set /\ q.set[i].param = i
    BY <1>0, <2>1
  <2> QED
    BY ONLY <2>2 DEF Sql!ToSet
<1> QED
  BY <1>0, <1>1, <1>2, <1>6, <1>7, <1>8 DEF Placed

\* resolve_column_name(): of just one candidate there is one.
LEMMA JustOne == \A S : Sql!Cardinality(S) = 1 => S # {}
<1>1. \A S : Sql!Cardinality(S) = Cardinality(S)
  BY DEF Sql!Cardinality, Cardinality
<1> QED
  BY <1>1, FS_EmptySet

\* resolve_columns(): what an object's keys come to are columns, if any are known.
LEMMA ResolvedColumns ==
    ASSUME NEW Pair, NEW o \in Seq(Pair), NEW cols, NEW arg, Sql!Resolves(cols, o)
    PROVE  LET F == Sql!Resolved(cols, o, arg)
           IN  /\ F \in Seq(ToSet(F)) /\ Len(F) = Len(o)
               /\ cols # <<>> => ColumnsOf(F) \subseteq ToSet(cols)
<1> DEFINE F == Sql!Resolved(cols, o, arg)
           Of(i) == CHOOSE c \in Sql!Candidates(cols, o[i][1]) : TRUE
<1>1. DOMAIN o = 1..Len(o) /\ Len(o) \in Nat
  BY LenProperties
<1>2. F = [i \in 1..Len(o) |-> [col |-> Of(i), val |-> Sql!Value(o[i][2], arg)]]
  BY <1>1 DEF Sql!Resolved
<1>3. F \in Seq(ToSet(F)) /\ Len(F) = Len(o)
  <2> DEFINE At(i) == [col |-> Of(i), val |-> Sql!Value(o[i][2], arg)]
  <2>1. F = [i \in 1..Len(o) |-> At(i)]
    BY <1>2
  <2> HIDE DEF F, At
  <2>2. \A i \in 1..Len(o) : F[i] \in ToSet(F)
    BY <2>1 DEF ToSet
  <2> QED
    BY <1>1, <2>1, <2>2
<1>4. ASSUME cols # <<>>, NEW i \in 1..Len(o) PROVE Of(i) \in ToSet(cols)
  <2> DEFINE C == Sql!Candidates(cols, o[i][1])
  <2>1. Sql!Cardinality(C) = 1
    BY <1>1 DEF Sql!Resolves
  <2>2. C # {}
    BY <2>1, JustOne
  <2>3. C \subseteq ToSet(cols)
    BY <1>4 DEF Sql!Candidates, Sql!ToSet, ToSet
  <2> HIDE DEF C
  <2>4. (CHOOSE c \in C : TRUE) \in C
    BY <2>2
  <2> QED
    BY <2>3, <2>4 DEF C
<1>5. cols # <<>> => ColumnsOf(F) \subseteq ToSet(cols)
  <2> HIDE DEF Of
  <2>1. \A i \in 1..Len(o) : F[i].col = Of(i)
    BY <1>2
  <2>2. DOMAIN F = 1..Len(o)
    BY <1>2
  <2> HIDE DEF F
  <2> QED
    BY <1>4, <2>1, <2>2 DEF ColumnsOf, ToSet
<1> QED
  BY <1>3, <1>5

\* sanitize_order_by(): what a statement orders by are columns.
LEMMA OrderedByColumns ==
    ASSUME NEW Name, NEW t, t.order \in Seq([col : Name, dir : Name])
    PROVE  \A o \in ToSet(Sql!OrderBy(t)) : o.col \in ToSet(t.columns)
<1> DEFINE B == [col : Name, dir : Name]
           S == {o \in ToSet(t.order) :
                                /\ Sql!Cardinality(Sql!Candidates(t.columns, o.col)) = 1
                                /\ o.dir \in {"", "ASC", "DESC"}}
           known == Only(t.order, S)
           Of(i) == CHOOSE c \in Sql!Candidates(t.columns, known[i].col) : TRUE
<1>1. CASE t.columns = <<>>
  <2>1. DOMAIN <<>> = {}
    BY EmptySeq
  <2> QED
    BY <1>1, <2>1 DEF Sql!OrderBy, ToSet
<1>2. CASE t.columns # <<>>
  <2>1. known \in Seq(B) /\ ToSet(known) = ToSet(t.order) \cap S
    <3> HIDE DEF S, B
    <3>1. t.order \in Seq(B)
      BY DEF B
    <3> QED
      BY <3>1, OnlyKeeps
  <2>2. Sql!OrderBy(t) = [i \in DOMAIN known |-> [known[i] EXCEPT !.col = Of(i)]]
    <3> DEFINE S2 == {o \in Sql!ToSet(t.order) :
                         /\ Sql!Cardinality(Sql!Candidates(t.columns, o.col)) = 1
                         /\ o.dir \in {"", "ASC", "DESC"}}
               Renamed(K) == [i \in DOMAIN K |->
                   [K[i] EXCEPT !.col = CHOOSE c \in Sql!Candidates(t.columns, K[i].col) : TRUE]]
    <3>1. Sql!OrderBy(t) = Renamed(Sql!Only(t.order, S2))
      BY ONLY <1>2 DEF Sql!OrderBy
    <3>2. S2 = S
      BY DEF ToSet, Sql!ToSet
    <3>3. Sql!Only(t.order, S) = known
      BY SqlOnly
    <3>4. Sql!OrderBy(t) = Renamed(known)
      <4> HIDE DEF S2, S, Renamed, known
      <4> QED
        BY <3>1, <3>2, <3>3
    <3> QED
      BY <3>4
  <2>3. ASSUME NEW i \in DOMAIN known
        PROVE  known[i] \in B /\ Of(i) \in ToSet(t.columns)
    <3> DEFINE C == Sql!Candidates(t.columns, known[i].col)
    <3>1. known[i] \in S /\ known[i] \in B
      <4>1. known[i] \in ToSet(known)
        BY DEF ToSet
      <4>2. \A o \in ToSet(t.order) : o \in B
        <5> HIDE DEF B
        <5>1. t.order \in Seq(B)
          BY DEF B
        <5>2. DOMAIN t.order = 1..Len(t.order)
          BY <5>1, LenProperties
        <5> QED
          BY ONLY <5>1, <5>2, ElementOfSeq DEF ToSet
      <4> HIDE DEF known, B, S
      <4> QED
        BY <2>1, <4>1, <4>2
    <3>2. Sql!Cardinality(C) = 1
      BY <3>1
    <3>3. C # {}
      BY <3>2, JustOne
    <3>4. C \subseteq ToSet(t.columns)
      BY <1>2 DEF Sql!Candidates, Sql!ToSet, ToSet
    <3> HIDE DEF C
    <3>5. (CHOOSE c \in C : TRUE) \in C
      BY <3>3
    <3> QED
      BY <3>1, <3>4, <3>5 DEF C
  <2> HIDE DEF known, Of
  <2>4. \A i \in DOMAIN known : [known[i] EXCEPT !.col = Of(i)].col \in ToSet(t.columns)
    BY <2>3
  <2>5. /\ DOMAIN Sql!OrderBy(t) = DOMAIN known
        /\ \A i \in DOMAIN known : Sql!OrderBy(t)[i].col \in ToSet(t.columns)
    BY <2>2, <2>4
  <2> QED
    BY ONLY <2>5 DEF ToSet
<1> QED
  BY <1>1, <1>2

\* Something optional is a sequence of at most one element.
Optional(S) == {<<>>} \cup {<<x>> : x \in S}

\* render_filter(), render_insert(): the values sent, in the order of their entries.
LEMMA ValuesInOrder ==
    ASSUME NEW B, NEW s \in Seq(B)
    PROVE  /\ Sql!Values(s) \in Seq({e.val : e \in B}) /\ Len(Sql!Values(s)) = Len(s)
           /\ \A i \in 1..Len(s) : Sql!Values(s)[i] = s[i].val
<1>1. /\ DOMAIN s = 1..Len(s) /\ Len(s) \in Nat
      /\ \A i \in 1..Len(s) : s[i] \in B
  BY LenProperties, ElementOfSeq
<1>2. Sql!Values(s) = [i \in 1..Len(s) |-> s[i].val]
  BY <1>1 DEF Sql!Values
<1> QED
  BY <1>1, <1>2

\* render_filter(): the values a filter sends are not null.
LEMMA ParamsAreValues ==
    ASSUME NEW B, NEW s \in Seq(B)
    PROVE  LET v == Sql!Values(Sql!Params(s))
           IN  /\ v \in Seq({e.val : e \in B}) /\ Len(v) = Len(Sql!Params(s))
               /\ \A i \in 1..Len(v) : v[i] # "null"
<1> DEFINE p == Sql!Params(s)
<1>1. p \in Seq(B) /\ ToSet(p) = {e \in ToSet(s) : e.val # "null"}
  BY ParamsKept
<1>2. \A i \in 1..Len(p) : p[i].val # "null"
  <2>1. DOMAIN p = 1..Len(p)
    BY <1>1, LenProperties
  <2>2. \A i \in 1..Len(p) : p[i] \in ToSet(p)
    BY <2>1 DEF ToSet
  <2> HIDE DEF p
  <2> QED
    BY <1>1, <2>2
<1>3. /\ Sql!Values(p) \in Seq({e.val : e \in B}) /\ Len(Sql!Values(p)) = Len(p)
      /\ \A i \in 1..Len(p) : Sql!Values(p)[i] = p[i].val
  BY <1>1, ValuesInOrder
<1> QED
  BY <1>2, <1>3

\* render_select(): LIMIT and OFFSET are sent no null either.
LEMMA PagingIsText ==
    ASSUME NEW V, NEW given \in Seq(V), NEW arg
    PROVE  LET p == Sql!Paging(given, arg)
           IN  \E T : p \in Seq(T) /\ "null" \notin T
<1> DEFINE T == {Sql!Text(v, arg) : v \in V}
           texts == [i \in DOMAIN given |-> Sql!Text(given[i], arg)]
<1>1. texts \in Seq(T)
  <2>1. /\ DOMAIN given = 1..Len(given) /\ Len(given) \in Nat
        /\ \A i \in 1..Len(given) : given[i] \in V
    BY LenProperties, ElementOfSeq
  <2> QED
    BY <2>1
<1>2. "null" \notin T
  <2>1. ASSUME NEW v PROVE Sql!Text(v, arg) # "null"
    BY DEF Sql!Text
  <2> QED
    BY <2>1
<1>3. Sql!Paging(given, arg) = Only(texts, ToSet(texts) \ {""})
  <2>1. Sql!ToSet(texts) = ToSet(texts)
    BY DEF Sql!ToSet, ToSet
  <2>2. Sql!Paging(given, arg) = Sql!Only(texts, Sql!ToSet(texts) \ {""})
    BY DEF Sql!Paging
  <2> HIDE DEF texts
  <2> QED
    BY <2>1, <2>2, SqlOnly
<1>4. Only(texts, ToSet(texts) \ {""}) \in Seq(T)
  <2> HIDE DEF T, texts
  <2> QED
    BY <1>1, OnlyKeeps
<1> QED
  BY <1>2, <1>3, <1>4

\* render_select(), render_select_one().
LEMMA SelectPlaced ==
    ASSUME NEW B, NEW F \in Seq(B), NEW t, NEW V, NEW arg,
           t.limit \in Seq(V), t.offset \in Seq(V),
           NEW q, q = Sql!RenderSelect(t, F, arg)[1]
    PROVE  Placed(q)
<1> DEFINE p == Sql!Params(F)
           paging == IF t.op = "SelectOne" THEN <<>> ELSE Sql!Paging(t.limit \o t.offset, arg)
           tail == [i \in DOMAIN paging |-> Len(p) + i]
           params == Sql!Values(p) \o paging
<1>1. q = [verb |-> t.op, table |-> t.table, where |-> Sql!Where(F, 0), set |-> <<>>,
           order |-> IF t.op = "Select" THEN Sql!OrderBy(t) ELSE <<>>, tail |-> tail,
           returning |-> Sql!Selected(t), params |-> params]
  BY DEF Sql!RenderSelect, Sql!Sql
<1>2. PICK T : paging \in Seq(T) /\ "null" \notin T
  <2>1. t.limit \o t.offset \in Seq(V)
    BY ConcatProperties
  <2>2. PICK T : Sql!Paging(t.limit \o t.offset, arg) \in Seq(T) /\ "null" \notin T
    BY <2>1, PagingIsText
  <2> QED
    BY <2>2
<1> HIDE DEF paging, p
<1>3. /\ DOMAIN paging = 1..Len(paging) /\ Len(paging) \in Nat
      /\ \A i \in 1..Len(paging) : paging[i] # "null"
  BY <1>2, LenProperties, ElementOfSeq
<1>4. /\ Sql!Values(p) \in Seq({e.val : e \in B}) /\ Len(Sql!Values(p)) = Len(p)
      /\ \A i \in 1..Len(p) : Sql!Values(p)[i] # "null"
  BY ParamsAreValues DEF p
<1>5. Len(p) \in Nat
  BY <1>4, LenProperties
<1>6. /\ Len(params) = Len(p) + Len(paging) /\ DOMAIN params = 1..Len(params)
      /\ \A i \in 1..Len(params) : params[i] # "null"
  <2> DEFINE S == {e.val : e \in B} \cup T
             v == Sql!Values(p)
  <2>1. v \in Seq(S) /\ paging \in Seq(S)
    BY <1>2, <1>4
  <2> HIDE DEF S, v
  <2>2. /\ v \o paging \in Seq(S) /\ Len(v \o paging) = Len(v) + Len(paging)
        /\ \A i \in 1..(Len(v) + Len(paging)) :
              (v \o paging)[i] = IF i <= Len(v) THEN v[i] ELSE paging[i - Len(v)]
    BY <2>1, ConcatProperties
  <2>3. DOMAIN (v \o paging) = 1..Len(v \o paging)
    BY <2>2, LenProperties
  <2>4. Len(v) = Len(p) /\ \A i \in 1..Len(p) : v[i] # "null"
    BY <1>4 DEF v
  <2>5. ASSUME NEW i \in 1..(Len(v) + Len(paging)) PROVE (v \o paging)[i] # "null"
    <3>1. i <= Len(v) => i \in 1..Len(v)
      BY <1>5, <2>4
    <3>2. ~(i <= Len(v)) => i - Len(v) \in 1..Len(paging)
      BY <1>3, <1>5, <2>4
    <3> QED
      BY <1>3, <2>2, <2>4, <3>1, <3>2
  <2> QED
    BY <2>2, <2>3, <2>4, <2>5 DEF v
<1>7. DOMAIN tail = 1..Len(paging) /\ Len(tail) = Len(paging)
      /\ \A i \in 1..Len(paging) : tail[i] = 0 + Len(p) + i
  BY <1>3, <1>5
<1> HIDE DEF tail, params
<1>8. q.where = Sql!Where(F, 0) /\ q.set = <<>> /\ q.tail = tail /\ q.params = params
  BY <1>1
<1>9. DOMAIN <<>> = 1..0 /\ Len(<<>>) = 0
  BY EmptySeq
<1>10. Placed(q)
  <2>1. Sends(q, F, 0, Len(paging))
    BY <1>3, <1>5, <1>6, <1>7, <1>8, <1>9 DEF Sends, p
  <2> QED
    BY <1>3, <2>1, EachInItsPlace
<1> QED
  BY <1>10

\* render_insert(), render_update(): an object's entries, each under its number.
Numbered(entries) == [i \in DOMAIN entries |-> [col |-> entries[i].col, param |-> i]]

\* render_insert(), render_update(), render_delete(): the values that are set, then
\* those of the filter.
LEMMA WritePlaced ==
    ASSUME NEW A, NEW I \in Seq(A), NEW B, NEW F \in Seq(B), NEW q,
           q.where = Sql!Where(F, Len(I)), q.set = Numbered(I), q.tail = <<>>,
           q.params = Sql!Values(I) \o Sql!Values(Sql!Params(F))
    PROVE  Placed(q) /\ ColumnsOf(q.set) = ColumnsOf(I)
<1> DEFINE v == Sql!Values(I)
           w == Sql!Values(Sql!Params(F))
           S == {e.val : e \in A} \cup {e.val : e \in B}
<1>1. DOMAIN I = 1..Len(I) /\ Len(I) \in Nat
  BY LenProperties
<1>2. /\ DOMAIN q.set = 1..Len(I) /\ Len(q.set) = Len(I)
      /\ \A i \in 1..Len(I) : q.set[i].param = i /\ q.set[i].col = I[i].col
  BY <1>1 DEF Numbered
<1>3. v \in Seq({e.val : e \in A}) /\ Len(v) = Len(I)
  BY ValuesInOrder
<1>4. /\ w \in Seq({e.val : e \in B}) /\ Len(w) = Len(Sql!Params(F))
      /\ \A i \in 1..Len(w) : w[i] # "null"
  BY ParamsAreValues
<1>5. v \in Seq(S) /\ w \in Seq(S)
  BY <1>3, <1>4
<1> HIDE DEF v, w, S
<1>6. /\ v \o w \in Seq(S) /\ Len(v \o w) = Len(v) + Len(w)
      /\ \A i \in 1..(Len(v) + Len(w)) : (v \o w)[i] = IF i <= Len(v) THEN v[i] ELSE w[i - Len(v)]
      /\ Len(v) \in Nat /\ Len(w) \in Nat
  BY <1>5, ConcatProperties, LenProperties
<1>7. DOMAIN (v \o w) = 1..Len(v \o w)
  BY <1>6, LenProperties
<1>8. ASSUME NEW i \in 1..Len(v \o w), Len(I) < i PROVE (v \o w)[i] # "null"
  <2>1. i - Len(v) \in 1..Len(w) /\ ~(i <= Len(v)) /\ i \in 1..(Len(v) + Len(w))
    BY <1>3, <1>6, <1>8
  <2> QED
    BY <1>4, <1>6, <2>1
<1>9. DOMAIN <<>> = 1..0 /\ Len(<<>>) = 0
  BY EmptySeq
<1>10. Sends(q, F, Len(I), 0)
  <2>1. q.params = v \o w
    BY DEF v, w
  <2>2. Len(q.params) = Len(I) + Len(Sql!Params(F)) + 0
    BY <1>3, <1>4, <1>6, <2>1
  <2>3. q.where = Sql!Where(F, Len(I)) /\ q.tail = <<>>
    OBVIOUS
  <2> QED
    BY <1>2, <1>7, <1>8, <1>9, <2>1, <2>2, <2>3 DEF Sends
<1>11. ColumnsOf(q.set) = ColumnsOf(I)
  BY <1>1, <1>2 DEF ColumnsOf, ToSet
<1> QED
  BY <1>1, <1>10, <1>11, EachInItsPlace

\* Of an entry there is none, of a filter with none no clause.
LEMMA NothingSent ==
    /\ Sql!Params(<<>>) = <<>> /\ Sql!Values(<<>>) = <<>> /\ \A n : Sql!Where(<<>>, n) = <<>>
    /\ Numbered(<<>>) = <<>> /\ ColumnsOf(<<>>) = {} /\ Len(<<>>) = 0
<1>1. DOMAIN <<>> = {}
  BY EmptySeq
<1> QED
  BY <1>1, SqlOnly, OnlyEmpty
  DEF Sql!Params, Sql!Values, Sql!Where, Numbered, ColumnsOf, ToSet

\* What RequestTemplate::render() answers for: the statement is of its operation,
\* its values are in their places, it has a filter where it must, and it names
\* columns of the table if those are known.
Answers(q, t) ==
    /\ Placed(q) /\ q.verb = t.op
    /\ q.verb \in {"Update", "Delete"} => q.where # <<>>
    /\ t.columns # <<>> => ColumnsOf(q.where) \cup ColumnsOf(q.set) \subseteq ToSet(t.columns)
    /\ \A o \in ToSet(q.order) : o.col \in ToSet(t.columns)

\* A template that compile_postgres() makes of a directive of these parts.
Template(t, Pair, V, Name) ==
    /\ t.op \in {"Select", "SelectOne", "Insert", "Update", "Delete"}
    /\ t.filter \in Optional(Seq(Pair)) /\ t.input \in Optional(Seq(Pair))
    /\ t.limit \in Seq(V) /\ t.offset \in Seq(V)
    /\ t.order \in Seq([col : Name, dir : Name])

\* render(): it does so for every template and every argument.
LEMMA StatementAnswers ==
    ASSUME NEW Pair, NEW V, NEW Name, NEW t, Template(t, Pair, V, Name), NEW arg,
           Sql!Render(t, arg) # <<>>
    PROVE  Answers(Sql!Render(t, arg)[1], t)
<1> DEFINE object(o) == IF o = <<>> THEN <<>> ELSE o[1]
           f == object(t.filter)
           n == object(t.input)
           F == Sql!Resolved(t.columns, f, arg)
           I == Sql!Resolved(t.columns, n, arg)
           q == Sql!Render(t, arg)[1]
<1> SUFFICES Answers(q, t)
  OBVIOUS
<1> HIDE DEF q
<1>0. Sql!Render(t, arg) =
        IF t.op # "Insert" /\ ~Sql!Resolves(t.columns, f) THEN <<>>
        ELSE IF t.op \in {"Insert", "Update"} /\ ~Sql!Resolves(t.columns, n) THEN <<>>
        ELSE CASE t.op \in {"Select", "SelectOne"} -> Sql!RenderSelect(t, F, arg)
               [] t.op = "Insert" -> Sql!RenderInsert(t, I)
               [] t.op = "Update" -> Sql!RenderUpdate(t, I, F)
               [] t.op = "Delete" -> Sql!RenderDelete(t, F)
  BY DEF Sql!Render
<1>1. f \in Seq(Pair) /\ n \in Seq(Pair)
  BY EmptySeq DEF Template, Optional
<1> HIDE DEF f, n
<1>2. ASSUME Sql!Resolves(t.columns, f)
      PROVE  /\ F \in Seq(ToSet(F))
             /\ t.columns # <<>> => ColumnsOf(F) \subseteq ToSet(t.columns)
  BY <1>1, <1>2, ResolvedColumns
<1>3. ASSUME Sql!Resolves(t.columns, n)
      PROVE  /\ I \in Seq(ToSet(I))
             /\ t.columns # <<>> => ColumnsOf(I) \subseteq ToSet(t.columns)
  BY <1>1, <1>3, ResolvedColumns
<1> HIDE DEF F, I
<1>4. /\ \A o \in ToSet(<<>>) : o.col \in ToSet(t.columns)
      /\ \A o \in ToSet(Sql!OrderBy(t)) : o.col \in ToSet(t.columns)
  <2>1. ToSet(<<>>) = {}
    BY EmptySeq DEF ToSet
  <2> QED
    BY <2>1, OrderedByColumns DEF Template
<1>5. ASSUME NEW B, NEW G \in Seq(B), NEW k \in Nat
      PROVE  ColumnsOf(Sql!Where(G, k)) = ColumnsOf(G)
  BY WhereCounts
<1>6. CASE t.op \in {"Select", "SelectOne"}
  <2>1. Sql!Resolves(t.columns, f) /\ Sql!Render(t, arg) = Sql!RenderSelect(t, F, arg)
    BY <1>0, <1>6
  <2>2. /\ Placed(q) /\ q.where = Sql!Where(F, 0) /\ q.set = <<>>
        /\ q.verb = t.op /\ (q.order = <<>> \/ q.order = Sql!OrderBy(t))
    <3>1. F \in Seq(ToSet(F)) /\ t.limit \in Seq(V) /\ t.offset \in Seq(V)
      BY <1>2, <2>1 DEF Template
    <3>2. q = Sql!RenderSelect(t, F, arg)[1]
      BY <2>1 DEF q
    <3>3. Placed(q)
      BY ONLY <3>1, <3>2, SelectPlaced
    <3>4. /\ q.where = Sql!Where(F, 0) /\ q.set = <<>> /\ q.verb = t.op
          /\ q.order = IF t.op = "Select" THEN Sql!OrderBy(t) ELSE <<>>
      BY ONLY <3>2 DEF Sql!RenderSelect, Sql!Sql
    <3> QED
      BY ONLY <3>3, <3>4
  <2>3. /\ ColumnsOf(q.where) = ColumnsOf(F) /\ ColumnsOf(q.set) = {}
        /\ F \in Seq(ToSet(F))
    BY <1>2, <1>5, <2>1, <2>2, NothingSent
  <2>4. t.columns # <<>> => ColumnsOf(q.where) \cup ColumnsOf(q.set) \subseteq ToSet(t.columns)
    BY <1>2, <2>1, <2>3
  <2>5. \A o \in ToSet(q.order) : o.col \in ToSet(t.columns)
    BY <1>4, <2>2
  <2> QED
    BY <1>6, <2>2, <2>4, <2>5 DEF Answers
<1>7. CASE t.op = "Insert"
  <2>1. /\ Sql!Resolves(t.columns, n) /\ I # <<>>
        /\ q = [verb |-> t.op, table |-> t.table, where |-> <<>>, set |-> Numbered(I),
                order |-> <<>>, tail |-> <<>>,
                returning |-> IF t.mode = "Rows" THEN Sql!Selected(t) ELSE <<>>,
                params |-> Sql!Values(I)]
    BY <1>0, <1>7 DEF Sql!RenderInsert, Sql!Sql, Numbered, q
  <2>2. Len(I) \in Nat
    BY <1>3, <2>1, LenProperties
  <2>3. Sql!Values(I) = Sql!Values(I) \o <<>>
    BY <1>3, <2>1, ValuesInOrder, ConcatEmptySeq
  <2>4. /\ q.where = Sql!Where(<<>>, Len(I)) /\ q.set = Numbered(I) /\ q.tail = <<>>
        /\ q.params = Sql!Values(I) \o Sql!Values(Sql!Params(<<>>))
    BY <2>1, <2>3, NothingSent
  <2>5. <<>> \in Seq({}) /\ q.verb = "Insert" /\ q.order = <<>> /\ q.where = <<>>
    BY <1>7, <2>1
  <2>6. Placed(q) /\ ColumnsOf(q.set) = ColumnsOf(I)
    BY <1>3, <2>1, <2>4, <2>5, WritePlaced
  <2>7. t.columns # <<>> => ColumnsOf(q.where) \cup ColumnsOf(q.set) \subseteq ToSet(t.columns)
    BY <1>3, <2>1, <2>5, <2>6, NothingSent
  <2>8. \A o \in ToSet(q.order) : o.col \in ToSet(t.columns)
    BY <1>4, <2>5
  <2> QED
    BY <1>7, <2>5, <2>6, <2>7, <2>8 DEF Answers
<1>8. CASE t.op = "Update"
  <2>1. /\ Sql!Resolves(t.columns, f) /\ Sql!Resolves(t.columns, n) /\ I # <<>> /\ F # <<>>
        /\ q = [verb |-> t.op, table |-> t.table, where |-> Sql!Where(F, Len(I)),
                set |-> Numbered(I), order |-> <<>>, tail |-> <<>>,
                returning |-> Sql!Selected(t),
                params |-> Sql!Values(I) \o Sql!Values(Sql!Params(F))]
    BY <1>0, <1>8 DEF Sql!RenderUpdate, Sql!Sql, Sql!Bounded, Numbered, q
  <2>2. Len(I) \in Nat
    BY <1>3, <2>1, LenProperties
  <2>3. /\ q.where = Sql!Where(F, Len(I)) /\ q.set = Numbered(I) /\ q.tail = <<>>
        /\ q.params = Sql!Values(I) \o Sql!Values(Sql!Params(F))
        /\ q.verb = t.op /\ q.order = <<>>
    BY <2>1
  <2>4. Placed(q) /\ ColumnsOf(q.set) = ColumnsOf(I)
    BY <1>2, <1>3, <2>1, <2>3, WritePlaced
  <2>5. q.where # <<>>
    <3>1. Len(F) # 0
      BY <1>2, <2>1, EmptySeq
    <3>2. DOMAIN q.where = DOMAIN F /\ DOMAIN F = 1..Len(F) /\ Len(F) \in Nat
      BY <1>2, <2>1, <2>3, LenProperties DEF Sql!Where
    <3> QED
      BY <3>1, <3>2, EmptySeq
  <2>6. ColumnsOf(q.where) = ColumnsOf(F)
    BY <1>2, <1>5, <2>1, <2>2, <2>3
  <2>7. t.columns # <<>> => ColumnsOf(q.where) \cup ColumnsOf(q.set) \subseteq ToSet(t.columns)
    BY <1>2, <1>3, <2>1, <2>4, <2>6
  <2>8. \A o \in ToSet(q.order) : o.col \in ToSet(t.columns)
    BY <1>4, <2>3
  <2> QED
    BY <2>3, <2>4, <2>5, <2>7, <2>8 DEF Answers
<1>9. CASE t.op = "Delete"
  <2>1. /\ Sql!Resolves(t.columns, f) /\ F # <<>>
        /\ q = [verb |-> t.op, table |-> t.table, where |-> Sql!Where(F, 0), set |-> <<>>,
                order |-> <<>>, tail |-> <<>>, returning |-> <<>>,
                params |-> Sql!Values(Sql!Params(F))]
    BY <1>0, <1>9 DEF Sql!RenderDelete, Sql!Sql, Sql!Bounded, q
  <2>2. <<>> \in Seq({}) /\ Len(<<>>) = 0
    BY EmptySeq
  <2>3. Sql!Values(Sql!Params(F)) = <<>> \o Sql!Values(Sql!Params(F))
    BY <1>2, <2>1, ParamsAreValues, ConcatEmptySeq
  <2>4. /\ q.where = Sql!Where(F, Len(<<>>)) /\ q.set = Numbered(<<>>) /\ q.tail = <<>>
        /\ q.params = Sql!Values(<<>>) \o Sql!Values(Sql!Params(F))
        /\ q.verb = t.op /\ q.order = <<>>
    BY <2>1, <2>2, <2>3, NothingSent
  <2>5. Placed(q) /\ ColumnsOf(q.set) = ColumnsOf(<<>>)
    BY <1>2, <2>1, <2>2, <2>4, WritePlaced
  <2>6. q.where # <<>>
    <3>1. Len(F) # 0
      BY <1>2, <2>1, EmptySeq
    <3>2. DOMAIN q.where = DOMAIN F /\ DOMAIN F = 1..Len(F) /\ Len(F) \in Nat
      BY <1>2, <2>1, <2>4, LenProperties DEF Sql!Where
    <3> QED
      BY <3>1, <3>2, EmptySeq
  <2>7. ColumnsOf(q.where) = ColumnsOf(F)
    BY <1>2, <1>5, <2>1
  <2>8. t.columns # <<>> => ColumnsOf(q.where) \cup ColumnsOf(q.set) \subseteq ToSet(t.columns)
    BY <1>2, <2>1, <2>5, <2>7, NothingSent
  <2>9. \A o \in ToSet(q.order) : o.col \in ToSet(t.columns)
    BY <1>4, <2>4
  <2> QED
    BY <2>4, <2>5, <2>6, <2>8, <2>9 DEF Answers
<1> QED
  BY <1>6, <1>7, <1>8, <1>9 DEF Template

\* The operations of a directive.
SqlOps == {"Select", "SelectOne", "Insert", "Update", "Delete"}

\* What a directive and the configuration it is in may hold.  The ids of database
\* links are distinct (core/blueprint/links.rs), and a table has a column.
SqlGiven(d, c, Pair, V, Name) ==
    /\ d.op \in SqlOps \cup {"Listen"}
    /\ d.filter \in Optional(Seq(Pair)) /\ d.input \in Optional(Seq(Pair))
    /\ d.limit \in Seq(V) /\ d.offset \in Seq(V)
    /\ d.order \in Seq([col : Name, dir : Name])
    /\ c.links \in Seq(ToSet(c.links))
    /\ \A l, k \in ToSet(c.links) :
          l.type \in Sql!Databases /\ k.type \in Sql!Databases /\ l.id = k.id => l = k
    /\ c.schemas \in Seq(ToSet(c.schemas))
    /\ \A s \in ToSet(c.schemas) :
          s.tables \in Seq(ToSet(s.tables)) /\ \A t \in ToSet(s.tables) : t.columns # <<>>

\* The first of what is kept is one of what there was.
LEMMA FirstKept ==
    ASSUME NEW B, NEW S, NEW s \in Seq(B), Only(s, S) # <<>>
    PROVE  Only(s, S)[1] \in ToSet(s) \cap S
<1>1. Only(s, S) \in Seq(B) /\ ToSet(Only(s, S)) = ToSet(s) \cap S
  BY OnlyKeeps
<1>2. DOMAIN Only(s, S) = 1..Len(Only(s, S)) /\ Len(Only(s, S)) \in Nat /\ Len(Only(s, S)) # 0
  BY <1>1, LenProperties, EmptySeq
<1>3. 1 \in DOMAIN Only(s, S)
  BY <1>2
<1>4. Only(s, S)[1] \in ToSet(Only(s, S))
  BY ONLY <1>3 DEF ToSet
<1> QED
  BY <1>1, <1>4

\* find_database_schema(), find_table(): one table at most, with its columns.
LEMMA OneTable ==
    ASSUME NEW Pair, NEW V, NEW Name, NEW d, NEW c, SqlGiven(d, c, Pair, V, Name), NEW id
    PROVE  \/ Sql!Table(d, c, id) = <<>>
           \/ \E t : Sql!Table(d, c, id) = <<t>> /\ t.columns # <<>>
<1> DEFINE found == Sql!Schema(c, id)
<1>1. ASSUME found # <<>>
      PROVE  \E s \in ToSet(c.schemas) : found = <<s.tables>>
  <2> DEFINE S == {x \in ToSet(c.schemas) : x.id = id}
  <2>1. found = IF Only(c.schemas, S) = <<>> THEN <<>> ELSE <<Only(c.schemas, S)[1].tables>>
    <3>1. Sql!ToSet(c.schemas) = ToSet(c.schemas)
      BY DEF Sql!ToSet, ToSet
    <3>2. S = {x \in Sql!ToSet(c.schemas) : x.id = id}
      BY <3>1
    <3> HIDE DEF S
    <3> QED
      BY <3>2, SqlOnly DEF Sql!Schema
  <2> HIDE DEF found, S
  <2>2. Only(c.schemas, S) # <<>>
    BY <1>1, <2>1
  <2>3. Only(c.schemas, S)[1] \in ToSet(c.schemas)
    BY <2>2, FirstKept DEF SqlGiven
  <2> QED
    BY <2>1, <2>2, <2>3
<1>2. ASSUME NEW tables, NEW name, tables \in Seq(ToSet(tables)),
             \A t \in ToSet(tables) : t.columns # <<>>
      PROVE  \/ Sql!FindTable(tables, name) = <<>>
             \/ \E t : Sql!FindTable(tables, name) = <<t>> /\ t.columns # <<>>
  <2> DEFINE At(key) == Only(tables, {t \in ToSet(tables) : Sql!QualifiedName(t) = key})
             named == Only(tables, {t \in ToSet(tables) : <<t.name>> = name})
  <2>1. Sql!FindTable(tables, name) =
            IF At(name) # <<>> THEN <<At(name)[1]>>
            ELSE IF At(<<"public">> \o name) # <<>> THEN <<At(<<"public">> \o name)[1]>>
            ELSE IF Len(named) = 1 THEN named ELSE <<>>
    <3>1. Sql!ToSet(tables) = ToSet(tables)
      BY DEF Sql!ToSet, ToSet
    <3>2. \A key : Sql!Only(tables, {t \in Sql!ToSet(tables) : Sql!QualifiedName(t) = key}) = At(key)
      BY <3>1, SqlOnly
    <3>3. Sql!Only(tables, {t \in Sql!ToSet(tables) : <<t.name>> = name}) = named
      BY <3>1, SqlOnly
    <3> HIDE DEF At, named
    <3> QED
      BY <3>2, <3>3 DEF Sql!FindTable
  <2>2. ASSUME NEW S, Only(tables, S) # <<>> PROVE Only(tables, S)[1].columns # <<>>
    BY <1>2, <2>2, FirstKept
  <2>3. ASSUME Len(named) = 1 PROVE named = <<named[1]>> /\ named[1].columns # <<>>
    <3>1. named \in Seq(ToSet(tables))
      BY <1>2, OnlyKeeps
    <3>2. named # <<>>
      BY <2>3, EmptySeq
    <3>3. named[1].columns # <<>>
      BY <2>2, <3>2
    <3> HIDE DEF named
    <3>4. named = <<named[1]>>
      BY <2>3, <3>1
    <3> QED
      BY <3>3, <3>4
  <2>4. \A key : At(key) # <<>> => At(key)[1].columns # <<>>
    BY <2>2
  <2> HIDE DEF At, named
  <2> QED
    BY <2>1, <2>3, <2>4
<1>3. found # <<>> => Sql!Table(d, c, id) = Sql!FindTable(found[1], d.table)
  BY DEF Sql!Table, Sql!InSchema
<1>4. CASE found # <<>>
  <2>1. PICK s \in ToSet(c.schemas) : found = <<s.tables>>
    BY <1>1, <1>4
  <2>2. s.tables \in Seq(ToSet(s.tables)) /\ \A t \in ToSet(s.tables) : t.columns # <<>>
    BY DEF SqlGiven
  <2>3. Sql!Table(d, c, id) = Sql!FindTable(s.tables, d.table)
    BY <1>3, <1>4, <2>1
  <2> QED
    BY ONLY <1>2, <2>2, <2>3
<1>5. CASE found = <<>>
  BY <1>5 DEF Sql!Table, Sql!InSchema
<1> QED
  BY <1>4, <1>5

\* compile_postgres(): what becomes of a directive that is accepted.
LEMMA Compiled ==
    ASSUME NEW Pair, NEW V, NEW Name, NEW d, NEW root, NEW c, SqlGiven(d, c, Pair, V, Name),
           NEW io, io = Sql!Compile(d, root, c), io # <<>>
    PROVE  /\ Sql!Connection(d, c) # <<>> /\ io[1].connection = Sql!Connection(d, c)[1]
           /\ io[1].io = "Postgres" =>
                 /\ Template(io[1], Pair, V, Name)
                 /\ io[1].op = d.op
                 /\ Sql!TableValid(d, Sql!Schema(c, io[1].connection),
                                   Sql!Table(d, c, io[1].connection))
                 /\ io[1].columns = IF Sql!Table(d, c, io[1].connection) = <<>> THEN <<>>
                                    ELSE Sql!Table(d, c, io[1].connection)[1].columns
<1> DEFINE id == Sql!Connection(d, c)
           table == Sql!Table(d, c, id[1])
           valid == Sql!TableValid(d, Sql!Schema(c, id[1]), table)
           t == Sql!Template(d, id[1], table)
<1>1. /\ id # <<>>
      /\ \/ io = <<[io |-> "PostgresStream", connection |-> id[1]]>>
         \/ d.op # "Listen" /\ valid /\ io = <<t>>
  BY DEF Sql!Compile, Sql!CompileOn, Sql!Compiled
<1>2. CASE io = <<[io |-> "PostgresStream", connection |-> id[1]]>>
  BY <1>1, <1>2
<1>3. CASE d.op # "Listen" /\ valid /\ io = <<t>>
  <2>1. Template(t, Pair, V, Name)
    BY <1>3 DEF Template, SqlGiven, SqlOps, Sql!Template
  <2>2. io[1] = t
    BY <1>3
  <2>3. /\ t.connection = id[1] /\ t.op = d.op
        /\ t.columns = IF table = <<>> THEN <<>> ELSE table[1].columns
    BY DEF Sql!Template
  <2> HIDE DEF t, id
  <2>4. id # <<>> /\ io[1].connection = id[1]
    BY <1>1, <2>2, <2>3
  <2>5. /\ Template(io[1], Pair, V, Name) /\ io[1].op = d.op
        /\ Sql!TableValid(d, Sql!Schema(c, io[1].connection),
                          Sql!Table(d, c, io[1].connection))
        /\ io[1].columns = IF Sql!Table(d, c, io[1].connection) = <<>> THEN <<>>
                           ELSE Sql!Table(d, c, io[1].connection)[1].columns
    BY <1>3, <2>1, <2>2, <2>3
  <2> QED
    BY <2>4, <2>5 DEF id
<1> QED
  BY <1>1, <1>2, <1>3

\* compile_postgres(), render(): whatever the configuration, the field and the
\* arguments, a statement sends its values in order, one under each placeholder,
\* writes or deletes only what a condition holds of, and names columns of its table.
THEOREM EveryStatementBounded ==
    ASSUME NEW Pair, NEW V, NEW Name, NEW d, NEW root, NEW c,
           SqlGiven(d, c, Pair, V, Name), NEW arg
    PROVE  Sql!StatementIsBounded(d, root, c, arg)
<1> DEFINE io == Sql!Compile(d, root, c)
           q == Sql!Statement(io, arg)
           table == Sql!Table(d, c, io[1].connection)
<1>1. CASE q = <<>>
  BY <1>1 DEF Sql!StatementIsBounded, Sql!BoundedIn
<1>2. CASE q # <<>>
  <2> DEFINE s == q[1]
  <2>1. io # <<>> /\ io[1].io = "Postgres" /\ q = Sql!Render(io[1], arg)
    BY <1>2 DEF Sql!Statement
  <2>2. /\ Template(io[1], Pair, V, Name) /\ io[1].op = d.op
        /\ Sql!TableValid(d, Sql!Schema(c, io[1].connection), table)
        /\ io[1].columns = IF table = <<>> THEN <<>> ELSE table[1].columns
    <3> HIDE DEF io
    <3>1. io = Sql!Compile(d, root, c)
      BY DEF io
    <3> QED
      BY <2>1, <3>1, Compiled
  <2>3. table = <<>> \/ \E t : table = <<t>> /\ t.columns # <<>>
    <3> HIDE DEF io
    <3> QED
      BY OneTable
  <2>4. Answers(s, io[1])
    <3> HIDE DEF io
    <3>1. Sql!Render(io[1], arg) # <<>> /\ s = Sql!Render(io[1], arg)[1]
      BY <1>2, <2>1
    <3> HIDE DEF s, q
    <3> QED
      BY <2>2, <3>1, StatementAnswers
  <2>5. \A r : Sql!ToSet(r) = ToSet(r)
    BY DEF Sql!ToSet, ToSet
  <2> HIDE DEF s
  <2>6. ASSUME NEW t \in ToSet(table)
        PROVE  /\ \A w \in ToSet(s.where) \cup ToSet(s.set) : w.col \in ToSet(t.columns)
               /\ \A o \in ToSet(s.order) : o.col \in ToSet(t.columns)
               /\ t.view => s.verb \notin Sql!Writes
    <3> HIDE DEF table
    <3>1. 1 \in DOMAIN table /\ table[1] = t /\ t.columns # <<>> /\ table # <<>>
      BY <2>3, EmptySeq DEF ToSet
    <3>2. io[1].columns = t.columns
      <4> HIDE DEF io
      <4> QED
        BY <2>2, <3>1
    <3>3. s.verb = d.op
      <4> HIDE DEF io
      <4> QED
        BY <2>2, <2>4 DEF Answers
    <3>4. ColumnsOf(s.where) \cup ColumnsOf(s.set) \subseteq ToSet(t.columns)
      <4> HIDE DEF io
      <4> QED
        BY <2>4, <3>1, <3>2 DEF Answers
    <3>5. \A o \in ToSet(s.order) : o.col \in ToSet(t.columns)
      <4> HIDE DEF io
      <4> QED
        BY <2>4, <3>2 DEF Answers
    <3>6. t.view => d.op \notin Sql!Writes
      <4>1. \A i \in DOMAIN table : table[i].view => d.op \notin Sql!Writes
        BY <2>2 DEF Sql!TableValid, table
      <4> QED
        BY <3>1, <4>1
    <3>7. \A w \in ToSet(s.where) \cup ToSet(s.set) : w.col \in ToSet(t.columns)
      BY <3>4 DEF ColumnsOf
    <3> QED
      BY <3>3, <3>5, <3>6, <3>7
  <2>7. /\ Placed(s)
        /\ s.verb \in {"Update", "Delete"} => s.where # <<>>
    <3> HIDE DEF io
    <3> QED
      BY <2>4 DEF Answers
  <2>8. /\ Sql!Used(s) \ {0} = 1..Len(s.params)
        /\ Len(Sql!Bound(s.where)) + Len(s.set) + Len(s.tail) = Len(s.params)
        /\ \A i \in DOMAIN s.params :
              s.params[i] = "null" => \E x \in ToSet(s.set) : x.param = i
    BY <2>5, <2>7 DEF Placed
  <2>9. Sql!IsBounded(s, Sql!ToSet(table))
    <3> HIDE DEF table
    <3> QED
      BY <2>5, <2>6, <2>7, <2>8 DEF Sql!IsBounded
  <2>10. Sql!StatementIsBounded(d, root, c, arg) <=> (q # <<>> => Sql!IsBounded(q[1], Sql!ToSet(table)))
    BY DEF Sql!StatementIsBounded, Sql!BoundedIn
  <2> QED
    BY ONLY <2>9, <2>10 DEF s
<1> QED
  BY <1>1, <1>2

\* compile_postgres(): the connection a directive is given is of its own kind of
\* database, if the configuration links any of that id.
THEOREM EveryConnectionOfItsKind ==
    ASSUME NEW Pair, NEW V, NEW Name, NEW d, NEW root, NEW c, SqlGiven(d, c, Pair, V, Name)
    PROVE  Sql!ConnectionOfItsKind(d, root, c)
<1> DEFINE io == Sql!Compile(d, root, c)
           Links == ToSet(c.links)
           own == Only(c.links, {l \in Sql!Linked(c) : Sql!Matches(d, l.type)})
<1>1. SUFFICES ASSUME io # <<>>, NEW i \in DOMAIN c.links, c.links[i].type \in Sql!Databases,
                      c.links[i].id = io[1].connection
               PROVE  Sql!Matches(d, c.links[i].type)
  <2> HIDE DEF io
  <2>1. Sql!Compile(d, root, c) = io
    BY DEF io
  <2> QED
    BY <2>1 DEF Sql!ConnectionOfItsKind
<1> DEFINE link == c.links[i]
<1>2. link \in Links /\ Sql!Linked(c) = {l \in Links : l.type \in Sql!Databases}
  BY DEF ToSet, Sql!ToSet, Sql!Linked
<1>3. Sql!Connection(d, c) # <<>> /\ link.id = Sql!Connection(d, c)[1]
  <2> HIDE DEF io
  <2>1. io = Sql!Compile(d, root, c)
    BY DEF io
  <2> QED
    BY <1>1, <2>1, Compiled
<1>4. \A l \in Sql!Linked(c) : l.id = link.id => l = link
  BY <1>1, <1>2 DEF SqlGiven
<1>5. c.links \in Seq(Links)
  BY DEF SqlGiven
<1> HIDE DEF link, io, Links
<1>6. CASE d.db # <<>>
  <2> DEFINE S == {l \in Sql!Linked(c) : l.id = d.db[1]}
  <2>1. Sql!Connection(d, c) = Sql!ByName(d, c) /\ Sql!Named(c, d.db[1]) = Only(c.links, S)
    BY <1>6, SqlOnly DEF Sql!Connection, Sql!Named
  <2>2. Sql!Connection(d, c) = d.db
    BY <1>3, <2>1 DEF Sql!ByName
  <2>3. link \in S
    BY <1>1, <1>2, <1>3, <2>2 DEF link
  <2>4. ToSet(Only(c.links, S)) = Links \cap S
    <3> HIDE DEF S
    <3> QED
      BY <1>5, OnlyKeeps DEF Links
  <2>5. Only(c.links, S) # <<>>
    <3>1. link \in ToSet(Only(c.links, S))
      BY <1>2, <2>3, <2>4
    <3> HIDE DEF S
    <3> QED
      BY <3>1, EmptySeq DEF ToSet
  <2>6. Sql!Matches(d, Only(c.links, S)[1].type)
    <3> HIDE DEF S
    <3> QED
      BY <1>3, <2>1, <2>2, <2>5 DEF Sql!ByName
  <2>7. Only(c.links, S)[1] \in S
    <3> HIDE DEF S
    <3> QED
      BY <1>5, <2>5, FirstKept
  <2>8. Only(c.links, S)[1] = link
    BY <1>3, <1>4, <2>2, <2>7
  <2> QED
    BY <2>6, <2>8 DEF link
<1>7. CASE d.db = <<>>
  <2>1. Sql!Connection(d, c) = Sql!ByDefault(d, c)
    BY <1>7 DEF Sql!Connection
  <2>2. Sql!Linked(c) # {}
    BY <1>1, <1>2 DEF link
  <2>3. Len(own) = 1 /\ Sql!Connection(d, c) = <<own[1].id>>
    <3>1. own = Sql!Only(c.links, {l \in Sql!Linked(c) : Sql!Matches(d, l.type)})
      BY SqlOnly
    <3> HIDE DEF own
    <3> QED
      BY <1>3, <2>1, <2>2, <3>1 DEF Sql!ByDefault
  <2>4. own # <<>>
    BY <2>3, EmptySeq
  <2>5. own[1] \in Sql!Linked(c) /\ Sql!Matches(d, own[1].type)
    <3> DEFINE S == {l \in Sql!Linked(c) : Sql!Matches(d, l.type)}
    <3>1. own[1] \in S
      <4> HIDE DEF S
      <4>1. own = Only(c.links, S)
        BY DEF S
      <4> HIDE DEF own
      <4> QED
        BY <1>5, <2>4, <4>1, FirstKept
    <3> QED
      BY <3>1
  <2> HIDE DEF own
  <2>6. own[1] = link
    BY <1>3, <1>4, <2>3, <2>5
  <2> QED
    BY <2>5, <2>6 DEF link
<1> QED
  BY <1>6, <1>7

-----------------------------------------------------------------------------
\* split('/').filter(): a path's segments are sequences of its pieces.
LEMMA SegmentsTyped ==
    ASSUME NEW P, NEW path \in Seq(P)
    PROVE  Handler!Segments(path) \in Seq(Seq(P))
<1> DEFINE last == Len(path)
           D == Seq(Seq(P))
           Longer(q, x) == [q EXCEPT ![Len(q)] = Append(@, x)]
           Split(q, n) == IF path[n] = "/" THEN q
                          ELSE IF n = 1 \/ path[n - 1] = "/" THEN Append(q, <<path[n]>>)
                          ELSE Longer(q, path[n])
           Loop(f) == [n \in 0..last |-> IF n = 0 THEN <<>> ELSE Split(f[n - 1], n)]
           run == CHOOSE f : f = Loop(f)
           step == [p \in Nat \X D |-> IF p[1] \in 1..last THEN Split(p[2], p[1]) ELSE p[2]]
<1>1. last \in Nat /\ (\A n \in 1..last : path[n] \in P) /\ <<>> \in D
  BY LenProperties, ElementOfSeq
<1>2. ASSUME NEW q \in D, NEW x \in P PROVE Longer(q, x) \in D
  <2>1. Len(q) \in Nat /\ q \in [1..Len(q) -> Seq(P)]
    BY LenProperties
  <2>2. \A s \in Seq(P) : Append(s, x) \in Seq(P)
    BY AppendProperties
  <2>3. Longer(q, x) \in [1..Len(q) -> Seq(P)]
    BY <2>1, <2>2
  <2>4. ASSUME NEW T, NEW k \in Nat, NEW r \in [1..k -> T] PROVE r \in Seq(T)
    BY SeqDef
  <2> HIDE DEF Longer
  <2> QED
    BY <2>1, <2>3, <2>4
<1>3. ASSUME NEW q \in D, NEW n \in 1..last PROVE Split(q, n) \in D
  <2>1. path[n] \in P /\ <<path[n]>> \in Seq(P)
    BY <1>1
  <2>2. Append(q, <<path[n]>>) \in D
    BY <2>1, AppendProperties
  <2>3. Longer(q, path[n]) \in D
    BY <1>2, <2>1
  <2> HIDE DEF Longer, D
  <2> QED
    BY <2>2, <2>3
<1>4. step \in [Nat \X D -> D]
  <2> HIDE DEF Split, D
  <2> QED
    BY <1>3
<1>5. PICK f \in Partial(D, <<>>, step, last) : TRUE
  <2> HIDE DEF step, D, last
  <2>1. \A n \in Nat : Partial(D, <<>>, step, n) # {}
    BY ONLY <1>1, <1>4, PartialExists
  <2> QED
    BY <1>1, <2>1
<1>6. f = Loop(f)
  <2>1. /\ f \in [0..last -> D] /\ f[0] = <<>>
        /\ \A i \in Nat : i < last => f[i + 1] = step[<<i + 1, f[i]>>]
    <3> HIDE DEF step, D
    <3> QED
      BY <1>5 DEF Partial
  <2>2. ASSUME NEW n \in 0..last, n # 0 PROVE f[n] = Split(f[n - 1], n)
    <3>1. /\ n \in 1..last /\ n - 1 \in 0..last /\ n \in Nat /\ n - 1 \in Nat
          /\ n - 1 < last /\ (n - 1) + 1 = n
      BY <1>1, <2>2
    <3>2. <<n, f[n - 1]>> \in Nat \X D
      BY <2>1, <3>1
    <3>3. f[n] = step[<<n, f[n - 1]>>]
      <4> HIDE DEF step, D
      <4> QED
        BY <2>1, <3>1
    <3> HIDE DEF Split, D
    <3> QED
      BY <3>1, <3>2, <3>3
  <2> HIDE DEF Split
  <2> QED
    BY <1>1, <2>1, <2>2
<1>7. run = Loop(run)
  <2> HIDE DEF Loop
  <2> QED
    BY <1>6
<1> HIDE DEF run
<1> DEFINE Y == {n \in Nat : n <= last => run[n] \in D}
<1>8. 0 \in Y
  <2>1. 0 \in 0..last
    BY <1>1
  <2> HIDE DEF Split
  <2>2. run[0] = <<>>
    BY ONLY <1>7, <2>1
  <2> QED
    BY <1>1, <2>2
<1>9. ASSUME NEW n \in Nat, n \in Y PROVE n + 1 \in Y
  <2>1. SUFFICES ASSUME n + 1 <= last PROVE run[n + 1] \in D
    OBVIOUS
  <2>2. n + 1 \in 0..last /\ n + 1 \in 1..last /\ n + 1 # 0 /\ (n + 1) - 1 = n /\ run[n] \in D
    <3>1. last \in Nat /\ n <= last
      BY <1>1, <2>1
    <3>2. n + 1 \in 0..last /\ n + 1 \in 1..last /\ n + 1 # 0 /\ (n + 1) - 1 = n
      BY ONLY <2>1, <3>1, n \in Nat
    <3> HIDE DEF D
    <3> QED
      BY <3>1, <3>2, <1>9
  <2> HIDE DEF Split, D
  <2>3. run[n + 1] = Split(run[(n + 1) - 1], n + 1)
    BY ONLY <1>7, <2>2
  <2> QED
    BY <1>3, <2>2, <2>3
<1>10. run[last] \in D
  <2> HIDE DEF Y
  <2>1. \A n \in Nat : n \in Y
    BY <1>8, <1>9, SetInduction
  <2> QED
    BY <1>1, <2>1 DEF Y
<1>11. Handler!Segments(path) = run[last]
  BY DEF Handler!Segments, run
<1> QED
  BY <1>10, <1>11

\* API_URL_PREFIX is taken out: what is left of a path is pieces of it.
LEMMA StrippedTyped ==
    ASSUME NEW P, NEW path \in Seq(P)
    PROVE  Handler!Stripped(path) \in Seq(P)
<1> DEFINE last == Len(path)
           D == Seq(P)
           Keep(q, n) == IF Handler!IsApi(path, n) \/ (n > 1 /\ Handler!IsApi(path, n - 1)) THEN q
                         ELSE Append(q, path[n])
           Loop(f) == [n \in 0..last |-> IF n = 0 THEN <<>> ELSE Keep(f[n - 1], n)]
           run == CHOOSE f : f = Loop(f)
           step == [p \in Nat \X D |-> IF p[1] \in 1..last THEN Keep(p[2], p[1]) ELSE p[2]]
<1>1. last \in Nat /\ (\A n \in 1..last : path[n] \in P) /\ <<>> \in D
  BY LenProperties, ElementOfSeq
<1>2. ASSUME NEW q \in D, NEW n \in 1..last PROVE Keep(q, n) \in D
  <2>1. Append(q, path[n]) \in D
    BY <1>1, AppendProperties
  <2> HIDE DEF D
  <2> QED
    BY <2>1
<1>3. step \in [Nat \X D -> D]
  <2> HIDE DEF Keep, D
  <2> QED
    BY <1>2
<1>4. PICK f \in Partial(D, <<>>, step, last) : TRUE
  <2> HIDE DEF step, D, last
  <2>1. \A n \in Nat : Partial(D, <<>>, step, n) # {}
    BY ONLY <1>1, <1>3, PartialExists
  <2> QED
    BY <1>1, <2>1
<1>5. f = Loop(f)
  <2>1. /\ f \in [0..last -> D] /\ f[0] = <<>>
        /\ \A i \in Nat : i < last => f[i + 1] = step[<<i + 1, f[i]>>]
    <3> HIDE DEF step, D
    <3> QED
      BY <1>4 DEF Partial
  <2>2. ASSUME NEW n \in 0..last, n # 0 PROVE f[n] = Keep(f[n - 1], n)
    <3>1. /\ n \in 1..last /\ n - 1 \in 0..last /\ n \in Nat /\ n - 1 \in Nat
          /\ n - 1 < last /\ (n - 1) + 1 = n
      BY <1>1, <2>2
    <3>2. <<n, f[n - 1]>> \in Nat \X D
      BY <2>1, <3>1
    <3>3. f[n] = step[<<n, f[n - 1]>>]
      <4> HIDE DEF step, D
      <4> QED
        BY <2>1, <3>1
    <3> HIDE DEF Keep, D
    <3> QED
      BY <3>1, <3>2, <3>3
  <2> HIDE DEF Keep
  <2> QED
    BY <1>1, <2>1, <2>2
<1>6. run = Loop(run)
  <2> HIDE DEF Loop
  <2> QED
    BY <1>5
<1> HIDE DEF run
<1> DEFINE Y == {n \in Nat : n <= last => run[n] \in D}
<1>7. 0 \in Y
  <2>1. 0 \in 0..last
    BY <1>1
  <2> HIDE DEF Keep
  <2>2. run[0] = <<>>
    BY ONLY <1>6, <2>1
  <2> QED
    BY <1>1, <2>2
<1>8. ASSUME NEW n \in Nat, n \in Y PROVE n + 1 \in Y
  <2>1. SUFFICES ASSUME n + 1 <= last PROVE run[n + 1] \in D
    OBVIOUS
  <2>2. n + 1 \in 0..last /\ n + 1 \in 1..last /\ n + 1 # 0 /\ (n + 1) - 1 = n /\ run[n] \in D
    <3>1. last \in Nat /\ n <= last
      BY <1>1, <2>1
    <3>2. n + 1 \in 0..last /\ n + 1 \in 1..last /\ n + 1 # 0 /\ (n + 1) - 1 = n
      BY ONLY <2>1, <3>1, n \in Nat
    <3> HIDE DEF D
    <3> QED
      BY <3>1, <3>2, <1>8
  <2> HIDE DEF Keep, D
  <2>3. run[n + 1] = Keep(run[(n + 1) - 1], n + 1)
    BY ONLY <1>6, <2>2
  <2> QED
    BY <1>2, <2>2, <2>3
<1>9. run[last] \in D
  <2> HIDE DEF Y
  <2>1. \A n \in Nat : n \in Y
    BY <1>7, <1>8, SetInduction
  <2> QED
    BY <1>1, <2>1 DEF Y
<1>10. Handler!Stripped(path) = run[last]
  BY DEF Handler!Stripped, run
<1> QED
  BY <1>9, <1>10

-----------------------------------------------------------------------------
(* What becomes of the upstreams' policies.                                 *)
Ages == {<<>>} \cup {<<n>> : n \in Nat}
Policies(Scope) == [age : Ages, success : BOOLEAN, scope : Scope]
Controls == [public : BOOLEAN, age : {<<>>} \cup {<<n>> : n \in Int}]

\* The ages a set of policies names, no-cache being -1.
AgesOf(used) ==
    {n \in Int : \/ \E p \in used : p.age = <<n>>
                 \/ n = -1 /\ \E p \in used : p.scope = "no-cache"}

\* What a control says of the policies it was made of: private if one of them is, and the
\* least of their ages.
SumsUp(c, used) ==
    /\ c.public <=> \A p \in used : p.scope # "private"
    /\ \/ c.age = <<>> /\ AgesOf(used) = {}
       \/ \E n \in AgesOf(used) : c.age = <<n>> /\ \A m \in AgesOf(used) : n <= m

\* Two controls of the same policies are the same.
LEMMA OneSummary ==
    ASSUME NEW c \in Controls, NEW d \in Controls, NEW used, SumsUp(c, used), SumsUp(d, used)
    PROVE  c = d
<1>1. c.public = d.public
  BY DEF SumsUp, Controls
<1>2. c.age = d.age
  <2>1. AgesOf(used) \subseteq Int
    BY DEF AgesOf
  <2>2. CASE AgesOf(used) = {}
    BY <2>2 DEF SumsUp
  <2>3. CASE AgesOf(used) # {}
    <3>1. PICK n \in AgesOf(used) : c.age = <<n>> /\ \A m \in AgesOf(used) : n <= m
      BY <2>3 DEF SumsUp
    <3>2. PICK m \in AgesOf(used) : d.age = <<m>> /\ \A k \in AgesOf(used) : m <= k
      BY <2>3 DEF SumsUp
    <3>3. n = m
      BY <2>1, <3>1, <3>2
    <3> QED
      BY <3>1, <3>2, <3>3
  <2> QED
    BY <2>2, <2>3
<1> QED
  BY <1>1, <1>2 DEF Controls

\* set_cache_control(): one more policy.
LEMMA OneMorePolicy ==
    ASSUME NEW Scope, NEW c \in Controls, NEW used, NEW p \in Policies(Scope), SumsUp(c, used)
    PROVE  /\ Handler!SetCacheControl(c, p) \in Controls
           /\ SumsUp(Handler!SetCacheControl(c, p), used \cup {p})
<1> DEFINE d == Handler!SetCacheControl(c, p)
           A == AgesOf(used)
           B == AgesOf(used \cup {p})
           aged == IF p.age = <<>> THEN c.age ELSE Handler!MinAge(c.age, p.age[1])
           Least(age, S) == \/ age = <<>> /\ S = {}
                            \/ \E n \in S : age = <<n>> /\ \A m \in S : n <= m
<1>1. A \subseteq Int /\ Least(c.age, A)
  BY DEF AgesOf, SumsUp
<1>2. ASSUME NEW S, S \subseteq Int, NEW age, Least(age, S), NEW n \in Int
      PROVE  Least(Handler!MinAge(age, n), S \cup {n})
  <2>1. CASE age = <<>>
    <3>1. S = {}
      BY <1>2, <2>1
    <3>2. Handler!MinAge(age, n) = <<n>>
      BY <2>1 DEF Handler!MinAge
    <3> QED
      BY <1>2, <3>1, <3>2
  <2>2. CASE age # <<>>
    <3>1. PICK k \in S : age = <<k>> /\ \A m \in S : k <= m
      BY <1>2, <2>2
    <3>2. Handler!MinAge(age, n) = IF n < k THEN <<n>> ELSE <<k>>
      BY <3>1 DEF Handler!MinAge
    <3>3. CASE n < k
      <4>1. \A m \in S \cup {n} : n <= m
        BY <1>2, <3>1, <3>3
      <4> QED
        BY <3>2, <3>3, <4>1
    <3>4. CASE ~(n < k)
      <4>1. \A m \in S \cup {n} : k <= m
        BY <1>2, <3>1, <3>4
      <4> QED
        BY <3>1, <3>2, <3>4, <4>1
    <3> QED
      BY <3>3, <3>4
  <2> QED
    BY <2>1, <2>2
<1> DEFINE Own == IF p.age = <<>> THEN {} ELSE {p.age[1]}
           None == IF p.scope = "no-cache" THEN {-1} ELSE {}
<1>3. p.age = <<>> \/ (p.age = <<p.age[1]>> /\ p.age[1] \in Nat)
  BY DEF Policies, Ages
<1>4. B = (A \cup Own) \cup None
  <2>1. \A n \in Int : p.age = <<n>> <=> n \in Own
    BY <1>3
  <2>2. \A n \in Own \cup None : n \in Int
    BY <1>3
  <2> QED
    BY <2>1, <2>2 DEF AgesOf
<1>5. Least(aged, A \cup Own) /\ A \cup Own \subseteq Int
  <2> HIDE DEF Least
  <2>1. CASE p.age = <<>>
    BY <1>1, <2>1
  <2>2. CASE p.age # <<>>
    BY <1>1, <1>2, <1>3, <2>2
  <2> QED
    BY <2>1, <2>2
<1>6. d.age = IF p.scope = "no-cache" THEN Handler!MinAge(aged, -1) ELSE aged
  BY DEF Handler!SetCacheControl
<1>7. Least(d.age, B)
  <2> HIDE DEF Least, aged, Own, B, d
  <2>1. CASE p.scope = "no-cache"
    BY <1>2, <1>4, <1>5, <1>6, <2>1
  <2>2. CASE p.scope # "no-cache"
    BY <1>4, <1>5, <1>6, <2>2
  <2> QED
    BY <2>1, <2>2
<1>8. d.public <=> \A q \in used \cup {p} : q.scope # "private"
  BY DEF Handler!SetCacheControl, SumsUp
<1>9. B \subseteq Int
  BY DEF AgesOf
<1>10. d.age \in {<<>>} \cup {<<n>> : n \in Int}
  <2> HIDE DEF d, B
  <2> QED
    BY <1>7, <1>9
<1>11. d \in Controls
  <2>1. d = [public |-> d.public, age |-> d.age] /\ d.public \in BOOLEAN
    BY DEF Handler!SetCacheControl, Controls
  <2> HIDE DEF d
  <2> QED
    BY <1>10, <2>1 DEF Controls
<1>12. SumsUp(d, used \cup {p})
  <2> HIDE DEF d
  <2> QED
    BY <1>7, <1>8 DEF SumsUp
<1> QED
  BY <1>11, <1>12

\* Those of the upstreams that succeeded.
Successes(policies) == {p \in ToSet(policies) : p.success}

\* set_headers(), upstream by upstream: the policies of those that succeeded.
LEMMA CollectedSumsUp ==
    ASSUME NEW Scope, NEW policies \in Seq(Policies(Scope))
    PROVE  /\ Handler!Collected(policies) \in Controls
           /\ SumsUp(Handler!Collected(policies), Successes(policies))
<1> DEFINE last == Len(policies)
           base == [public |-> TRUE, age |-> <<>>]
           Set(c, n) == IF policies[n].success THEN Handler!SetCacheControl(c, policies[n]) ELSE c
           Loop(f) == [n \in 0..last |-> IF n = 0 THEN base ELSE Set(f[n - 1], n)]
           run == CHOOSE f : f = Loop(f)
           step == [p \in Nat \X Controls |-> IF p[1] \in 1..last THEN Set(p[2], p[1]) ELSE p[2]]
           First(n) == {p \in Policies(Scope) : p.success /\ \E i \in 1..n : policies[i] = p}
<1>1. last \in Nat /\ (\A n \in 1..last : policies[n] \in Policies(Scope)) /\ base \in Controls
  BY LenProperties, ElementOfSeq DEF Controls
<1>2. ASSUME NEW c \in Controls, NEW n \in 1..last PROVE Set(c, n) \in Controls
  <2>1. ASSUME NEW p \in Policies(Scope) PROVE Handler!SetCacheControl(c, p) \in Controls
    BY DEF Handler!SetCacheControl, Handler!MinAge, Controls, Policies, Ages
  <2> QED
    BY <1>1, <2>1
<1>3. step \in [Nat \X Controls -> Controls]
  <2> HIDE DEF Set
  <2> QED
    BY <1>2
<1>4. PICK f \in Partial(Controls, base, step, last) : TRUE
  <2> HIDE DEF step, last, base
  <2>1. \A n \in Nat : Partial(Controls, base, step, n) # {}
    BY ONLY <1>1, <1>3, PartialExists
  <2> QED
    BY <1>1, <2>1
<1>5. f = Loop(f)
  <2>1. /\ f \in [0..last -> Controls] /\ f[0] = base
        /\ \A i \in Nat : i < last => f[i + 1] = step[<<i + 1, f[i]>>]
    <3> HIDE DEF step, base
    <3> QED
      BY <1>4 DEF Partial
  <2>2. ASSUME NEW n \in 0..last, n # 0 PROVE f[n] = Set(f[n - 1], n)
    <3>1. /\ n \in 1..last /\ n - 1 \in 0..last /\ n \in Nat /\ n - 1 \in Nat
          /\ n - 1 < last /\ (n - 1) + 1 = n
      BY <1>1, <2>2
    <3>2. <<n, f[n - 1]>> \in Nat \X Controls
      BY <2>1, <3>1
    <3>3. f[n] = step[<<n, f[n - 1]>>]
      <4> HIDE DEF step
      <4> QED
        BY <2>1, <3>1
    <3> HIDE DEF Set
    <3> QED
      BY <3>1, <3>2, <3>3
  <2> HIDE DEF Set, base
  <2> QED
    BY <1>1, <2>1, <2>2
<1>6. run = Loop(run)
  <2> HIDE DEF Loop
  <2> QED
    BY <1>5
<1> HIDE DEF run
<1> DEFINE Y == {n \in Nat : n <= last => run[n] \in Controls /\ SumsUp(run[n], First(n))}
<1>7. 0 \in Y
  <2>1. 0 \in 0..last
    BY <1>1
  <2>2. run[0] = base
    <3> HIDE DEF Set, base
    <3> QED
      BY ONLY <1>6, <2>1
  <2>3. First(0) = {} /\ AgesOf({}) = {}
    BY DEF AgesOf
  <2>4. SumsUp(base, First(0))
    BY <2>3 DEF SumsUp
  <2> HIDE DEF base, First
  <2> QED
    BY <1>1, <2>2, <2>4
<1>8. ASSUME NEW n \in Nat, n \in Y PROVE n + 1 \in Y
  <2>1. SUFFICES ASSUME n + 1 <= last
                 PROVE  run[n + 1] \in Controls /\ SumsUp(run[n + 1], First(n + 1))
    OBVIOUS
  <2>2. /\ n + 1 \in 0..last /\ n + 1 \in 1..last /\ n + 1 # 0 /\ (n + 1) - 1 = n
        /\ run[n] \in Controls /\ SumsUp(run[n], First(n))
    <3>1. last \in Nat /\ n <= last
      BY <1>1, <2>1
    <3>2. n + 1 \in 0..last /\ n + 1 \in 1..last /\ n + 1 # 0 /\ (n + 1) - 1 = n
      BY ONLY <2>1, <3>1, n \in Nat
    <3>3. run[n] \in Controls /\ SumsUp(run[n], First(n))
      BY <1>8, <3>1
    <3> QED
      BY <3>2, <3>3
  <2>3. run[n + 1] = Set(run[n], n + 1)
    <3> HIDE DEF Set, base
    <3>1. run[n + 1] = Set(run[(n + 1) - 1], n + 1)
      BY ONLY <1>6, <2>2
    <3> QED
      BY <2>2, <3>1
  <2> DEFINE p == policies[n + 1]
  <2>4. p \in Policies(Scope)
    BY <1>1, <2>2
  <2>5. First(n + 1) = IF p.success THEN First(n) \cup {p} ELSE First(n)
    <3>1. \A i : i \in 1..(n + 1) <=> i \in 1..n \/ i = n + 1
      OBVIOUS
    <3> HIDE DEF p
    <3>2. \A q : (\E i \in 1..(n + 1) : policies[i] = q) <=> (\E i \in 1..n : policies[i] = q) \/ q = p
      BY <3>1 DEF p
    <3> QED
      BY <2>4, <3>2
  <2> HIDE DEF First, p
  <2>6. CASE p.success
    <3>1. run[n + 1] = Handler!SetCacheControl(run[n], p)
      BY <2>3, <2>6 DEF p
    <3> QED
      BY <2>2, <2>4, <2>5, <2>6, <3>1, OneMorePolicy
  <2>7. CASE ~p.success
    <3>1. run[n + 1] = run[n]
      BY <2>3, <2>7 DEF p
    <3> QED
      BY <2>2, <2>5, <2>7, <3>1
  <2> QED
    BY <2>6, <2>7
<1>9. run[last] \in Controls /\ SumsUp(run[last], First(last))
  <2> HIDE DEF Y
  <2>1. \A n \in Nat : n \in Y
    BY <1>7, <1>8, SetInduction
  <2>2. last \in Y /\ last <= last
    BY <1>1, <2>1
  <2> HIDE DEF First
  <2> QED
    BY ONLY <2>2 DEF Y
<1>10. Handler!Collected(policies) = run[last]
  BY DEF Handler!Collected, run
<1>11. First(last) = Successes(policies)
  <2>1. DOMAIN policies = 1..last
    BY LenProperties
  <2> QED
    BY <1>1, <2>1 DEF Successes, ToSet
<1> QED
  BY <1>9, <1>10, <1>11

\* CacheControl::merge(): equal responses' controls are merged to what one has.
LEMMA MergedOfEqual ==
    ASSUME NEW own \in [public : BOOLEAN, age : Nat \cup {-1}], NEW size \in Nat, size # 0
    PROVE  Handler!MergedPolicy(own, size) = own
<1> DEFINE Loop(f) == [n \in 0..size |-> IF n = 0 THEN Handler!NoPolicy ELSE Handler!Merge(f[n - 1], own)]
           run == CHOOSE f : f = Loop(f)
           f == [n \in 0..size |-> IF n = 0 THEN Handler!NoPolicy ELSE own]
<1>1. Handler!Merge(Handler!NoPolicy, own) = own /\ Handler!Merge(own, own) = own
  BY DEF Handler!Merge, Handler!NoPolicy
<1>2. f = Loop(f)
  <2>1. ASSUME NEW n \in 0..size, n # 0 PROVE Handler!Merge(f[n - 1], own) = own
    <3>1. n - 1 \in 0..size
      BY <2>1
    <3>2. f[n - 1] = Handler!NoPolicy \/ f[n - 1] = own
      BY <3>1
    <3> QED
      BY <1>1, <3>2
  <2> HIDE DEF f
  <2>2. \A n \in 0..size : f[n] = IF n = 0 THEN Handler!NoPolicy ELSE own
    BY DEF f
  <2>3. f = [n \in 0..size |-> f[n]]
    BY DEF f
  <2> QED
    BY <2>1, <2>2, <2>3
<1>3. run = Loop(run)
  <2> HIDE DEF Loop, f
  <2> QED
    BY <1>2
<1> HIDE DEF run
<1> DEFINE Y == {n \in Nat : n < size => run[n + 1] = own}
<1>4. 0 \in Y
  <2>1. 0 \in 0..size /\ 0 + 1 \in 0..size /\ 0 + 1 # 0 /\ (0 + 1) - 1 = 0
    OBVIOUS
  <2>2. run[0] = Handler!NoPolicy
    BY ONLY <1>3, <2>1
  <2>3. run[0 + 1] = Handler!Merge(run[(0 + 1) - 1], own)
    BY ONLY <1>3, <2>1
  <2> QED
    BY <1>1, <2>1, <2>2, <2>3
<1>5. ASSUME NEW n \in Nat, n \in Y PROVE n + 1 \in Y
  <2>1. SUFFICES ASSUME n + 1 < size PROVE run[(n + 1) + 1] = own
    OBVIOUS
  <2>2. /\ (n + 1) + 1 \in 0..size /\ (n + 1) + 1 # 0 /\ ((n + 1) + 1) - 1 = n + 1
        /\ run[n + 1] = own
    BY <1>5, <2>1
  <2>3. run[(n + 1) + 1] = Handler!Merge(run[((n + 1) + 1) - 1], own)
    BY ONLY <1>3, <2>2
  <2> QED
    BY <1>1, <2>2, <2>3
<1>6. run[size] = own
  <2> HIDE DEF Y
  <2>1. \A n \in Nat : n \in Y
    BY <1>4, <1>5, SetInduction
  <2>2. size - 1 \in Nat /\ size - 1 < size /\ (size - 1) + 1 = size
    OBVIOUS
  <2> QED
    BY <2>1, <2>2 DEF Y
<1> QED
  BY <1>6 DEF Handler!MergedPolicy, run

\* set_cache_control(), cache_control(): whatever order any number of upstreams
\* answered in, a response is cached as they allow, and so is a batch of it.
THEOREM CachedNoLonger ==
    ASSUME NEW Scope, NEW policies \in Seq(Policies(Scope)), NEW enabled \in BOOLEAN,
           NEW size \in Nat, size # 0
    PROVE  Handler!CacheNoLonger(enabled, size, policies)
<1> DEFINE used == Successes(policies)
           c == Handler!Collected(policies)
           own == Handler!OwnPolicy(enabled, c)
           header == Handler!CacheControl(enabled, TRUE, size, policies)
           reversed == Handler!CacheControl(enabled, TRUE, size, Handler!Reverse(policies))
           alone == Handler!CacheControl(enabled, TRUE, 1, policies)
<1>1. c \in Controls /\ SumsUp(c, used)
  BY CollectedSumsUp
<1>2. \A p \in used : p \in Policies(Scope)
  BY ElementOfSeq DEF Successes, ToSet
<1>3. AgesOf(used) \subseteq Nat \cup {-1}
  <2>1. ASSUME NEW p \in used, NEW n, p.age = <<n>> PROVE n \in Nat
    <3>1. p.age \in Ages
      BY <1>2 DEF Policies
    <3>2. p.age = <<>> \/ \E m \in Nat : p.age = <<m>>
      BY <3>1 DEF Ages
    <3>3. <<n>> # <<>>
      OBVIOUS
    <3>4. PICK m \in Nat : <<n>> = <<m>>
      BY ONLY <2>1, <3>2, <3>3
    <3> QED
      BY ONLY <3>4
  <2> HIDE DEF used
  <2> QED
    BY <2>1 DEF AgesOf
<1>4. c.age = <<>> \/ \E n \in Nat \cup {-1} : c.age = <<n>>
  BY <1>1, <1>3 DEF SumsUp
<1>5. own \in [public : BOOLEAN, age : Nat \cup {-1}]
  BY <1>1, <1>4 DEF Handler!OwnPolicy, Handler!NoPolicy, Controls
<1>6. Handler!MergedPolicy(own, size) = own /\ Handler!MergedPolicy(own, 1) = own
  <2> HIDE DEF own
  <2> QED
    BY <1>5, MergedOfEqual
<1>7. /\ header = IF own.age = 0 /\ own.public THEN <<>> ELSE <<own>>
      /\ header = alone
  <2> HIDE DEF own
  <2> QED
    BY <1>6 DEF Handler!CacheControl, own
<1>8. header = reversed
  <2>1. Handler!Reverse(policies) \in Seq(Policies(Scope))
    <3>1. Len(policies) \in Nat /\ policies \in [1..Len(policies) -> Policies(Scope)]
      BY LenProperties
    <3>2. Handler!Reverse(policies) \in [1..Len(policies) -> Policies(Scope)]
      BY <3>1 DEF Handler!Reverse
    <3> QED
      BY <3>1, <3>2, SeqDef
  <2>2. Successes(Handler!Reverse(policies)) = used
    <3> DEFINE last == Len(policies)
    <3>1. last \in Nat /\ DOMAIN policies = 1..last
      BY LenProperties
    <3>2. DOMAIN Handler!Reverse(policies) = 1..last
      BY DEF Handler!Reverse
    <3>3. \A i \in 1..last : Handler!Reverse(policies)[i] = policies[(last - i) + 1]
      BY DEF Handler!Reverse
    <3>4. \A i \in 1..last : (last - i) + 1 \in 1..last /\ (last - ((last - i) + 1)) + 1 = i
      BY <3>1
    <3> HIDE DEF last
    <3>5. ToSet(Handler!Reverse(policies)) = ToSet(policies)
      BY <3>1, <3>2, <3>3, <3>4 DEF ToSet
    <3> QED
      BY <3>5 DEF Successes
  <2>3. Handler!Collected(Handler!Reverse(policies)) = c
    <3>1. /\ Handler!Collected(Handler!Reverse(policies)) \in Controls
          /\ SumsUp(Handler!Collected(Handler!Reverse(policies)), used)
      BY <2>1, <2>2, CollectedSumsUp
    <3> QED
      BY <1>1, <3>1, OneSummary
  <2> QED
    BY <2>3 DEF Handler!CacheControl
<1>9. ASSUME enabled
      PROVE  /\ (\E p \in used : p.scope = "no-cache") <=> header # <<>> /\ header[1].age = -1
             /\ \A p \in used : header # <<>> /\ p.age # <<>> => header[1].age <= p.age[1]
             /\ (\E p \in used : p.scope = "private") <=> header # <<>> /\ ~header[1].public
  <2>1. own.public = c.public /\ own.age = IF c.age = <<>> THEN 0 ELSE c.age[1]
    BY <1>9 DEF Handler!OwnPolicy
  <2>2. (\E p \in used : p.scope = "no-cache") <=> c.age = <<-1>>
    <3>1. (\E p \in used : p.scope = "no-cache") <=> -1 \in AgesOf(used)
      <4>1. ASSUME NEW p \in used PROVE p.age # <<-1>>
        <5>1. <<>> # <<-1>> /\ \A n \in Nat : <<n>> # <<-1>>
          OBVIOUS
        <5>2. p.age \in Ages
          BY <1>2 DEF Policies
        <5> QED
          BY ONLY <5>1, <5>2 DEF Ages
      <4> HIDE DEF used
      <4> QED
        BY ONLY <4>1, -1 \in Int DEF AgesOf
    <3>2. -1 \in AgesOf(used) => c.age = <<-1>>
      <4>1. SUFFICES ASSUME -1 \in AgesOf(used) PROVE c.age = <<-1>>
        OBVIOUS
      <4>2. PICK n \in AgesOf(used) : c.age = <<n>> /\ \A m \in AgesOf(used) : n <= m
        BY <1>1, <4>1 DEF SumsUp
      <4>3. n <= -1 /\ n \in Nat \cup {-1}
        BY <1>3, <4>1, <4>2
      <4>4. n = -1
        BY ONLY <4>3
      <4> QED
        BY <4>2, <4>4
    <3>3. c.age = <<-1>> => -1 \in AgesOf(used)
      <4>1. SUFFICES ASSUME c.age = <<-1>> PROVE -1 \in AgesOf(used)
        OBVIOUS
      <4>2. PICK n \in AgesOf(used) : c.age = <<n>>
        BY <1>1, <4>1 DEF SumsUp
      <4> QED
        BY <4>1, <4>2
    <3> HIDE DEF used, c
    <3> QED
      BY <3>1, <3>2, <3>3
  <2>3. ASSUME NEW p \in used, p.age # <<>>
        PROVE  c.age # <<>> /\ c.age[1] <= p.age[1]
    <3>1. p.age = <<p.age[1]>> /\ p.age[1] \in Nat
      BY <1>2, <2>3 DEF Policies, Ages
    <3>2. p.age[1] \in AgesOf(used)
      BY <3>1 DEF AgesOf
    <3> QED
      BY <1>1, <3>2 DEF SumsUp
  <2>4. c.public <=> \A p \in used : p.scope # "private"
    BY <1>1 DEF SumsUp
  <2> HIDE DEF own, header, c, used
  <2>5. header # <<>> <=> ~(own.age = 0 /\ own.public)
    BY <1>7
  <2>6. header # <<>> => header[1] = own
    BY <1>7
  <2>7. own.age = -1 <=> c.age = <<-1>>
    <3>1. CASE c.age = <<>>
      BY <2>1, <3>1
    <3>2. ASSUME NEW n \in Nat \cup {-1}, c.age = <<n>> PROVE own.age = -1 <=> c.age = <<-1>>
      <4>1. own.age = n
        BY <2>1, <3>2
      <4> QED
        BY ONLY <3>2, <4>1
    <3> QED
      BY <1>4, <3>1, <3>2
  <2> QED
    BY <2>1, <2>2, <2>3, <2>4, <2>5, <2>6, <2>7
<1>10. {p \in Handler!ToSet(policies) : p.success} = used
  BY DEF Successes, Handler!ToSet, ToSet
<1> QED
  BY <1>7, <1>8, <1>9, <1>10 DEF Handler!CacheNoLonger, Handler!CachedAsAllowed

-----------------------------------------------------------------------------
(* Which endpoint a path is for, and with what.                             *)

\* Path::matches(): a path that matches begins an instance of the pattern.
LEMMA MatchesInstances ==
    ASSUME NEW V, NEW S, NEW segments \in Seq(S), NEW e, e.path \in Seq(V)
    PROVE  Handler!PathMatches(e, segments) <=> Handler!Instances(e, segments) # {}
<1> DEFINE n == Len(segments)
<1>1. /\ n \in Nat /\ DOMAIN segments = 1..n
      /\ Len(e.path) \in Nat /\ DOMAIN e.path = 1..Len(e.path)
  BY LenProperties
<1>2. ASSUME Handler!PathMatches(e, segments) PROVE Handler!Instances(e, segments) # {}
  <2> DEFINE v == [i \in Handler!Params(e) |-> IF i <= n THEN segments[i] ELSE <<>>]
  <2>1. v \in [Handler!Params(e) -> ToSet(segments) \cup {<<>>}]
    <3>1. ASSUME NEW i \in Handler!Params(e), i <= n PROVE segments[i] \in ToSet(segments)
      <4>1. i \in 1..n
        BY <1>1, <3>1 DEF Handler!Params
      <4> QED
        BY <1>1, <4>1 DEF ToSet
    <3> QED
      BY <3>1
  <2>2. n <= Len(e.path)
    BY <1>2 DEF Handler!PathMatches
  <2>3. ASSUME NEW i \in 1..n
        PROVE  IF i \in Handler!Params(e)
               THEN v[i] = segments[i] /\ Handler!Typed(e.types[e.path[i][2]], segments[i])
               ELSE e.path[i] = segments[i]
    <3>1. i \in DOMAIN e.path /\ i <= n /\ i \in DOMAIN segments
      BY <1>1, <2>2
    <3>2. IF e.path[i][1] = "$" THEN Handler!Typed(e.types[e.path[i][2]], segments[i])
          ELSE e.path[i] = segments[i]
      BY <1>2, <3>1 DEF Handler!PathMatches
    <3>3. i \in Handler!Params(e) <=> e.path[i][1] = "$"
      BY <3>1 DEF Handler!Params
    <3> QED
      BY <3>1, <3>2, <3>3
  <2> HIDE DEF v
  <2>4. v \in Handler!Instances(e, segments)
    BY <2>1, <2>2, <2>3 DEF Handler!Instances, Handler!ToSet, ToSet
  <2> QED
    BY <2>4
<1>3. ASSUME NEW v \in Handler!Instances(e, segments) PROVE Handler!PathMatches(e, segments)
  <2>1. n <= Len(e.path)
    BY <1>3 DEF Handler!Instances
  <2>2. ASSUME NEW i \in DOMAIN segments
        PROVE  IF e.path[i][1] = "$" THEN Handler!Typed(e.types[e.path[i][2]], segments[i])
               ELSE e.path[i] = segments[i]
    <3>1. i \in 1..n /\ i \in DOMAIN e.path
      BY <1>1, <2>1
    <3>2. i \in Handler!Params(e) <=> e.path[i][1] = "$"
      BY <3>1 DEF Handler!Params
    <3> QED
      BY <1>3, <3>1, <3>2 DEF Handler!Instances
  <2> QED
    BY <2>1, <2>2 DEF Handler!PathMatches
<1> QED
  BY <1>2, <1>3

\* Variables that are an endpoint's path's, but for the one the body is put into.
OfItsPlaces(e, segments, vars) ==
    LET places == Handler!Params(e) \cap 1..Len(segments)
    IN  /\ e.body = <<>> => DOMAIN vars = Handler!NamesAt(e, places)
        /\ \A name \in DOMAIN vars : e.body # <<name>> =>
              \E k \in places : e.path[k][2] = name /\ vars[name] = segments[k]

\* into_request(): a variable that is not the body's is a segment in a place of its name.
LEMMA VariablesOfPath ==
    ASSUME NEW V, NEW S, NEW e, e.path \in Seq(V), NEW r, r.query = Handler!NoHeaders,
           Handler!Segments(r.path) \in Seq(S), Len(Handler!Segments(r.path)) <= Len(e.path),
           NEW Data, e.body \in Optional(Data)
    PROVE  OfItsPlaces(e, Handler!Segments(r.path), Handler!Variables(e, r))
<1> DEFINE segments == Handler!Segments(r.path)
           last == Len(segments)
           places == Handler!Params(e) \cap 1..last
           names == Handler!NamesAt(e, places)
           path == Handler!PathVariables(e, segments)
           query == Handler!QueryVariables(e, r.query)
           body == IF e.body = <<>> THEN Handler!NoHeaders ELSE Handler!Header(e.body[1], r.body[1])
           vars == Handler!Variables(e, r)
<1>1. /\ last \in Nat /\ DOMAIN segments = 1..last
      /\ Len(e.path) \in Nat /\ DOMAIN e.path = 1..Len(e.path) /\ last <= Len(e.path)
  BY LenProperties
<1>2. {i \in DOMAIN segments : i <= Len(e.path) /\ e.path[i][1] = "$"} = places
  BY <1>1 DEF Handler!Params
<1>3. DOMAIN path = names
  BY <1>2 DEF Handler!PathVariables, Handler!NamesAt
<1>4. ASSUME NEW name \in names
      PROVE  \E k \in places : e.path[k][2] = name /\ path[name] = segments[k]
  <2> DEFINE K == {k \in places : e.path[k][2] = name}
             at == CHOOSE i \in places : e.path[i][2] = name /\ \A j \in places : e.path[j][2] = name => j <= i
  <2>1. K # {} /\ K \subseteq 0..last
    BY <1>1 DEF Handler!NamesAt
  <2>2. PICK k \in K : \A j \in K : j <= k
    <3> HIDE DEF K
    <3> QED
      BY <1>1, <2>1, GreatestNatural
  <2>3. at \in places /\ e.path[at][2] = name
    BY <2>2
  <2>4. path[name] = segments[at]
    BY <1>2, <1>4 DEF Handler!PathVariables, Handler!NamesAt
  <2> HIDE DEF at
  <2> QED
    BY <2>3, <2>4
<1>5. DOMAIN query = {}
  <2>1. DOMAIN r.query = {}
    BY DEF Handler!NoHeaders
  <2> QED
    BY <2>1 DEF Handler!QueryVariables
<1>6. vars = Handler!Over(body, Handler!Over(query, path))
  BY DEF Handler!Variables
<1>7. /\ DOMAIN Handler!Over(query, path) = names
      /\ \A name \in names : Handler!Over(query, path)[name] = path[name]
  <2> HIDE DEF query, path, names
  <2> QED
    BY <1>3, <1>5 DEF Handler!Over
<1>8. DOMAIN body = IF e.body = <<>> THEN {} ELSE {e.body[1]}
  BY DEF Handler!NoHeaders, Handler!Header
<1>9. /\ DOMAIN vars = DOMAIN body \cup names
      /\ \A name \in names \ DOMAIN body : vars[name] = path[name]
  <2> HIDE DEF body, query, path, names, vars
  <2> QED
    BY <1>6, <1>7 DEF Handler!Over
<1>10. ASSUME NEW name \in DOMAIN vars, e.body # <<name>> PROVE name \in names \ DOMAIN body
  <2> HIDE DEF body, names, vars
  <2> QED
    BY <1>8, <1>9, <1>10 DEF Optional
<1>11. e.body = <<>> => DOMAIN vars = names
  <2> HIDE DEF body, names, vars
  <2> QED
    BY <1>8, <1>9
<1>12. ASSUME NEW name \in DOMAIN vars, e.body # <<name>>
       PROVE  \E k \in places : e.path[k][2] = name /\ vars[name] = segments[k]
  <2>1. name \in names /\ vars[name] = path[name]
    <3> HIDE DEF body, names, vars, path
    <3> QED
      BY <1>9, <1>10, <1>12
  <2> HIDE DEF names, vars, path
  <2> QED
    BY <1>4, <2>1
<1> HIDE DEF vars
<1> QED
  BY <1>11, <1>12 DEF vars, OfItsPlaces

\* What a server is asked, and what it is configured with.
Requests(P, Data) ==
    [method : Data, path : Seq(P), query : Data, origin : Optional(Data), private : BOOLEAN,
     body : Optional(Data)]
Operations(V, Data) ==
    [name : Data, types : Data,
     rest : Optional([method : Data, path : Seq(V), query : Data, body : Optional(Data)])]
Servers(P, V, Data) ==
    [operations : Seq(Operations(V, Data)), cors : Optional(Data), graphql : Seq(P), status : Seq(P),
     metrics : Seq(P), showcase : BOOLEAN, spa : BOOLEAN, headers : Data]

\* EndpointSet: the endpoints are in order and of their operations' patterns.
LEMMA EndpointsTyped ==
    ASSUME NEW V, NEW Data, NEW ops \in Seq(Operations(V, Data))
    PROVE  /\ DOMAIN Handler!EndpointSet(ops) \subseteq Nat
           /\ \A i \in DOMAIN Handler!EndpointSet(ops) :
                 /\ Handler!EndpointSet(ops)[i].path \in Seq(V)
                 /\ Handler!EndpointSet(ops)[i].body \in Optional(Data)
<1>1. DOMAIN ops = 1..Len(ops) /\ Len(ops) \in Nat /\ \A i \in DOMAIN ops : ops[i] \in Operations(V, Data)
  BY LenProperties, ElementOfSeq
<1>2. DOMAIN Handler!EndpointSet(ops) = {i \in DOMAIN ops : ops[i].rest # <<>>}
  BY DEF Handler!EndpointSet
<1>3. ASSUME NEW i \in DOMAIN ops, ops[i].rest # <<>>
      PROVE  /\ Handler!EndpointSet(ops)[i].path = ops[i].rest[1].path
             /\ Handler!EndpointSet(ops)[i].body = ops[i].rest[1].body
             /\ ops[i].rest[1].path \in Seq(V) /\ ops[i].rest[1].body \in Optional(Data)
  <2> DEFINE R == [method : Data, path : Seq(V), query : Data, body : Optional(Data)]
  <2>1. ops[i].rest \in Optional(R)
    BY <1>1 DEF Operations
  <2>2. PICK r \in R : ops[i].rest = <<r>>
    BY <1>3, <2>1 DEF Optional
  <2>3. ops[i].rest[1].path \in Seq(V) /\ ops[i].rest[1].body \in Optional(Data)
    BY <2>2
  <2> QED
    BY <1>3, <2>3 DEF Handler!EndpointSet
<1> QED
  BY <1>1, <1>2, <1>3

\* EndpointSet::matches(): the endpoint found is the first that matches, and fails if it
\* is to read a body that it cannot.
LEMMA FirstFound ==
    ASSUME NEW E, DOMAIN E \subseteq Nat, NEW r
    PROVE  \/ /\ Handler!FirstMatch(E, r) = <<"not_found">>
              /\ \A i \in DOMAIN E : ~Handler!EndpointMatches(E[i], r)
           \/ \E i \in DOMAIN E :
                 /\ Handler!EndpointMatches(E[i], r)
                 /\ \A j \in DOMAIN E : j < i => ~Handler!EndpointMatches(E[j], r)
                 /\ Handler!FirstMatch(E, r) = IF Handler!Readable(E[i], r)
                                               THEN <<"rest", E[i].op, Handler!Variables(E[i], r)>>
                                               ELSE <<"error">>
<1> DEFINE M == {i \in DOMAIN E : Handler!EndpointMatches(E[i], r)}
<1>1. CASE M = {}
  BY <1>1 DEF Handler!FirstMatch
<1>2. CASE M # {}
  <2>1. PICK i \in M : \A j \in M : i <= j
    <3>1. M \subseteq Nat
      OBVIOUS
    <3> HIDE DEF M
    <3> QED
      BY <1>2, <3>1, LeastNatural
  <2>2. Handler!Min(M) \in M /\ \A j \in M : Handler!Min(M) <= j
    <3> HIDE DEF M
    <3> QED
      BY <2>1 DEF Handler!Min
  <2> DEFINE k == Handler!Min(M)
  <2>3. k \in DOMAIN E /\ Handler!EndpointMatches(E[k], r)
    BY <2>2
  <2>4. ASSUME NEW j \in DOMAIN E, j < k PROVE ~Handler!EndpointMatches(E[j], r)
    <3>1. j \notin M
      <4>1. k \in Nat /\ j \in Nat
        BY <2>3
      <4> HIDE DEF M
      <4> QED
        BY <2>2, <2>4, <4>1
    <3> QED
      BY <3>1
  <2>5. Handler!FirstMatch(E, r) = IF Handler!Readable(E[k], r)
                                   THEN <<"rest", E[k].op, Handler!Variables(E[k], r)>>
                                   ELSE <<"error">>
    BY <1>2 DEF Handler!FirstMatch
  <2> HIDE DEF k, M
  <2> QED
    BY <2>3, <2>4, <2>5
<1> QED
  BY <1>1, <1>2

\* str::parse::<Uri>(): what is left of a path, if it is a URI, is the path it is matched by.
LEMMA UriOfLeft ==
    ASSUME NEW path
    PROVE  Handler!ParseUri(Handler!Stripped(path)) =
              IF Handler!NoUri(path) THEN <<>> ELSE <<Handler!Left(path)>>
<1> DEFINE text == Handler!Stripped(path)
<1>1. CASE text = <<>>
  BY <1>1 DEF Handler!ParseUri, Handler!NoUri
<1>2. CASE text # <<>> /\ text[1] = "/"
  BY <1>2 DEF Handler!ParseUri, Handler!NoUri, Handler!Left
<1>3. CASE text # <<>> /\ text[1] # "/"
  BY <1>3 DEF Handler!ParseUri, Handler!NoUri, Handler!Left
<1> QED
  BY <1>1, <1>2, <1>3

\* handle_rest_apis(): endpoints are asked with the path that is left, if it is a URI.
LEMMA LeftToRest ==
    ASSUME NEW server, NEW request
    PROVE  Handler!Rest(server, request) =
              IF Handler!NoUri(request.path) THEN <<"error">>
              ELSE Handler!FirstMatch(Handler!EndpointSet(server.operations),
                      [request EXCEPT !.path = Handler!Left(request.path), !.query = Handler!NoHeaders])
<1> DEFINE uri == Handler!ParseUri(Handler!Stripped(request.path))
           left == Handler!Left(request.path)
           asked(path) == [request EXCEPT !.path = path, !.query = Handler!NoHeaders]
           answer(r) == Handler!FirstMatch(Handler!EndpointSet(server.operations), r)
<1>1. Handler!Rest(server, request) = IF uri = <<>> THEN <<"error">> ELSE answer(asked(uri[1]))
  BY DEF Handler!Rest
<1>2. uri = IF Handler!NoUri(request.path) THEN <<>> ELSE <<left>>
  BY UriOfLeft
<1>3. <<left>> # <<>> /\ <<left>>[1] = left
  OBVIOUS
<1>4. asked(<<left>>[1]) = asked(left)
  BY <1>3
<1> HIDE DEF uri, left, asked, answer
<1>5. Handler!Rest(server, request) =
         IF Handler!NoUri(request.path) THEN <<"error">> ELSE answer(asked(left))
  BY <1>1, <1>2, <1>3, <1>4
<1> QED
  BY <1>5 DEF left, asked, answer

\* handle_request_inner(): a request goes below /api or to a route that is named.
LEMMA Routed ==
    ASSUME NEW server, NEW request
    PROVE  LET api == Len(request.path) > 1 /\ Handler!IsApi(request.path, 1)
               route == Handler!Route(server, request)
           IN  /\ api => route = Handler!Rest(server, request)
               /\ ~api => route \in {<<"graphql">>, <<"showcase">>, <<"status">>, <<"metrics">>, <<"spa">>,
                                     <<"not_found">>}
<1> DEFINE api == Len(request.path) > 1 /\ Handler!IsApi(request.path, 1)
<1>1. CASE api
  BY <1>1 DEF Handler!Route
<1>2. CASE ~api
  BY <1>2 DEF Handler!Route
<1> QED
  BY <1>1, <1>2

\* Endpoint::matches(): what is matched is the method, the path and the query, and what is
\* answered with has the body besides.
LEMMA SameMatch ==
    ASSUME NEW E, NEW r, NEW q,
           r.method = q.method, r.path = q.path, r.query = q.query, r.body = q.body
    PROVE  Handler!FirstMatch(E, r) = Handler!FirstMatch(E, q)
<1>1. \A e : Handler!EndpointMatches(e, r) <=> Handler!EndpointMatches(e, q)
  BY DEF Handler!EndpointMatches
<1>2. \A e : /\ Handler!Variables(e, r) = Handler!Variables(e, q)
             /\ Handler!Readable(e, r) <=> Handler!Readable(e, q)
  BY DEF Handler!Variables, Handler!Readable
<1>3. {i \in DOMAIN E : Handler!EndpointMatches(E[i], r)}
         = {i \in DOMAIN E : Handler!EndpointMatches(E[i], q)}
  BY <1>1
<1> QED
  BY <1>2, <1>3 DEF Handler!FirstMatch

\* Cors::header_values(): an origin that is allowed is told so, and no other one is named.
LEMMA OriginTold ==
    ASSUME NEW cors, NEW request, NEW o, request.origin = <<o>>
    PROVE  LET headers == Handler!CorsHeaders(cors, request)
               allowed == o \in ToSet(cors.origins) \/ "*" \in ToSet(cors.origins)
           IN  /\ allowed => Handler!Tells(headers, o)
               /\ ~allowed => "allow-origin" \notin DOMAIN headers
<1> DEFINE allowed == o \in ToSet(cors.origins) \/ "*" \in ToSet(cors.origins)
           credentials == IF cors.credentials THEN Handler!Header("allow-credentials", "true") ELSE Handler!NoHeaders
           private == IF cors.private /\ request.private THEN Handler!Header("allow-private-network", "true")
                      ELSE Handler!NoHeaders
           methods == IF request.method = "OPTIONS"
                      THEN Handler!Over(Handler!Header("allow-methods", IF cors.methods = <<>> THEN <<"*">> ELSE cors.methods),
                                IF cors.headers = <<>> THEN Handler!NoHeaders ELSE Handler!Header("allow-headers", cors.headers))
                      ELSE Handler!Header("expose-headers", cors.expose)
           origin == Handler!AllowOrigin(cors, request.origin)
           rest == Handler!Over(credentials, Handler!Over(private, methods))
           headers == Handler!CorsHeaders(cors, request)
<1>1. "allow-origin" \notin DOMAIN rest
  <2>1. \A a, b : /\ "allow-origin" \notin DOMAIN a /\ "allow-origin" \notin DOMAIN b
                 => "allow-origin" \notin DOMAIN Handler!Over(a, b)
    BY ONLY DEF Handler!Over
  <2>2. /\ \A x : "allow-origin" \notin DOMAIN Handler!Header("allow-credentials", x)
        /\ \A x : "allow-origin" \notin DOMAIN Handler!Header("allow-private-network", x)
        /\ \A x : "allow-origin" \notin DOMAIN Handler!Header("allow-methods", x)
        /\ \A x : "allow-origin" \notin DOMAIN Handler!Header("allow-headers", x)
        /\ \A x : "allow-origin" \notin DOMAIN Handler!Header("expose-headers", x)
        /\ "allow-origin" \notin DOMAIN Handler!NoHeaders
    BY ONLY DEF Handler!Header, Handler!NoHeaders
  <2>3. "allow-origin" \notin DOMAIN credentials
    BY ONLY <2>2
  <2>4. "allow-origin" \notin DOMAIN private
    BY ONLY <2>2
  <2> DEFINE a == Handler!Header("allow-methods", IF cors.methods = <<>> THEN <<"*">> ELSE cors.methods)
             b == IF cors.headers = <<>> THEN Handler!NoHeaders ELSE Handler!Header("allow-headers", cors.headers)
             c == Handler!Header("expose-headers", cors.expose)
  <2>5. "allow-origin" \notin DOMAIN a
    BY ONLY <2>2
  <2>6. "allow-origin" \notin DOMAIN b
    BY ONLY <2>2
  <2>7. "allow-origin" \notin DOMAIN c
    BY ONLY <2>2
  <2>8. methods = IF request.method = "OPTIONS" THEN Handler!Over(a, b) ELSE c
    OBVIOUS
  <2> HIDE DEF credentials, private, methods, a, b, c
  <2>9. "allow-origin" \notin DOMAIN methods
    BY ONLY <2>1, <2>5, <2>6, <2>7, <2>8
  <2> QED
    BY ONLY <2>1, <2>3, <2>4, <2>9 DEF rest
<1>2. headers = Handler!Over(origin, rest)
  BY DEF Handler!CorsHeaders
<1>3. ToSet(request.origin) = {o}
  <2>1. DOMAIN <<o>> = {1} /\ <<o>>[1] = o
    OBVIOUS
  <2> QED
    BY ONLY <2>1, request.origin = <<o>> DEF ToSet
<1>4. origin = IF allowed THEN Handler!Header("allow-origin", o) ELSE Handler!NoHeaders
  <2>1. Handler!Given("allow-origin", request.origin) = Handler!Header("allow-origin", o)
    <3>1. request.origin # <<>> /\ request.origin[1] = o
      OBVIOUS
    <3> QED
      BY ONLY <3>1 DEF Handler!Given
  <2>2. ToSet(request.origin) \subseteq ToSet(cors.origins) <=> o \in ToSet(cors.origins)
    BY <1>3
  <2>3. \A s : Handler!ToSet(s) = ToSet(s)
    BY DEF Handler!ToSet, ToSet
  <2> QED
    BY <2>1, <2>2, <2>3 DEF Handler!AllowOrigin
<1>5. allowed => Handler!Tells(headers, o)
  <2>1. SUFFICES ASSUME allowed PROVE Handler!Tells(headers, o)
    OBVIOUS
  <2>2. origin = Handler!Header("allow-origin", o)
    BY <1>4, <2>1
  <2> HIDE DEF rest, headers, origin
  <2>3. "allow-origin" \in DOMAIN origin /\ origin["allow-origin"] = o
    BY <2>2 DEF Handler!Header
  <2> QED
    BY <1>2, <2>3 DEF Handler!Tells, Handler!Over
<1>6. ~allowed => "allow-origin" \notin DOMAIN headers
  <2>1. SUFFICES ASSUME ~allowed PROVE "allow-origin" \notin DOMAIN headers
    OBVIOUS
  <2>2. origin = Handler!NoHeaders
    BY <1>4, <2>1
  <2> HIDE DEF rest, headers, origin
  <2> QED
    BY ONLY <1>1, <1>2, <2>2 DEF Handler!Over, Handler!NoHeaders
<1> HIDE DEF headers
<1> QED
  BY <1>5, <1>6 DEF headers

\* Over(): what headers are put over tells an origin only what they leave to it.
LEMMA ToldOver ==
    ASSUME NEW a, NEW b, NEW o
    PROVE  /\ Handler!Tells(a, o) => Handler!Tells(Handler!Over(a, b), o)
           /\ "allow-origin" \notin DOMAIN a => (Handler!Tells(Handler!Over(a, b), o) <=> Handler!Tells(b, o))
<1>1. DOMAIN Handler!Over(a, b) = DOMAIN a \cup DOMAIN b
  BY DEF Handler!Over
<1>2. \A n \in DOMAIN a \cup DOMAIN b : Handler!Over(a, b)[n] = IF n \in DOMAIN a THEN a[n] ELSE b[n]
  BY DEF Handler!Over
<1> QED
  BY ONLY <1>1, <1>2 DEF Handler!Tells

\* An answer and what it was made of: a preflight has no route, and the origin is told to be
\* allowed if it is, or the inner answer tells it, and nothing of an error is.
CorsAdded(server, request, inner, answer) ==
    LET preflight == request.method = "OPTIONS" /\
                     (server.cors # <<>> \/ request.origin = <<"gqlforge">>)
        allowed == IF server.cors = <<>> THEN {"gqlforge"} ELSE ToSet(server.cors[1].origins)
    IN  /\ answer.route = IF preflight THEN <<>> ELSE inner.route
        /\ request.origin # <<>> =>
              (Handler!Tells(answer.headers, request.origin[1]) <=>
                 /\ answer.route # <<"error">>
                 /\ \/ request.origin[1] \in allowed \/ "*" \in allowed
                    \/ ~preflight /\ Handler!Tells(inner.headers, request.origin[1]))

\* handle_request(): what CORS adds to an answer, and takes from a preflight's.
LEMMA HandledWithCors ==
    ASSUME NEW P, NEW V, NEW Data, NEW server \in Servers(P, V, Data),
           NEW request \in Requests(P, Data), NEW inner,
           inner = [route |-> inner.route, headers |-> inner.headers],
           inner.route = <<"error">> => inner.headers = Handler!NoHeaders
    PROVE  CorsAdded(server, request, inner, Handler!WithCors(server, request, inner))
<1> DEFINE answer == Handler!WithCors(server, request, inner)
           options == request.method = "OPTIONS"
           failed == inner.route = <<"error">>
           own == request.origin = <<"gqlforge">>
           preflight == options /\ (server.cors # <<>> \/ own)
           allowed == IF server.cors = <<>> THEN {"gqlforge"} ELSE ToSet(server.cors[1].origins)
           o == request.origin[1]
           Headers == IF server.cors # <<>> THEN Handler!CorsHeaders(server.cors[1], request)
                      ELSE Handler!Header("allow-origin", "gqlforge")
           With == Handler!WithHeaders(inner, request, Headers)
<1>1. ASSUME request.origin # <<>> PROVE request.origin = <<o>>
  <2>1. request.origin \in Optional(Data)
    BY DEF Requests
  <2> QED
    BY <1>1, <2>1 DEF Optional
<1>2. answer = IF server.cors # <<>> \/ own THEN With ELSE inner
  BY DEF Handler!WithCors
<1>3. /\ With.route = IF options THEN <<>> ELSE inner.route
      /\ With.headers = IF options THEN Headers
                         ELSE IF failed THEN inner.headers ELSE Handler!Over(Headers, inner.headers)
  <2> HIDE DEF Headers
  <2>1. CASE options
    BY <2>1 DEF Handler!WithHeaders
  <2>2. CASE ~options /\ failed
    BY <2>2 DEF Handler!WithHeaders
  <2>3. CASE ~options /\ ~failed
    <3>1. With = [inner EXCEPT !.headers = Handler!Over(Headers, @)]
      BY <2>3 DEF Handler!WithHeaders
    <3>2. With = [route |-> inner.route, headers |-> Handler!Over(Headers, inner.headers)]
      <4>1. inner = [route |-> inner.route, headers |-> inner.headers]
        OBVIOUS
      <4> DEFINE r == inner.route
                 h == inner.headers
                 new == Handler!Over(Headers, h)
      <4>2. inner = [route |-> r, headers |-> h] /\ With = [inner EXCEPT !.headers = new]
        BY <3>1
      <4> HIDE DEF r, h, new, With
      <4>3. With = [route |-> r, headers |-> new]
        BY ONLY <4>2
      <4> QED
        BY <4>3 DEF r, h, new
    <3> HIDE DEF With
    <3> QED
      BY <2>3, <3>2
  <2> QED
    BY <2>1, <2>2, <2>3
<1>4. answer.route = IF preflight THEN <<>> ELSE inner.route
  <2> HIDE DEF With, answer
  <2> QED
    BY <1>2, <1>3
<1>5. ASSUME request.origin # <<>>, server.cors # <<>> \/ own
      PROVE  /\ o \in allowed \/ "*" \in allowed => Handler!Tells(Headers, o)
             /\ ~(o \in allowed \/ "*" \in allowed) => "allow-origin" \notin DOMAIN Headers
  <2>1. CASE server.cors # <<>>
    <3>1. allowed = ToSet(server.cors[1].origins) /\ Headers = Handler!CorsHeaders(server.cors[1], request)
      BY <2>1
    <3> HIDE DEF allowed, Headers, o
    <3> QED
      BY <1>1, <1>5, <3>1, OriginTold
  <2>2. CASE server.cors = <<>>
    <3>1. o = "gqlforge" /\ Headers = Handler!Header("allow-origin", "gqlforge")
      BY <1>5, <2>2
    <3> HIDE DEF Headers, o
    <3>2. Handler!Tells(Headers, o)
      BY <3>1 DEF Handler!Tells, Handler!Header
    <3>3. o \in allowed
      BY <2>2, <3>1
    <3> QED
      BY <3>2, <3>3
  <2> QED
    BY <2>1, <2>2
<1>6. ASSUME request.origin # <<>>
      PROVE  Handler!Tells(answer.headers, o) <=>
                /\ answer.route # <<"error">>
                /\ \/ o \in allowed \/ "*" \in allowed
                   \/ ~preflight /\ Handler!Tells(inner.headers, o)
  <2>1. failed => ~Handler!Tells(inner.headers, o)
    BY DEF Handler!NoHeaders, Handler!Tells
  <2>2. CASE ~(server.cors # <<>> \/ own)
    <3>1. answer = inner /\ ~preflight
      BY <1>2, <2>2
    <3>2. ~(o \in allowed) /\ "*" \notin allowed
      <4>1. allowed = {"gqlforge"} /\ request.origin = <<o>> /\ request.origin # <<"gqlforge">>
        BY <1>1, <1>6, <2>2
      <4> HIDE DEF allowed, o
      <4> QED
        BY ONLY <4>1
    <3> HIDE DEF answer, preflight, allowed, o
    <3> QED
      BY <2>1, <3>1, <3>2
  <2>3. CASE server.cors # <<>> \/ own
    <3>1. /\ answer.headers = IF options THEN Headers
                              ELSE IF failed THEN inner.headers ELSE Handler!Over(Headers, inner.headers)
          /\ preflight <=> options
          /\ answer.route = <<"error">> <=> ~options /\ failed
      <4>1. <<>> # <<"error">>
        OBVIOUS
      <4> HIDE DEF With, answer, Headers
      <4> QED
        BY <1>2, <1>3, <2>3, <4>1
    <3>2. /\ o \in allowed \/ "*" \in allowed => Handler!Tells(Headers, o)
          /\ ~(o \in allowed \/ "*" \in allowed) => "allow-origin" \notin DOMAIN Headers
      BY <1>5, <1>6, <2>3
    <3> HIDE DEF answer, preflight, allowed, Headers, options, failed, o
    <3>3. /\ Handler!Tells(Headers, o) => Handler!Tells(Handler!Over(Headers, inner.headers), o)
          /\ "allow-origin" \notin DOMAIN Headers =>
                (Handler!Tells(Handler!Over(Headers, inner.headers), o) <=> Handler!Tells(inner.headers, o))
      BY ToldOver
    <3>4. "allow-origin" \notin DOMAIN Headers => ~Handler!Tells(Headers, o)
      BY DEF Handler!Tells
    <3> QED
      BY <2>1, <3>1, <3>2, <3>3, <3>4
  <2> QED
    BY <2>2, <2>3
<1> HIDE DEF answer
<1>7. CorsAdded(server, request, inner, answer)
  BY <1>4, <1>6 DEF CorsAdded
<1> QED
  BY <1>7 DEF answer

\* handle_request(), EndpointSet::matches(): any request is answered by the first endpoint
\* what is left of its path begins an instance of, with that instance's values, and fails
\* exactly if nothing is left that is a URI or that endpoint cannot read its body,
\* whatever CORS allows its origin.
THEOREM AnyRequestIsAnswered ==
    ASSUME NEW P, NEW V, NEW Data, NEW server \in Servers(P, V, Data),
           NEW request \in Requests(P, Data), NEW upstream
    PROVE  Handler!RequestIsAnswered(server, request, upstream)
<1> DEFINE segments == Handler!Segments(Handler!Left(request.path))
           n == Len(segments)
           E == Handler!EndpointSet(server.operations)
           stripped == [request EXCEPT !.path = Handler!Left(request.path), !.query = Handler!NoHeaders]
           nowhere == Handler!NoUri(request.path)
           fits(i) == Handler!Fits(E[i], request.method, segments)
           answers(i) == Handler!Answering(E, request.method, segments, i)
           unread(i) == E[i].body # <<>> /\ request.body = <<>>
           route == Handler!Route(server, request)
           inner == [route |-> route, headers |-> Handler!Answered(server, request, upstream)]
           answer == Handler!Handle(server, request, upstream)
           server1 == [server EXCEPT !.cors = <<>>]
           request1 == [request EXCEPT !.origin = <<>>]
           bare == Handler!Handle(server1, request1, upstream)
           preflight == request.method = "OPTIONS" /\
                        (server.cors # <<>> \/ request.origin = <<"gqlforge">>)
           allowed == IF server.cors = <<>> THEN {"gqlforge"} ELSE ToSet(server.cors[1].origins)
           found(i) ==
              /\ answers(i)
              /\ route[2] = E[i].op
              /\ Handler!AnsweredWith(E[i], segments, route[3])
           api == Len(request.path) > 1 /\ Handler!IsApi(request.path, 1)
<1>1. segments \in Seq(Seq(P))
  <2>1. request.path \in Seq(P)
    BY DEF Requests
  <2>2. Handler!Left(request.path) \in Seq(P)
    BY <2>1, StrippedTyped DEF Handler!Left
  <2> QED
    BY <2>2, SegmentsTyped
<1>2. /\ DOMAIN E \subseteq Nat
      /\ \A i \in DOMAIN E : E[i].path \in Seq(V) /\ E[i].body \in Optional(Data)
  <2>1. server.operations \in Seq(Operations(V, Data))
    BY DEF Servers
  <2> QED
    BY <2>1, EndpointsTyped
<1>3. /\ stripped.method = request.method /\ stripped.query = Handler!NoHeaders
      /\ stripped.path = Handler!Left(request.path) /\ stripped.body = request.body
  BY DEF Requests
<1>4. ASSUME NEW i \in DOMAIN E PROVE Handler!EndpointMatches(E[i], stripped) <=> fits(i)
  <2>1. Handler!QueryMatches(E[i], stripped.query)
    BY <1>3 DEF Handler!QueryMatches, Handler!NoHeaders
  <2>2. Handler!PathMatches(E[i], segments) <=> Handler!Instances(E[i], segments) # {}
    BY <1>1, <1>2, MatchesInstances
  <2>3. Handler!Segments(stripped.path) = segments
    BY <1>3
  <2> HIDE DEF stripped, segments, E
  <2> QED
    BY <1>3, <2>1, <2>2, <2>3 DEF Handler!EndpointMatches, Handler!Fits
<1>5. Handler!Rest(server, request) = IF nowhere THEN <<"error">> ELSE Handler!FirstMatch(E, stripped)
  BY LeftToRest
<1>6. /\ route # <<>>
      /\ route[1] = "rest" => api /\ ~nowhere
      /\ api => route = IF nowhere THEN <<"error">> ELSE Handler!FirstMatch(E, stripped)
      /\ ~api => route # <<"error">>
  <2>1. /\ api => route = IF nowhere THEN <<"error">> ELSE Handler!FirstMatch(E, stripped)
        /\ ~api => route \in {<<"graphql">>, <<"showcase">>, <<"status">>, <<"metrics">>, <<"spa">>,
                              <<"not_found">>}
    BY <1>5, Routed
  <2>2. \/ Handler!FirstMatch(E, stripped) \in {<<"not_found">>, <<"error">>}
        \/ \E i \in DOMAIN E : Handler!FirstMatch(E, stripped)
                                  = <<"rest", E[i].op, Handler!Variables(E[i], stripped)>>
    <3> HIDE DEF E, stripped
    <3> QED
      BY <1>2, FirstFound
  <2>3. Handler!FirstMatch(E, stripped) # <<>>
    <3>1. <<"not_found">> # <<>> /\ <<"error">> # <<>> /\ \A x, y : <<"rest", x, y>> # <<>>
      OBVIOUS
    <3> HIDE DEF E, stripped
    <3> QED
      BY <2>2, <3>1
  <2> HIDE DEF route, api, E, stripped, nowhere
  <2> QED
    BY <2>1, <2>3
<1>7. ASSUME api, ~nowhere
      PROVE  \/ route = <<"not_found">> /\ \A i \in DOMAIN E : ~fits(i)
             \/ \E i \in DOMAIN E :
                   /\ answers(i)
                   /\ route = IF unread(i) THEN <<"error">>
                              ELSE <<"rest", E[i].op, Handler!Variables(E[i], stripped)>>
  <2>1. route = Handler!FirstMatch(E, stripped)
    BY <1>6, <1>7
  <2>2. CASE /\ Handler!FirstMatch(E, stripped) = <<"not_found">>
             /\ \A i \in DOMAIN E : ~Handler!EndpointMatches(E[i], stripped)
    BY <1>4, <2>1, <2>2
  <2>3. ASSUME NEW i \in DOMAIN E, Handler!EndpointMatches(E[i], stripped),
               \A m \in DOMAIN E : m < i => ~Handler!EndpointMatches(E[m], stripped),
               Handler!FirstMatch(E, stripped) =
                  IF Handler!Readable(E[i], stripped)
                  THEN <<"rest", E[i].op, Handler!Variables(E[i], stripped)>> ELSE <<"error">>
        PROVE  /\ answers(i)
               /\ route = IF unread(i) THEN <<"error">>
                          ELSE <<"rest", E[i].op, Handler!Variables(E[i], stripped)>>
    <3>1. fits(i) /\ \A m \in DOMAIN E : m < i => ~fits(m)
      BY <1>4, <2>3
    <3>2. answers(i)
      <4> HIDE DEF E, segments
      <4> QED
        BY <3>1 DEF Handler!Answering
    <3>3. Handler!Readable(E[i], stripped) <=> ~unread(i)
      BY <1>3 DEF Handler!Readable
    <3> HIDE DEF answers, route, unread, E, stripped
    <3> QED
      BY <2>1, <2>3, <3>2, <3>3
  <2> HIDE DEF answers, fits, route, unread, E, stripped
  <2> QED
    BY <1>2, <2>2, <2>3, FirstFound
<1>8. ASSUME NEW i \in DOMAIN E, NEW m \in DOMAIN E, answers(i), answers(m) PROVE i = m
  <2>1. i \in Nat /\ m \in Nat
    BY <1>2
  <2> HIDE DEF E, segments
  <2> QED
    BY <1>8, <2>1 DEF Handler!Answering
<1>9. route = <<"error">> <=>
          api /\ (nowhere \/ \E i \in DOMAIN E : answers(i) /\ unread(i))
  <2>1. CASE ~api \/ nowhere
    <3> HIDE DEF route, answers, unread, E, api, nowhere
    <3> QED
      BY <1>6, <2>1
  <2>2. CASE api /\ ~nowhere
    <3>1. <<"not_found">> # <<"error">> /\ \A x, y : <<"rest", x, y>> # <<"error">>
      OBVIOUS
    <3>2. \A i \in DOMAIN E : answers(i) => fits(i)
      BY DEF Handler!Answering
    <3> HIDE DEF route, answers, fits, unread, E, stripped, api, nowhere
    <3> QED
      BY <1>7, <1>8, <2>2, <3>1, <3>2
  <2> QED
    BY <2>1, <2>2
<1>10. bare = inner
  <2>1. /\ server1.operations = server.operations /\ server1.graphql = server.graphql
        /\ server1.status = server.status /\ server1.metrics = server.metrics
        /\ server1.showcase = server.showcase /\ server1.spa = server.spa
        /\ server1.headers = server.headers /\ server1.cors = <<>>
    BY DEF Servers
  <2>2. /\ request1.method = request.method /\ request1.path = request.path
        /\ request1.query = request.query /\ request1.body = request.body
        /\ request1.origin = <<>>
    BY DEF Requests
  <2> DEFINE stripped1 == [request1 EXCEPT !.path = Handler!Left(request.path), !.query = Handler!NoHeaders]
  <2>3. /\ stripped1.method = request.method /\ stripped1.query = Handler!NoHeaders
        /\ stripped1.path = Handler!Left(request.path) /\ stripped1.body = request.body
    BY DEF Requests
  <2>4. Handler!Rest(server1, request1) =
           IF nowhere THEN <<"error">> ELSE Handler!FirstMatch(E, stripped1)
    <3> HIDE DEF request1, server1
    <3> QED
      BY <2>1, <2>2, LeftToRest
  <2>5. Handler!FirstMatch(E, stripped1) = Handler!FirstMatch(E, stripped)
    <3> HIDE DEF stripped, stripped1, E
    <3> QED
      BY <1>3, <2>3, SameMatch
  <2>6. Handler!Rest(server1, request1) = Handler!Rest(server, request)
    <3> HIDE DEF stripped, stripped1, E, server1, request1, nowhere
    <3> QED
      BY <1>5, <2>4, <2>5
  <2> HIDE DEF server1, request1
  <2>7. Handler!Route(server1, request1) = route
    BY <2>1, <2>2, <2>6 DEF Handler!Route
  <2>8. Handler!Answered(server1, request1, upstream) = Handler!Answered(server, request, upstream)
    <3> HIDE DEF route
    <3> QED
      BY <2>1, <2>7 DEF Handler!Answered, route
  <2>9. \A r : Handler!WithCors(server1, request1, r) = r
    <3>1. <<>> # <<"gqlforge">>
      OBVIOUS
    <3> QED
      BY ONLY <2>1, <2>2, <3>1 DEF Handler!WithCors
  <2> QED
    BY <2>7, <2>8, <2>9 DEF Handler!Handle
<1>11. /\ answer.route = IF preflight THEN <<>> ELSE route
       /\ request.origin # <<>> =>
             (Handler!Tells(answer.headers, request.origin[1]) <=>
                /\ answer.route # <<"error">>
                /\ \/ request.origin[1] \in allowed \/ "*" \in allowed
                   \/ ~preflight /\ Handler!Tells(inner.headers, request.origin[1]))
  <2>1. inner = [route |-> inner.route, headers |-> inner.headers] /\ inner.route = route
    OBVIOUS
  <2>2. answer = Handler!WithCors(server, request, inner)
    BY DEF Handler!Handle
  <2>3. inner.route = <<"error">> => inner.headers = Handler!NoHeaders
    <3>1. <<"error">>[1] \notin {"rest", "graphql", "showcase"}
      OBVIOUS
    <3>2. route = <<"error">> => Handler!Answered(server, request, upstream) = Handler!NoHeaders
      BY <3>1 DEF Handler!Answered
    <3> HIDE DEF route
    <3> QED
      BY <3>2
  <2> HIDE DEF inner, answer, route
  <2> QED
    <3>1. CorsAdded(server, request, inner, answer)
      BY <2>1, <2>2, <2>3, HandledWithCors
    <3> QED
      BY <2>1, <3>1 DEF CorsAdded
<1>12. ASSUME route[1] = "rest"
       PROVE  \E i \in DOMAIN E : found(i)
  <2>1. api /\ ~nowhere
    BY <1>6, <1>12
  <2>2. PICK i \in DOMAIN E :
           /\ answers(i)
           /\ route = <<"rest", E[i].op, Handler!Variables(E[i], stripped)>>
    <3>1. <<"not_found">>[1] # "rest" /\ <<"error">>[1] # "rest"
      OBVIOUS
    <3> HIDE DEF E, stripped, route, answers, fits, unread, api, nowhere
    <3> QED
      BY <1>12, <1>7, <2>1, <3>1
  <2> DEFINE e == E[i]
             vars == Handler!Variables(e, stripped)
             places == Handler!Params(e) \cap 1..n
  <2>3. fits(i)
    BY <2>2 DEF Handler!Answering
  <2>4. route[2] = e.op /\ route[3] = vars
    <3> HIDE DEF E, stripped, route
    <3> QED
      BY <2>2
  <2>5. e.path \in Seq(V) /\ e.body \in Optional(Data)
    BY <1>2
  <2>6. Handler!Segments(stripped.path) = segments
    BY <1>3
  <2>7. n <= Len(e.path) /\ n \in Nat /\ DOMAIN e.path = 1..Len(e.path) /\ Len(e.path) \in Nat
    <3>1. n <= Len(e.path)
      <4> HIDE DEF segments, E, e
      <4> QED
        BY <2>3 DEF Handler!Fits, Handler!Instances, e
    <3> QED
      BY <1>1, <2>5, <3>1, LenProperties
  <2>8. /\ e.body = <<>> => DOMAIN vars = Handler!NamesAt(e, places)
        /\ \A name \in DOMAIN vars : e.body # <<name>> =>
              \E k \in places : e.path[k][2] = name /\ vars[name] = segments[k]
    <3> HIDE DEF e, stripped, segments, places
    <3>1. Handler!Segments(stripped.path) \in Seq(Seq(P)) /\ Len(Handler!Segments(stripped.path)) <= Len(e.path)
      BY <1>1, <2>6, <2>7
    <3>2. stripped.query = Handler!NoHeaders
      BY <1>3
    <3>3. OfItsPlaces(e, Handler!Segments(stripped.path), Handler!Variables(e, stripped))
      BY <2>5, <3>1, <3>2, VariablesOfPath
    <3> HIDE DEF vars
    <3> QED
      BY ONLY <2>6, <3>3 DEF vars, places, n, OfItsPlaces
  <2>9. n = Len(e.path) => places = Handler!Params(e)
    BY <2>7 DEF Handler!Params
  <2>10. ASSUME NEW v \in Handler!Instances(e, segments), NEW k \in places PROVE v[k] = segments[k]
    <3>1. k \in Handler!Params(e) /\ k \in 1..Len(segments)
      OBVIOUS
    <3> HIDE DEF segments, e
    <3> QED
      BY <2>10, <3>1 DEF Handler!Instances
  <2>11. ASSUME NEW v \in Handler!Instances(e, segments), NEW name \in DOMAIN vars, e.body # <<name>>
         PROVE  \E k \in places : e.path[k][2] = name /\ vars[name] = v[k]
    <3> HIDE DEF e, vars, places, segments
    <3> QED
      BY <2>8, <2>10, <2>11
  <2>12. n = Len(e.path) /\ e.body = <<>> => DOMAIN vars = Handler!NamesAt(e, Handler!Params(e))
    <3> HIDE DEF e, vars, places, segments
    <3> QED
      BY <2>8, <2>9
  <2>13. Handler!AnsweredWith(e, segments, vars)
    <3> HIDE DEF e, segments, vars
    <3> QED
      BY <2>11, <2>12 DEF Handler!AnsweredWith
  <2>14. found(i)
    <3> HIDE DEF E, segments, vars, route, answers
    <3> QED
      BY <2>2, <2>4, <2>13
  <2> HIDE DEF found, E
  <2> QED
    BY <2>14
<1>13. ASSUME route = <<"not_found">>, api PROVE \A i \in DOMAIN E : ~fits(i)
  <2>1. <<"not_found">> # <<"error">> /\ \A x, y : <<"rest", x, y>> # <<"not_found">>
    OBVIOUS
  <2>2. ~nowhere
    <3> HIDE DEF route, nowhere, api
    <3> QED
      BY <1>6, <1>13, <2>1
  <2> HIDE DEF E, stripped, route, answers, fits, unread, api, nowhere
  <2> QED
    BY <1>13, <1>7, <2>1, <2>2
<1>14. \A s : Handler!ToSet(s) = ToSet(s)
  BY DEF Handler!ToSet, ToSet
<1>15. answer.route = <<>> <=> preflight
  BY <1>6, <1>11
<1> HIDE DEF E, segments, answer, bare, route, inner
<1>16. /\ answer.route # <<>> => answer.route = bare.route
       /\ answer.route # <<>> /\ answer.route[1] = "rest" => \E i \in DOMAIN E : found(i)
       /\ answer.route = <<"not_found">> /\ api => \A i \in DOMAIN E : ~fits(i)
  <2>1. bare.route = route
    BY <1>10 DEF inner
  <2>2. answer.route # <<>> => answer.route = route
    BY <1>11
  <2>3. route[1] = "rest" => \E i \in DOMAIN E : found(i)
    BY <1>12
  <2>4. route = <<"not_found">> /\ api => \A i \in DOMAIN E : ~fits(i)
    BY <1>13
  <2>5. <<"not_found">> # <<>>
    OBVIOUS
  <2>6. ASSUME answer.route # <<>>, answer.route[1] = "rest" PROVE \E i \in DOMAIN E : found(i)
    <3>1. route[1] = "rest"
      BY <2>2, <2>6
    <3> QED
      BY <2>3, <3>1
  <2>7. ASSUME answer.route = <<"not_found">>, api PROVE \A i \in DOMAIN E : ~fits(i)
    <3>1. route = <<"not_found">>
      BY <2>2, <2>5, <2>7
    <3> QED
      BY <2>4, <2>7, <3>1
  <2> QED
    BY <2>1, <2>2, <2>6, <2>7
<1>17. request.origin # <<>> =>
          (Handler!Tells(answer.headers, request.origin[1]) <=>
             /\ answer.route # <<"error">>
             /\ \/ request.origin[1] \in allowed \/ "*" \in allowed
                \/ answer.route # <<>> /\ Handler!Tells(bare.headers, request.origin[1]))
  BY <1>10, <1>11, <1>15
<1>18. bare.route = <<"error">> <=>
          api /\ (nowhere \/ \E i \in DOMAIN E : answers(i) /\ unread(i))
  <2>1. bare.route = route
    BY <1>10 DEF inner
  <2> HIDE DEF api, nowhere, answers, unread
  <2> QED
    BY <1>9, <2>1
<1>19. Handler!AnswersAsAsked(server, request, E, answer, bare)
  <2>1. allowed = IF server.cors = <<>> THEN {"gqlforge"}
                  ELSE Handler!ToSet(server.cors[1].origins)
    BY <1>14
  <2>2. /\ answer.route # <<>> /\ answer.route[1] = "rest" =>
              \E i \in DOMAIN E :
                 /\ Handler!Answering(E, request.method, segments, i)
                 /\ answer.route[2] = E[i].op
                 /\ Handler!AnsweredWith(E[i], segments, answer.route[3])
        /\ answer.route = <<"not_found">> /\ api =>
              \A i \in DOMAIN E : ~Handler!Fits(E[i], request.method, segments)
    <3>1. bare.route = route
      BY <1>10 DEF inner
    <3> QED
      BY ONLY <1>16, <3>1 DEF found, fits, answers
  <2>3. bare.route = <<"error">> <=>
           /\ Handler!Below(request)
           /\ \/ Handler!NoUri(request.path)
              \/ \E i \in DOMAIN E :
                    /\ Handler!Answering(E, request.method, segments, i)
                    /\ E[i].body # <<>> /\ request.body = <<>>
    BY ONLY <1>18 DEF api, nowhere, answers, unread, Handler!Below
  <2>4. api <=> Handler!Below(request)
    BY DEF Handler!Below
  <2> HIDE DEF allowed
  <2> QED
    BY ONLY <1>15, <1>16, <1>17, <2>1, <2>2, <2>3, <2>4, Zenon
       DEF preflight, segments, Handler!AnswersAsAsked
<1> QED
  BY <1>19 DEF Handler!RequestIsAnswered, E, segments, answer, bare

-----------------------------------------------------------------------------
(* The invariants the runs check, of inputs of any size.                    *)
Kinds == {"grpc", "http", "graphql"}

\* What a stream may be given: chunks that begin what messages are sent as,
SentInChunks(kind, messages, chunks, fails, Byte) ==
    /\ kind \in Kinds /\ fails \in BOOLEAN
    /\ messages \in Seq(Sendable(kind, Byte))
    /\ chunks \in Seq(Seq(Alphabet(kind, Byte)))
    /\ \E broken \in 0..Len(Wire(kind, messages)) :
          FlattenSeq(chunks) = SubSeq(Wire(kind, messages), 1, broken)

\* or any bytes at all.
AnyBytes(kind, chunks, fails, Byte) ==
    /\ kind \in Kinds /\ fails \in BOOLEAN
    /\ chunks \in Seq(Seq(Alphabet(kind, Byte)))

\* GrpcFrameDecoder, SseEventParser: the runs' invariant, of messages of any
\* number and length and of any chunks.
THEOREM NoChunksMatter ==
    ASSUME NEW Byte, EventBytes \subseteq Byte,
           family = "stream" =>
               SentInChunks(input.kind, input.messages, input.chunks, input.fails, Byte),
           family = "text" => AnyBytes(input.kind, input.chunks, input.fails, Byte)
    PROVE  ChunksDoNotMatter
<1>1. ASSUME NEW kind, NEW messages, NEW chunks, NEW fails,
             SentInChunks(kind, messages, chunks, fails, Byte)
      PROVE  CutsDoNotMatter(kind, messages, chunks, fails)
  <2>1. /\ kind \in {"grpc", "http", "graphql"} /\ fails \in BOOLEAN
        /\ messages \in Seq(Sendable(kind, Byte))
        /\ chunks \in Seq(Seq(Alphabet(kind, Byte)))
    BY <1>1 DEF SentInChunks, Kinds
  <2>2. PICK broken \in 0..Len(Wire(kind, messages)) :
           FlattenSeq(chunks) = SubSeq(Wire(kind, messages), 1, broken)
    BY <1>1 DEF SentInChunks
  <2> QED
    BY ONLY EventBytes \subseteq Byte, <2>1, <2>2, CutsAreHarmless
<1>2. ASSUME NEW kind, NEW chunks, NEW fails, AnyBytes(kind, chunks, fails, Byte)
      PROVE  SameAsWhole(kind, chunks, fails)
  <2>1. /\ kind \in {"grpc", "http", "graphql"} /\ fails \in BOOLEAN
        /\ chunks \in Seq(Seq(Alphabet(kind, Byte)))
    BY <1>2 DEF AnyBytes, Kinds
  <2>2. Decodable(kind, Alphabet(kind, Byte))
    BY DEF Decodable, Alphabet
  <2> QED
    BY ONLY <2>1, <2>2, AnyChunks
<1> QED
  BY <1>1, <1>2 DEF ChunksDoNotMatter

\* cache_key(): the runs' invariant, of any fields of one kind in any contexts.
THEOREM SharedAlwaysSame ==
    ASSUME family = "key" =>
               /\ IsFiniteSet(input.fields) /\ IsFiniteSet(input.contexts)
               /\ \E kind \in {"http", "graphql", "grpc", "s3"} :
                     \A f \in input.fields : f.kind = kind
    PROVE  SharedAreSame
<1>1. SUFFICES ASSUME family = "key" PROVE KeysTellApart(input.fields, input.contexts)
  BY DEF SharedAreSame
<1>2. PICK kind \in {"http", "graphql", "grpc", "s3"} : \A f \in input.fields : f.kind = kind
  BY <1>1
<1>3. IsFiniteSet(input.fields) /\ IsFiniteSet(input.contexts)
  BY <1>1
<1> QED
  BY ONLY <1>2, <1>3, SharingIsSafe

\* load(): the runs' invariant, of a batch of any size, of any records.
THEOREM BatchedAlwaysAlone ==
    ASSUME NEW Pair, NEW Item, NEW Headers, NEW R,
           family = "batch" =>
               /\ input.kind \in {"get", "post", "grpc", "graphql", "single"}
               /\ input.keys \in Seq(BatchKeys(input.kind, Pair, Item, Headers))
               /\ input.keys # <<>> /\ input.records \in Seq(R)
               /\ input.list \in BOOLEAN /\ input.fails \in BOOLEAN /\ input.short \in Nat
    PROVE  BatchedIsAlone
<1>1. SUFFICES ASSUME family = "batch"
               PROVE  ApartAsAlone(input.kind, input.keys, input.list, input.records,
                                   input.fails, input.short)
  BY DEF BatchedIsAlone
<1>2. ASSUME NEW kind \in {"get", "post", "grpc", "graphql", "single"},
             NEW keys \in Seq(BatchKeys(kind, Pair, Item, Headers)), keys # <<>>,
             NEW list \in BOOLEAN, NEW records \in Seq(R), NEW fails \in BOOLEAN, NEW short \in Nat
      PROVE  ApartAsAlone(kind, keys, list, records, fails, short)
  BY <1>2, BatchesAreTakenApart
<1> QED
  BY <1>1, <1>2

\* PostgresOperation: the runs' invariant, of any directive in any configuration.
THEOREM EverySqlIsOwn ==
    ASSUME NEW Pair, NEW V, NEW Name,
           family = "sql" => SqlGiven(input.d, input.c, Pair, V, Name)
    PROVE  SqlIsOwn
<1>1. ASSUME NEW d, NEW root, NEW c, NEW arg, SqlGiven(d, c, Pair, V, Name)
      PROVE  Sql!StatementIsBounded(d, root, c, arg) /\ Sql!ConnectionOfItsKind(d, root, c)
  BY <1>1, EveryStatementBounded, EveryConnectionOfItsKind
<1> QED
  BY <1>1 DEF SqlIsOwn

\* An HTTP request as the handler sees it and the upstreams' policies it answers with.
RequestGiven(server, request, P, V, Data) ==
    server \in Servers(P, V, Data) /\ request \in Requests(P, Data)
PoliciesGiven(i, Scope) ==
    i.policies \in Seq(Policies(Scope)) /\ i.enabled \in BOOLEAN /\ i.size \in Nat \ {0}

\* handle_request(), set_cache_control(): of any server, request and policies, the request
\* reaches its endpoint with its values, and its answer is cached no longer than allowed.
THEOREM EveryRequestAnswered ==
    ASSUME NEW P, NEW V, NEW Data, NEW Scope,
           family = "http" => RequestGiven(input.server, input.request, P, V, Data),
           family = "cache" => PoliciesGiven(input, Scope)
    PROVE  RequestIsAnswered
<1>1. ASSUME NEW server, NEW request, NEW upstream, RequestGiven(server, request, P, V, Data)
      PROVE  Handler!RequestIsAnswered(server, request, upstream)
  BY <1>1, AnyRequestIsAnswered DEF RequestGiven
<1>2. ASSUME NEW i, PoliciesGiven(i, Scope)
      PROVE  Handler!CacheNoLonger(i.enabled, i.size, i.policies)
  BY <1>2, CachedNoLonger DEF PoliciesGiven
<1> QED
  BY <1>1, <1>2 DEF RequestIsAnswered
=============================================================================

---------------------------- MODULE EncodingProofs ----------------------------
(****************************************************************************)
(* What Encoding writes it reads, whatever follows in the buffer: theorems  *)
(* about its operators for all numbers, byte strings and typed data.        *)
(*                                                                          *)
(* The proofs are inductions on numbers or on lengths.  They are put as     *)
(* the least counterexample of a set of naturals, since the induction       *)
(* theorems of the library are about operators.                             *)
(****************************************************************************)
EXTENDS Encoding, SequenceTheorems, WellFoundedInduction, TLAPS

-------------------------------------------------------------------------------
(* Recursion *)

\* A set of naturals that is not empty has a least element.
LEMMA LeastNumber ==
    ASSUME NEW T, T \subseteq Nat, T # {}
    PROVE  \E n \in T : \A m \in T : n <= m
<1> DEFINE R == OpToRel(<, Nat)
<1>1. IsWellFoundedOn(R, Nat)
  BY NatLessThanWellFounded
<1>2. PICK n \in T : \A m \in T : <<m, n>> \notin R
  <2> HIDE DEF R
  <2> QED
    BY <1>1, WFMin
<1>3. ASSUME NEW m \in T PROVE n <= m
  <2>1. ~ (m < n)
    BY <1>2 DEF OpToRel
  <2> QED
    BY <2>1
<1> QED
  BY <1>3

\* A set that contains a number whenever it contains all smaller ones contains
\* all numbers.
LEMMA Induction ==
    ASSUME NEW P, \A n \in Nat : (\A m \in Nat : m < n => m \in P) => n \in P
    PROVE  Nat \subseteq P
<1> DEFINE T == {n \in Nat : n \notin P}
<1> SUFFICES ASSUME T # {} PROVE FALSE
  OBVIOUS
<1>1. PICK n \in T : \A m \in T : n <= m
  BY LeastNumber
<1>2. \A m \in Nat : m < n => m \in P
  BY <1>1
<1> QED
  BY <1>2

\* A recursive definition over D with values in V: outside B the argument x becomes
\* p[x], and h makes the value for x of the value for p[x].
Meets(f, D, B, b, p, h) == f = [x \in D |-> IF x \in B THEN b[x] ELSE h[<<x, f[p[x]]>>]]
Recursive(D, V, B, b, p, h) == \E f \in [D -> V] : Meets(f, D, B, b, p, h)

\* p leads to something smaller.
Descends(D, B, p, m) == \A x \in D : x \notin B => m[p[x]] < m[x]

\* Such a definition is met by a function.
LEMMA Recursion ==
    ASSUME NEW D, NEW V, NEW B, NEW b \in [D -> V], NEW p \in [D -> D],
           NEW m \in [D -> Nat], NEW h \in [D \X V -> V],
           Descends(D, B, p, m)
    PROVE  Recursive(D, V, B, b, p, h)
<1> USE DEF Descends
<1> DEFINE Unfolded(f, x) == IF x \in B THEN b[x] ELSE h[<<x, f[p[x]]>>]
           Below(n) == {x \in D : m[x] < n}
           Solves(f, n) == /\ f \in [D -> V]
                           /\ \A x \in Below(n) : f[x] = Unfolded(f, x)
<1>1. ASSUME NEW n \in Nat, NEW k \in Nat, NEW f, NEW g, Solves(f, n), Solves(g, k)
      PROVE  \A x \in Below(n) \cap Below(k) : f[x] = g[x]
  <2> DEFINE P == {i \in Nat : \A x \in Below(n) \cap Below(k) : m[x] = i => f[x] = g[x]}
  <2>1. ASSUME NEW i \in Nat, \A j \in Nat : j < i => j \in P
        PROVE  i \in P
    <3> SUFFICES ASSUME NEW x \in Below(n) \cap Below(k), m[x] = i
                 PROVE  f[x] = g[x]
      OBVIOUS
    <3>1. f[x] = Unfolded(f, x) /\ g[x] = Unfolded(g, x)
      BY <1>1
    <3>2. CASE x \in B
      BY <3>1, <3>2
    <3>3. CASE x \notin B
      <4>1. p[x] \in Below(n) \cap Below(k) /\ m[p[x]] \in Nat /\ m[p[x]] < i
        BY <3>3
      <4>2. f[p[x]] = g[p[x]]
        BY <4>1, <2>1
      <4> QED
        BY <3>1, <3>3, <4>2
    <3> QED
      BY <3>2, <3>3
  <2> HIDE DEF P
  <2>2. Nat \subseteq P
    BY <2>1, Induction
  <2> QED
    BY <2>2 DEF P
<1>2. \A n \in Nat : \E f : Solves(f, n)
  <2> DEFINE P == {n \in Nat : \E f : Solves(f, n)}
  <2>1. ASSUME NEW n \in Nat, \A k \in Nat : k < n => k \in P
        PROVE  n \in P
    <3>1. CASE n = 0
      <4>1. Solves(b, n)
        BY <3>1
      <4> QED
        BY <4>1
    <3>2. CASE n # 0
      <4>1. n - 1 \in Nat /\ n - 1 < n
        BY <3>2
      <4>2. PICK f : Solves(f, n - 1)
        BY <2>1, <4>1
      <4> DEFINE g == [x \in D |-> Unfolded(f, x)]
      <4>3. g \in [D -> V]
        BY <4>2
      <4>4. ASSUME NEW x \in Below(n) PROVE g[x] = Unfolded(g, x)
        <5>1. CASE x \in B
          BY <5>1
        <5>2. CASE x \notin B
          <6>1. p[x] \in Below(n - 1) /\ p[x] \in D
            BY <5>2
          <6>2. f[p[x]] = Unfolded(f, p[x])
            BY <6>1, <4>2
          <6>3. g[p[x]] = Unfolded(f, p[x])
            BY <6>1
          <6> QED
            BY <5>2, <6>2, <6>3
        <5> QED
          BY <5>1, <5>2
      <4>5. Solves(g, n)
        BY <4>3, <4>4
      <4> QED
        BY <4>5
    <3> QED
      BY <3>1, <3>2
  <2> HIDE DEF P
  <2>2. Nat \subseteq P
    BY <2>1, Induction
  <2> QED
    BY <2>2 DEF P
<1> DEFINE at == [n \in Nat |-> CHOOSE f : Solves(f, n)]
<1>3. \A n \in Nat : Solves(at[n], n)
  BY <1>2
<1> DEFINE f == [x \in D |-> at[m[x] + 1][x]]
<1>4. f \in [D -> V]
  <2>1. \A x \in D : m[x] + 1 \in Nat
    OBVIOUS
  <2> HIDE DEF at
  <2> QED
    BY <1>3, <2>1
<1>5. ASSUME NEW x \in D PROVE f[x] = Unfolded(f, x)
  <2> DEFINE n == m[x] + 1
  <2>1. n \in Nat /\ x \in Below(n)
    OBVIOUS
  <2>2. f[x] = Unfolded(at[n], x)
    <3>1. f[x] = at[n][x]
      OBVIOUS
    <3> HIDE DEF at, f, n
    <3> QED
      BY <3>1, <2>1, <1>3
  <2>3. CASE x \in B
    BY <2>2, <2>3
  <2>4. CASE x \notin B
    <3> DEFINE k == m[p[x]] + 1
    <3>1. k \in Nat /\ p[x] \in Below(k) /\ p[x] \in Below(n) /\ p[x] \in D
      BY <2>4
    <3>2. f[p[x]] = at[k][p[x]]
      BY <3>1
    <3>3. at[k][p[x]] = at[n][p[x]]
      <4>1. Solves(at[k], k) /\ Solves(at[n], n)
        <5> HIDE DEF at, k, n, Solves
        <5> QED
          BY <1>3, <2>1, <3>1
      <4> HIDE DEF at, k, n, Solves
      <4>2. \A y \in Below(k) \cap Below(n) : at[k][y] = at[n][y]
        BY <4>1, <1>1, <2>1, <3>1
      <4> QED
        BY <4>2, <3>1
    <3> HIDE DEF at, k, n, f
    <3> QED
      BY <2>2, <2>4, <3>2, <3>3
  <2> QED
    BY <2>3, <2>4
<1> HIDE DEF f
<1> QED
  BY <1>4, <1>5 DEF Recursive, Meets

-------------------------------------------------------------------------------
(* Sequences *)

LEMMA ByteIsNat ==
    /\ Byte \subseteq Nat
    /\ \A i \in Nat : i < 256 => i \in Byte
  BY DEF Byte

LEMMA ConcatBytes ==
    ASSUME NEW S, NEW s \in Seq(S), NEW t \in Seq(S)
    PROVE  /\ s \o t \in Seq(S)
           /\ Len(s \o t) = Len(s) + Len(t)
           /\ Take(s \o t, Len(s)) = s
           /\ Drop(s \o t, Len(s)) = t
  BY DEF Take, Drop

LEMMA BytesAssociate ==
    \A s, t, u \in Seq(Byte) : (s \o t) \o u = s \o (t \o u)
  OBVIOUS

\* A function on 1 .. n is a sequence.
LEMMA SequenceOfLength ==
    ASSUME NEW S, NEW n \in Nat, NEW v \in [1 .. n -> S]
    PROVE  v \in Seq(S) /\ Len(v) = n
<1>1. DOMAIN v = 1 .. n
  OBVIOUS
<1>2. v \in Seq(S)
  BY SeqDef
<1>3. Len(v) = n
  BY <1>1, <1>2
<1> QED
  BY <1>2, <1>3

LEMMA BytesOfLength ==
    \A n \in Nat : \A v \in [1 .. n -> Byte] : v \in Seq(Byte) /\ Len(v) = n
  BY SequenceOfLength

LEMMA ConcatHead ==
    ASSUME NEW S, NEW x \in S, NEW t \in Seq(S)
    PROVE  /\ <<x>> \o t \in Seq(S)
           /\ <<x>> \o t # <<>>
           /\ Len(<<x>> \o t) = 1 + Len(t)
           /\ Head(<<x>> \o t) = x
           /\ Tail(<<x>> \o t) = t
  OBVIOUS

LEMMA ConcatEmpty ==
    ASSUME NEW S, NEW t \in Seq(S)
    PROVE  <<>> \o t = t /\ t \o <<>> = t
  OBVIOUS

LEMMA TailShrinks ==
    ASSUME NEW S, NEW t \in Seq(S), t # <<>>
    PROVE  /\ Head(t) \in S /\ Tail(t) \in Seq(S)
           /\ Len(Tail(t)) < Len(t) /\ Len(t) > 0
           /\ t = <<Head(t)>> \o Tail(t)
  OBVIOUS

LEMMA OneLeft ==
    ASSUME NEW S, NEW t \in Seq(S), t # <<>>
    PROVE  /\ Len(t) = 1 => Tail(t) = <<>>
           /\ Len(t) # 1 => Tail(t) # <<>> /\ Len(t) > 1
<1>1. Len(t) > 0 /\ Len(t) \in Nat /\ Len(Tail(t)) = Len(t) - 1 /\ Tail(t) \in Seq(S)
  OBVIOUS
<1>2. Len(t) = 1 => Len(Tail(t)) = 0
  BY <1>1
<1>3. Len(t) # 1 => Len(Tail(t)) # 0 /\ Len(t) > 1
  BY <1>1
<1> QED
  BY <1>1, <1>2, <1>3, EmptySeq

-------------------------------------------------------------------------------
(* Numbers *)

\* PutVarint's loop has shorter to go on with.
LEMMA QuotientShrinks ==
    ASSUME NEW i \in Nat, i >= 128
    PROVE  /\ (i - 128) \div 128 \in Nat
           /\ (i - 128) \div 128 < i
           /\ 128 + (i % 128) \in Byte
           /\ (128 + (i % 128)) + 128 * ((i - 128) \div 128) = i
  BY DEF Byte

\* The bytes that PutVarint writes after the first.
LEMMA PutRestIs ==
    /\ PutRest \in [Nat -> Seq(Byte)]
    /\ \A i \in Nat : PutRest[i] = IF i < 128 THEN <<i>>
                                   ELSE <<128 + (i % 128)>> \o PutRest[(i - 128) \div 128]
<1> DEFINE D == Nat
           V == Seq(Byte)
           B == 0 .. 127
           b == [i \in Nat |-> IF i < 128 THEN <<i>> ELSE <<>>]
           p == [i \in Nat |-> IF i < 128 THEN i ELSE (i - 128) \div 128]
           m == [i \in Nat |-> i]
           h == [x \in Nat \X V |-> <<128 + (x[1] % 128)>> \o x[2]]
           Is(f) == f = [i \in Nat |-> IF i < 128 THEN <<i>>
                                       ELSE <<128 + (i % 128)>> \o f[(i - 128) \div 128]]
<1>1. \A i \in Nat : i \notin B => p[i] \in Nat /\ p[i] < i
  BY QuotientShrinks
<1>2. p \in [D -> D] /\ m \in [D -> Nat]
  BY <1>1
<1>3. b \in [D -> V]
  <2>1. \A i \in B : <<i>> \in V
    BY DEF Byte
  <2> QED
    BY <2>1
<1>4. h \in [D \X V -> V]
  <2>1. \A i \in Nat : 128 + (i % 128) \in Byte
    BY DEF Byte
  <2>2. \A i \in Nat, v \in V : <<128 + (i % 128)>> \o v \in V
    BY <2>1, ConcatHead
  <2> HIDE DEF V
  <2> QED
    BY <2>2
<1>5. PICK f \in [D -> V] : Meets(f, D, B, b, p, h)
  <2>1. Descends(D, B, p, m)
    BY <1>1 DEF Descends
  <2> HIDE DEF D, V, B, b, p, m, h
  <2> QED
    BY <1>2, <1>3, <1>4, <2>1, Recursion DEF Recursive
<1>6. Is(f)
  <2>1. ASSUME NEW i \in Nat
        PROVE  f[i] = IF i < 128 THEN <<i>>
                      ELSE <<128 + (i % 128)>> \o f[(i - 128) \div 128]
    <3>1. CASE i < 128
      BY <1>5, <3>1 DEF Meets
    <3>2. CASE ~ (i < 128)
      <4>1. p[i] = (i - 128) \div 128 /\ p[i] \in Nat
        BY <1>1, <3>2
      <4>2. f[p[i]] \in V
        BY <4>1, <1>5
      <4>3. f[i] = h[<<i, f[p[i]]>>]
        <5>1. i \in D /\ i \notin B
          BY <3>2
        <5> HIDE DEF D, V, B, b, p, h
        <5> QED
          BY <1>5, <5>1 DEF Meets
      <4> HIDE DEF V, p
      <4>4. h[<<i, f[p[i]]>>] = <<128 + (i % 128)>> \o f[p[i]]
        BY <4>2
      <4> QED
        BY <3>2, <4>1, <4>3, <4>4
    <3> QED
      BY <3>1, <3>2
  <2>2. f = [i \in Nat |-> f[i]]
    OBVIOUS
  <2> QED
    BY <2>1, <2>2
<1>7. PutRest = CHOOSE g : Is(g)
  BY DEF PutRest
<1>8. Is(PutRest)
  <2> HIDE DEF Is
  <2> QED
    BY <1>6, <1>7
<1>9. \A i \in Nat : PutRest[i] = IF i < 128 THEN <<i>>
                                  ELSE <<128 + (i % 128)>> \o PutRest[(i - 128) \div 128]
  BY <1>8
<1>10. PutRest \in [Nat -> Seq(Byte)]
  <2> DEFINE P == {i \in Nat : PutRest[i] \in Seq(Byte)}
  <2>1. ASSUME NEW i \in Nat, \A j \in Nat : j < i => j \in P
        PROVE  i \in P
    <3>1. CASE i < 128
      <4>1. i \in Byte
        BY <3>1 DEF Byte
      <4>2. PutRest[i] = <<i>>
        BY <3>1, <1>9
      <4>3. <<i>> \in Seq(Byte)
        BY <4>1
      <4> QED
        BY <4>2, <4>3
    <3>2. CASE ~ (i < 128)
      <4>1. PutRest[(i - 128) \div 128] \in Seq(Byte)
        BY <3>2, <2>1, QuotientShrinks
      <4>2. <<128 + (i % 128)>> \o PutRest[(i - 128) \div 128] \in Seq(Byte)
        BY <4>1, <3>2, QuotientShrinks, ConcatHead
      <4> QED
        BY <4>2, <3>2, <1>9
    <3> QED
      BY <3>1, <3>2
  <2> HIDE DEF P
  <2>2. Nat \subseteq P
    BY <2>1, Induction
  <2>3. \A i \in Nat : PutRest[i] \in Seq(Byte)
    BY <2>2 DEF P
  <2>4. PutRest = [i \in Nat |-> PutRest[i]]
    BY <1>8
  <2> QED
    BY <2>3, <2>4
<1> QED
  BY <1>9, <1>10

\* What reading a number comes to.
NumberRead == [is : {"ok", "error"}, val : Nat, rest : Seq(Byte)]

LEMMA OutcomeIsRead ==
    ASSUME NEW b \in Seq(Byte), NEW n \in Nat
    PROVE  Outcome("ok", n, b) \in NumberRead /\ Outcome("error", n, b) \in NumberRead
  BY DEF NumberRead, Outcome

\* A digit is put before what has been read.
LEMMA DigitIsRead ==
    ASSUME NEW v \in NumberRead, NEW x \in Nat
    PROVE  [v EXCEPT !.val = x + 128 * @] \in NumberRead
<1>1. v.val \in Nat /\ x + 128 * v.val \in Nat
  BY DEF NumberRead
<1> QED
  BY <1>1 DEF NumberRead

LEMMA VarintRestIs ==
    /\ VarintRest \in [Seq(Byte) -> NumberRead]
    /\ \A b \in Seq(Byte) :
           VarintRest[b] = IF b = <<>> THEN Outcome("error", 0, b)
                           ELSE IF Head(b) < 128 THEN Outcome("ok", Head(b), Tail(b))
                           ELSE [VarintRest[Tail(b)] EXCEPT !.val = Head(b) + 128 * @]
<1> DEFINE D == Seq(Byte)
           V == NumberRead
           B == {b \in D : b = <<>> \/ Head(b) < 128}
           base == [b \in D |-> IF b = <<>> THEN Outcome("error", 0, b)
                                ELSE IF Head(b) < 128 THEN Outcome("ok", Head(b), Tail(b))
                                ELSE Outcome("error", 0, b)]
           p == [b \in D |-> IF b = <<>> THEN b ELSE Tail(b)]
           m == [b \in D |-> Len(b)]
           h == [x \in D \X V |-> IF x[1] = <<>> THEN x[2]
                                  ELSE [x[2] EXCEPT !.val = Head(x[1]) + 128 * @]]
           Is(f) == f = [b \in D |-> IF b = <<>> THEN Outcome("error", 0, b)
                                     ELSE IF Head(b) < 128 THEN Outcome("ok", Head(b), Tail(b))
                                     ELSE [f[Tail(b)] EXCEPT !.val = Head(b) + 128 * @]]
<1>1. \A b \in D : b # <<>> => /\ Head(b) \in Byte /\ Head(b) \in Nat
                               /\ Tail(b) \in D /\ Len(Tail(b)) < Len(b)
  BY TailShrinks, ByteIsNat
<1>2. p \in [D -> D] /\ m \in [D -> Nat]
  BY <1>1
<1>3. base \in [D -> V]
  <2>1. ASSUME NEW b \in D PROVE base[b] \in V
    BY <1>1, OutcomeIsRead
  <2> QED
    BY <2>1
<1>4. h \in [D \X V -> V]
  <2>1. ASSUME NEW b \in D, NEW v \in V, b # <<>>
        PROVE  [v EXCEPT !.val = Head(b) + 128 * @] \in V
    BY <2>1, <1>1, DigitIsRead
  <2> HIDE DEF V, D
  <2> QED
    BY <2>1
<1>5. PICK f \in [D -> V] : Meets(f, D, B, base, p, h)
  <2>1. Descends(D, B, p, m)
    BY <1>1 DEF Descends
  <2> HIDE DEF D, V, B, base, p, m, h
  <2> QED
    BY <1>2, <1>3, <1>4, <2>1, Recursion DEF Recursive
<1>6. Is(f)
  <2>1. ASSUME NEW b \in D
        PROVE  f[b] = IF b = <<>> THEN Outcome("error", 0, b)
                      ELSE IF Head(b) < 128 THEN Outcome("ok", Head(b), Tail(b))
                      ELSE [f[Tail(b)] EXCEPT !.val = Head(b) + 128 * @]
    <3>1. CASE b \in B
      <4>1. f[b] = base[b]
        <5> HIDE DEF D, V, B, base, p, h
        <5> QED
          BY <1>5, <3>1 DEF Meets
      <4> QED
        BY <4>1, <3>1
    <3>2. CASE b \notin B
      <4>1. p[b] = Tail(b) /\ p[b] \in D /\ b # <<>> /\ ~ (Head(b) < 128)
        BY <1>1, <3>2
      <4>2. f[p[b]] \in V
        BY <4>1, <1>5
      <4>3. f[b] = h[<<b, f[p[b]]>>]
        <5> HIDE DEF D, V, B, base, p, h
        <5> QED
          BY <1>5, <3>2 DEF Meets
      <4> HIDE DEF V, p, D
      <4>4. h[<<b, f[p[b]]>>] = [f[p[b]] EXCEPT !.val = Head(b) + 128 * @]
        BY <4>1, <4>2
      <4> HIDE DEF h
      <4> QED
        BY <4>1, <4>3, <4>4
    <3> QED
      BY <3>1, <3>2
  <2>2. f = [b \in D |-> f[b]]
    OBVIOUS
  <2> HIDE DEF D
  <2> QED
    BY <2>1, <2>2
<1>7. VarintRest = CHOOSE g : Is(g)
  BY DEF VarintRest
<1>8. Is(VarintRest)
  <2> HIDE DEF Is
  <2> QED
    BY <1>6, <1>7
<1>9. \A b \in D :
          VarintRest[b] = IF b = <<>> THEN Outcome("error", 0, b)
                          ELSE IF Head(b) < 128 THEN Outcome("ok", Head(b), Tail(b))
                          ELSE [VarintRest[Tail(b)] EXCEPT !.val = Head(b) + 128 * @]
  <2> HIDE DEF D
  <2> QED
    BY <1>8
<1>10. VarintRest \in [D -> V]
  <2> DEFINE P == {n \in Nat : \A b \in D : Len(b) = n => VarintRest[b] \in V}
  <2>1. ASSUME NEW n \in Nat, \A k \in Nat : k < n => k \in P
        PROVE  n \in P
    <3> SUFFICES ASSUME NEW b \in D, Len(b) = n
                 PROVE  VarintRest[b] \in V
      OBVIOUS
    <3>1. CASE b = <<>>
      BY <3>1, <1>9, OutcomeIsRead
    <3>2. CASE b # <<>> /\ Head(b) < 128
      BY <3>2, <1>1, <1>9, OutcomeIsRead, ZenonT(30)
    <3>3. CASE b # <<>> /\ ~ (Head(b) < 128)
      <4>1. Tail(b) \in D /\ Len(Tail(b)) \in Nat /\ Len(Tail(b)) < n
        BY <3>3, <1>1
      <4>2. VarintRest[Tail(b)] \in V
        BY <2>1, <4>1
      <4>3. VarintRest[b] = [VarintRest[Tail(b)] EXCEPT !.val = Head(b) + 128 * @]
        BY <1>9, <3>3
      <4> QED
        BY <3>3, <1>1, <4>2, <4>3, DigitIsRead
    <3> QED
      BY <3>1, <3>2, <3>3
  <2> HIDE DEF P
  <2>2. Nat \subseteq P
    BY <2>1, Induction
  <2>3. \A b \in D : VarintRest[b] \in V
    BY <2>2 DEF P
  <2>4. VarintRest = [b \in D |-> VarintRest[b]]
    <3> HIDE DEF D
    <3> QED
      BY <1>8
  <2> HIDE DEF D, V
  <2> QED
    BY <2>3, <2>4
<1> QED
  BY <1>9, <1>10

\* What PutVarint's loop has written, Varint's loop reads, up to its end.
LEMMA RestIsRead ==
    \A i \in Nat, r \in Seq(Byte) : VarintRest[PutRest[i] \o r] = Outcome("ok", i, r)
<1> DEFINE P == {i \in Nat : \A r \in Seq(Byte) :
                                 VarintRest[PutRest[i] \o r] = Outcome("ok", i, r)}
<1>1. ASSUME NEW i \in Nat, \A j \in Nat : j < i => j \in P
      PROVE  i \in P
  <2> SUFFICES ASSUME NEW r \in Seq(Byte)
               PROVE  VarintRest[PutRest[i] \o r] = Outcome("ok", i, r)
    OBVIOUS
  <2>1. CASE i < 128
    <3>1. i \in Byte /\ PutRest[i] = <<i>>
      <4>1. i \in Byte
        BY <2>1, ByteIsNat
      <4>2. PutRest[i] = <<i>>
        BY <2>1, PutRestIs
      <4> QED
        BY <4>1, <4>2
    <3> DEFINE b == <<i>> \o r
    <3>2. b \in Seq(Byte) /\ b # <<>> /\ Head(b) = i /\ Tail(b) = r
      BY <3>1, ConcatHead
    <3> HIDE DEF b
    <3>3. VarintRest[b] = Outcome("ok", i, r)
      BY <2>1, <3>2, VarintRestIs
    <3> QED
      BY <3>1, <3>3 DEF b
  <2>2. CASE ~ (i < 128)
    <3> DEFINE j == (i - 128) \div 128
               x == 128 + (i % 128)
    <3>1. j \in Nat /\ j < i /\ x \in Byte /\ x + 128 * j = i /\ ~ (x < 128)
      BY <2>2, QuotientShrinks
    <3>2. PutRest[i] = <<x>> \o PutRest[j] /\ PutRest[j] \in Seq(Byte)
      <4>1. PutRest[i] = IF i < 128 THEN <<i>> ELSE <<x>> \o PutRest[j]
        BY PutRestIs, Zenon
      <4> HIDE DEF x, j
      <4>2. PutRest[j] \in Seq(Byte)
        BY <3>1, PutRestIs
      <4> QED
        BY <2>2, <4>1, <4>2, Zenon
    <3> HIDE DEF x, j
    <3> DEFINE t == PutRest[j] \o r
               b == <<x>> \o t
    <3>3. t \in Seq(Byte)
      BY <3>2
    <3>4. PutRest[i] \o r = b
      <4>1. <<x>> \in Seq(Byte)
        BY <3>1
      <4>2. (<<x>> \o PutRest[j]) \o r = <<x>> \o (PutRest[j] \o r)
        BY <4>1, <3>2, BytesAssociate
      <4> QED
        BY <4>2, <3>2
    <3>5. VarintRest[t] = Outcome("ok", j, r)
      BY <1>1, <3>1
    <3> HIDE DEF t
    <3>6. b \in Seq(Byte) /\ b # <<>> /\ Head(b) = x /\ Tail(b) = t
      BY <3>1, <3>3, ConcatHead
    <3> HIDE DEF b
    <3>7. VarintRest[b] = [Outcome("ok", j, r) EXCEPT !.val = x + 128 * @]
      BY <3>1, <3>5, <3>6, VarintRestIs
    <3>8. [Outcome("ok", j, r) EXCEPT !.val = x + 128 * @] = Outcome("ok", i, r)
      BY <3>1 DEF Outcome
    <3> QED
      BY <3>4, <3>7, <3>8
  <2> QED
    BY <2>1, <2>2
<1> HIDE DEF P
<1>2. Nat \subseteq P
  BY <1>1, Induction
<1> QED
  BY <1>2 DEF P

LEMMA LongVarint ==
    ASSUME NEW b \in Seq(Byte), b # <<>>, NEW x \in Nat, NEW j \in Nat, NEW r,
           Head(b) = x, ~ (x < 240), VarintRest[Tail(b)] = Outcome("ok", j, r)
    PROVE  Varint(b) = Outcome("ok", x + 16 * j, r)
<1>1. LET more == VarintRest[Tail(b)]
      IN more.is = "ok" /\ more.val = j /\ more.rest = r
  BY DEF Outcome
<1> QED
  BY <1>1 DEF Varint, FirstUnit

\* Every number is read as it was written, whatever follows it.
THEOREM VarintIsRead ==
    \A i \in Nat, r \in Seq(Byte) : /\ PutVarint(i) \o r \in Seq(Byte)
                                    /\ Varint(PutVarint(i) \o r) = Outcome("ok", i, r)
<1> SUFFICES ASSUME NEW i \in Nat, NEW r \in Seq(Byte)
             PROVE  /\ PutVarint(i) \o r \in Seq(Byte)
                    /\ Varint(PutVarint(i) \o r) = Outcome("ok", i, r)
  OBVIOUS
<1>1. CASE i < 240
  <2>1. i \in Byte /\ PutVarint(i) = <<i>>
    BY <1>1, ByteIsNat DEF PutVarint
  <2> DEFINE b == <<i>> \o r
  <2>2. b \in Seq(Byte) /\ b # <<>> /\ Head(b) = i /\ Tail(b) = r
    BY <2>1, ConcatHead
  <2> HIDE DEF b
  <2>3. Varint(b) = Outcome("ok", i, r)
    BY <1>1, <2>2 DEF Varint
  <2> QED
    BY <2>1, <2>2, <2>3 DEF b
<1>2. CASE ~ (i < 240)
  <2> DEFINE j == (i - 240) \div 16
             x == 240 + (i % 16)
             t == PutRest[j] \o r
             b == <<x>> \o t
  <2>1. j \in Nat /\ x \in Nat /\ x < 256 /\ x + 16 * j = i /\ ~ (x < 240)
    BY <1>2
  <2>2. x \in Byte
    BY <2>1, ByteIsNat
  <2>3. PutVarint(i) = <<x>> \o PutRest[j] /\ PutRest[j] \in Seq(Byte)
    BY <1>2, <2>1, PutRestIs DEF PutVarint
  <2> HIDE DEF x, j
  <2>4. t \in Seq(Byte)
    BY <2>3
  <2>5. PutVarint(i) \o r = b
    <3>1. <<x>> \in Seq(Byte)
      BY <2>2
    <3>2. (<<x>> \o PutRest[j]) \o r = <<x>> \o (PutRest[j] \o r)
      BY <3>1, <2>3, BytesAssociate
    <3> QED
      BY <3>2, <2>3
  <2>6. VarintRest[t] = Outcome("ok", j, r)
    BY <2>1, RestIsRead
  <2> HIDE DEF t
  <2>7. b \in Seq(Byte) /\ b # <<>> /\ Head(b) = x /\ Tail(b) = t
    BY <2>2, <2>4, ConcatHead
  <2> HIDE DEF b
  <2>8. Varint(b) = Outcome("ok", i, r)
    <3>1. j \in Nat /\ x \in Nat /\ ~ (x < 240)
      BY <2>1
    <3>2. VarintRest[Tail(b)] = Outcome("ok", j, r)
      BY <2>6, <2>7
    <3>3. Varint(b) = Outcome("ok", x + 16 * j, r)
      BY <2>7, <3>1, <3>2, LongVarint
    <3> QED
      BY <3>3, <2>1
  <2> QED
    BY <2>5, <2>7, <2>8
<1> QED
  BY <1>1, <1>2

LEMMA PutVarintBytes ==
    \A i \in Nat : PutVarint(i) \in Seq(Byte) /\ PutVarint(i) # <<>>
<1> SUFFICES ASSUME NEW i \in Nat PROVE PutVarint(i) \in Seq(Byte) /\ PutVarint(i) # <<>>
  OBVIOUS
<1>1. CASE i < 240
  <2>1. i \in Byte /\ PutVarint(i) = <<i>>
    BY <1>1, ByteIsNat DEF PutVarint
  <2> QED
    BY <2>1
<1>2. CASE ~ (i < 240)
  <2> DEFINE j == (i - 240) \div 16
             x == 240 + (i % 16)
  <2>1. j \in Nat /\ x \in Nat /\ x < 256
    BY <1>2
  <2>2. x \in Byte
    BY <2>1, ByteIsNat
  <2>3. PutVarint(i) = <<x>> \o PutRest[j] /\ PutRest[j] \in Seq(Byte)
    BY <1>2, <2>1, PutRestIs DEF PutVarint
  <2> HIDE DEF x, j
  <2> QED
    BY <2>2, <2>3, ConcatHead
<1> QED
  BY <1>1, <1>2

-------------------------------------------------------------------------------
(* Byte strings and typed data *)

LEMMA FixedIsRead ==
    ASSUME NEW v \in Seq(Byte), NEW r \in Seq(Byte)
    PROVE  Fixed(v \o r, Len(v)) = Outcome("ok", v, r)
<1>1. /\ Len(v \o r) = Len(v) + Len(r)
      /\ Take(v \o r, Len(v)) = v
      /\ Drop(v \o r, Len(v)) = r
  BY ConcatBytes
<1>2. ~ (Len(v) > Len(v \o r))
  BY <1>1
<1> QED
  BY <1>1, <1>2 DEF Fixed

\* A byte string is read as it was written.
THEOREM BytesAreRead ==
    \A v, r \in Seq(Byte) : /\ PutBytes(v) \in Seq(Byte) /\ PutBytes(v) # <<>>
                            /\ Bytes(PutBytes(v) \o r) = Outcome("ok", v, r)
<1> SUFFICES ASSUME NEW v \in Seq(Byte), NEW r \in Seq(Byte)
             PROVE  /\ PutBytes(v) \in Seq(Byte) /\ PutBytes(v) # <<>>
                    /\ Bytes(PutBytes(v) \o r) = Outcome("ok", v, r)
  OBVIOUS
<1> DEFINE l == PutVarint(Len(v))
<1>1. l \in Seq(Byte) /\ l # <<>>
  BY PutVarintBytes
<1>2. PutBytes(v) = l \o v
  BY DEF PutBytes
<1>3. Varint(l \o (v \o r)) = Outcome("ok", Len(v), v \o r)
  <2>1. v \o r \in Seq(Byte) /\ Len(v) \in Nat
    OBVIOUS
  <2> QED
    BY <2>1, VarintIsRead
<1> HIDE DEF l
<1>4. (l \o v) \o r = l \o (v \o r)
  BY <1>1, BytesAssociate
<1>5. Bytes(l \o (v \o r)) = Fixed(v \o r, Len(v))
  BY <1>3 DEF Bytes, Outcome
<1>6. l \o v \in Seq(Byte) /\ l \o v # <<>>
  BY <1>1
<1> QED
  BY <1>2, <1>4, <1>5, <1>6, FixedIsRead

\* The byte of a type and its flag.
LEMMA FlagIsRead ==
    ASSUME NEW t \in 0 .. 15, NEW flag \in BOOLEAN
    PROVE  LET x == t + (IF flag THEN 16 ELSE 0)
           IN x \in Byte /\ x % 16 = t /\ ((x \div 16) % 2 = 1) = flag
<1>1. CASE flag
  <2>1. t + 16 \in Byte /\ (t + 16) % 16 = t /\ ((t + 16) \div 16) % 2 = 1
    BY DEF Byte
  <2> QED
    BY <1>1, <2>1
<1>2. CASE ~ flag
  <2>1. t + 0 \in Byte /\ (t + 0) % 16 = t /\ ((t + 0) \div 16) % 2 # 1
    BY DEF Byte
  <2> QED
    BY <1>2, <2>1
<1> QED
  BY <1>1, <1>2

\* The value that follows the byte of the type.
PutValue(v) == CASE v.type \in {Null, Bool} -> <<>>
                 [] v.type \in Numbers -> PutVarint(v.val[1])
                 [] v.type \in {IPV4, IPV6} -> v.val
                 [] v.type \in {String, Binary} -> PutBytes(v.val)

LEMMA ValueIsRead ==
    ASSUME NEW v \in TypedData, NEW r \in Seq(Byte)
    PROVE  /\ PutValue(v) \in Seq(Byte)
           /\ Value(v.type, PutValue(v) \o r) = Outcome("ok", v.val, r)
<1> USE DEF Null, Bool, Int32, UInt32, Int64, UInt64, Numbers, IPV4, IPV6, String, Binary
<1>1. CASE v.type \in {Null, Bool} /\ v.val = <<>>
  <2>1. PutValue(v) = <<>>
    BY <1>1 DEF PutValue
  <2>2. Value(v.type, r) = Outcome("ok", <<>>, r)
    BY <1>1 DEF Value
  <2>3. <<>> \o r = r
    BY ConcatEmpty
  <2> QED
    BY <1>1, <2>1, <2>2, <2>3
<1>2. CASE v.type \in Numbers /\ v.val \in [1 .. 1 -> Nat]
  <2>1. v.val[1] \in Nat /\ v.val = <<v.val[1]>>
    BY <1>2
  <2> DEFINE b == PutVarint(v.val[1]) \o r
  <2>2. Varint(b) = Outcome("ok", v.val[1], r) /\ PutVarint(v.val[1]) \in Seq(Byte)
    BY <2>1, VarintIsRead, PutVarintBytes
  <2>3. PutValue(v) = PutVarint(v.val[1])
    BY <1>2 DEF PutValue
  <2> HIDE DEF b
  <2>4. Varint(b).is = "ok" /\ Varint(b).val = v.val[1] /\ Varint(b).rest = r
    BY <2>2 DEF Outcome
  <2>5. Value(v.type, b) = Outcome("ok", <<v.val[1]>>, r)
    BY <1>2, <2>4 DEF Value
  <2> QED
    BY <2>1, <2>2, <2>3, <2>5 DEF b
<1>3. CASE v.type = IPV4 /\ v.val \in [1 .. 4 -> Byte]
  <2>1. v.val \in Seq(Byte) /\ Len(v.val) = 4
    BY <1>3, BytesOfLength
  <2>2. PutValue(v) = v.val
    BY <1>3 DEF PutValue
  <2>3. Value(v.type, v.val \o r) = Fixed(v.val \o r, 4)
    BY <1>3 DEF Value
  <2> QED
    BY <2>1, <2>2, <2>3, FixedIsRead
<1>4. CASE v.type = IPV6 /\ v.val \in [1 .. 16 -> Byte]
  <2>1. v.val \in Seq(Byte) /\ Len(v.val) = 16
    BY <1>4, BytesOfLength
  <2>2. PutValue(v) = v.val
    BY <1>4 DEF PutValue
  <2>3. Value(v.type, v.val \o r) = Fixed(v.val \o r, 16)
    BY <1>4 DEF Value
  <2> QED
    BY <2>1, <2>2, <2>3, FixedIsRead
<1>5. CASE v.type \in {String, Binary} /\ v.val \in Seq(Byte)
  <2>1. PutValue(v) = PutBytes(v.val)
    BY <1>5 DEF PutValue
  <2>2. Value(v.type, PutBytes(v.val) \o r) = Bytes(PutBytes(v.val) \o r)
    BY <1>5 DEF Value
  <2> QED
    BY <1>5, <2>1, <2>2, BytesAreRead
<1> QED
  BY <1>1, <1>2, <1>3, <1>4, <1>5 DEF TypedData

\* Typed data of every type are read as they were written.
THEOREM TypedDataAreRead ==
    \A v \in TypedData, r \in Seq(Byte) :
        /\ PutTyped(v) \in Seq(Byte) /\ PutTyped(v) # <<>>
        /\ Typed(PutTyped(v) \o r) =
               Outcome("ok", [type |-> v.type, true |-> v.true, val |-> v.val], r)
<1> SUFFICES ASSUME NEW v \in TypedData, NEW r \in Seq(Byte)
             PROVE  /\ PutTyped(v) \in Seq(Byte) /\ PutTyped(v) # <<>>
                    /\ Typed(PutTyped(v) \o r) =
                           Outcome("ok", [type |-> v.type, true |-> v.true, val |-> v.val], r)
  OBVIOUS
<1> DEFINE x == v.type + (IF v.true THEN 16 ELSE 0)
           t == PutValue(v)
           b == <<x>> \o (t \o r)
<1>1. v.type \in 0 .. 15 /\ v.true \in BOOLEAN
  BY DEF TypedData, Null, Bool, Int32, UInt32, Int64, UInt64, Numbers, IPV4, IPV6, String, Binary
<1>2. x \in Byte /\ x % 16 = v.type /\ ((x \div 16) % 2 = 1) = v.true
  BY <1>1, FlagIsRead
<1>3. PutTyped(v) = <<x>> \o t
  BY DEF PutTyped, PutValue
<1>4. t \in Seq(Byte) /\ Value(v.type, t \o r) = Outcome("ok", v.val, r)
  BY ValueIsRead
<1> HIDE DEF x, t
<1>5. PutTyped(v) \o r = b
  <2>1. <<x>> \in Seq(Byte)
    BY <1>2
  <2> QED
    BY <2>1, <1>3, <1>4, BytesAssociate
<1>6. b # <<>> /\ Head(b) = x /\ Tail(b) = t \o r
  <2>1. t \o r \in Seq(Byte)
    BY <1>4
  <2> QED
    BY <1>2, <2>1, ConcatHead
<1> HIDE DEF b
<1>7. Typed(b) = [Value(v.type, t \o r) EXCEPT
                     !.val = [type |-> v.type, true |-> v.true, val |-> @]]
  BY <1>2, <1>6 DEF Typed
<1>8. PutTyped(v) \in Seq(Byte) /\ PutTyped(v) # <<>>
  BY <1>2, <1>3, <1>4, ConcatHead
<1>9. [Outcome("ok", v.val, r) EXCEPT !.val = [type |-> v.type, true |-> v.true, val |-> @]]
          = Outcome("ok", [type |-> v.type, true |-> v.true, val |-> v.val], r)
  BY DEF Outcome
<1> QED
  BY <1>4, <1>5, <1>7, <1>8, <1>9

-------------------------------------------------------------------------------
(* Flattening *)

\* flatten, the recursion inside FlattenSeq.
Flattens(f, ss) == /\ f \in [1 .. Len(ss) -> Seq(Byte)]
                   /\ \A i \in 1 .. Len(ss) :
                          f[i] = IF i = 1 THEN ss[i] ELSE f[i - 1] \o ss[i]

LEMMA FlattenExists ==
    ASSUME NEW ss \in Seq(Seq(Byte)), ss # <<>>
    PROVE  \E f : Flattens(f, ss) /\ FlattenSeq(ss) = f[Len(ss)]
<1> DEFINE n == Len(ss)
           D == 1 .. n
           V == Seq(Byte)
           B == {1}
           b == [i \in D |-> ss[i]]
           p == [i \in D |-> IF i = 1 THEN 1 ELSE i - 1]
           m == [i \in D |-> i]
           h == [x \in D \X V |-> x[2] \o ss[x[1]]]
           Is(f) == f = [i \in 1 .. Len(ss) |-> IF i = 1 THEN ss[i] ELSE f[i - 1] \o ss[i]]
<1>1. n \in Nat /\ n # 0 /\ \A i \in D : ss[i] \in V
  OBVIOUS
<1>2. p \in [D -> D] /\ m \in [D -> Nat] /\ Descends(D, B, p, m)
  BY <1>1 DEF Descends
<1>3. b \in [D -> V] /\ h \in [D \X V -> V]
  <2>1. \A i \in D, v \in V : v \o ss[i] \in V
    BY <1>1
  <2> HIDE DEF V, D
  <2> QED
    BY <1>1, <2>1
<1>4. PICK f \in [D -> V] : Meets(f, D, B, b, p, h)
  <2> HIDE DEF D, V, B, b, p, m, h
  <2> QED
    BY <1>2, <1>3, Recursion DEF Recursive
<1>5. ASSUME NEW i \in D
      PROVE  f[i] = IF i = 1 THEN ss[i] ELSE f[i - 1] \o ss[i]
  <2>1. CASE i = 1
    <3>1. f[i] = b[i]
      <4> HIDE DEF D, V, b, p, h
      <4> QED
        BY <1>4, <2>1 DEF Meets
    <3> QED
      BY <2>1, <3>1
  <2>2. CASE i # 1
    <3>1. p[i] = i - 1 /\ p[i] \in D
      BY <1>1, <2>2
    <3>2. f[i] = h[<<i, f[p[i]]>>]
      <4> HIDE DEF D, V, b, p, h
      <4> QED
        BY <1>4, <2>2 DEF Meets
    <3>3. f[p[i]] \in V
      BY <3>1, <1>4
    <3> HIDE DEF V, D, p
    <3>4. h[<<i, f[p[i]]>>] = f[p[i]] \o ss[i]
      BY <3>3
    <3> HIDE DEF h
    <3> QED
      BY <2>2, <3>1, <3>2, <3>4
  <2> QED
    BY <2>1, <2>2
<1>6. Is(f)
  <2>1. f = [i \in D |-> f[i]]
    OBVIOUS
  <2> QED
    BY <1>5, <2>1
<1>7. Is(CHOOSE g : Is(g))
  <2> HIDE DEF Is
  <2> QED
    BY <1>6
<1> DEFINE g == CHOOSE g : Is(g)
<1>8. FlattenSeq(ss) = g[Len(ss)]
  BY <1>1 DEF FlattenSeq
<1> HIDE DEF g
<1>9. Flattens(g, ss)
  <2>1. \A i \in 1 .. Len(ss) : g[i] = IF i = 1 THEN ss[i] ELSE g[i - 1] \o ss[i]
    BY <1>7 DEF g
  <2> DEFINE P == {i \in Nat : i \in D => g[i] \in V}
  <2>2. ASSUME NEW i \in Nat, \A j \in Nat : j < i => j \in P
        PROVE  i \in P
    <3>1. CASE i \notin D \/ i = 1
      BY <1>1, <2>1, <3>1
    <3>2. CASE i \in D /\ i # 1
      <4>1. i - 1 \in Nat /\ i - 1 \in D /\ i - 1 < i
        BY <1>1, <3>2
      <4>2. g[i - 1] \in V /\ ss[i] \in V
        BY <4>1, <2>2, <1>1, <3>2
      <4>3. g[i - 1] \o ss[i] \in V
        BY <4>2
      <4> QED
        BY <3>2, <2>1, <4>3
    <3> QED
      BY <3>1, <3>2
  <2> HIDE DEF P
  <2>3. Nat \subseteq P
    BY <2>2, Induction
  <2>4. \A i \in D : g[i] \in V
    <3>1. D \subseteq Nat
      OBVIOUS
    <3> QED
      BY <2>3, <3>1 DEF P
  <2>5. DOMAIN g = D /\ g = [i \in D |-> g[i]]
    BY <1>7, ZenonT(30) DEF g
  <2> QED
    BY <2>1, <2>4, <2>5 DEF Flattens
<1> QED
  BY <1>8, <1>9

LEMMA FlattenUnique ==
    ASSUME NEW ss \in Seq(Seq(Byte)), NEW f, NEW g, Flattens(f, ss), Flattens(g, ss)
    PROVE  \A i \in 1 .. Len(ss) : f[i] = g[i]
<1> DEFINE P == {i \in Nat : i \in 1 .. Len(ss) => f[i] = g[i]}
<1>1. ASSUME NEW i \in Nat, \A j \in Nat : j < i => j \in P
      PROVE  i \in P
  <2>1. CASE i \notin 1 .. Len(ss) \/ i = 1
    BY <2>1 DEF Flattens
  <2>2. CASE i \in 1 .. Len(ss) /\ i # 1
    <3>1. i - 1 \in Nat /\ i - 1 \in 1 .. Len(ss) /\ i - 1 < i
      BY <2>2
    <3>2. f[i - 1] = g[i - 1]
      BY <3>1, <1>1
    <3> QED
      BY <2>2, <3>2 DEF Flattens
  <2> QED
    BY <2>1, <2>2
<1> HIDE DEF P
<1>2. Nat \subseteq P
  BY <1>1, Induction
<1>3. 1 .. Len(ss) \subseteq Nat
  OBVIOUS
<1> QED
  BY <1>2, <1>3 DEF P

\* The first of the sequences stands first, and the rest is the others'.
LEMMA FlattenHead ==
    ASSUME NEW ss \in Seq(Seq(Byte)), ss # <<>>
    PROVE  /\ FlattenSeq(Tail(ss)) \in Seq(Byte)
           /\ FlattenSeq(ss) = Head(ss) \o FlattenSeq(Tail(ss))
<1>1. PICK f : Flattens(f, ss) /\ FlattenSeq(ss) = f[Len(ss)]
  BY FlattenExists
<1>2. Head(ss) \in Seq(Byte) /\ Tail(ss) \in Seq(Seq(Byte)) /\ Head(ss) = ss[1]
  BY TailShrinks
<1>3. CASE Len(ss) = 1
  <2>1. Tail(ss) = <<>>
    BY <1>3, OneLeft
  <2>2. FlattenSeq(ss) = Head(ss)
    BY <1>3, <1>1, <1>2 DEF Flattens
  <2>3. FlattenSeq(Tail(ss)) = <<>>
    BY <2>1 DEF FlattenSeq
  <2>4. <<>> \in Seq(Byte) /\ Head(ss) \o <<>> = Head(ss)
    BY <1>2, ConcatEmpty
  <2> QED
    BY <2>2, <2>3, <2>4
<1>4. CASE Len(ss) # 1
  <2> DEFINE t == Tail(ss)
             n == Len(ss)
             x == Head(ss)
  <2>1. PICK g : Flattens(g, t) /\ FlattenSeq(t) = g[Len(t)]
    <3>1. t # <<>>
      BY <1>4, OneLeft
    <3> QED
      BY <1>2, <3>1, FlattenExists
  <2>2. Len(t) = n - 1 /\ n \in Nat /\ n > 1 /\ \A i \in 1 .. n - 1 : t[i] = ss[i + 1]
    <3>1. n > 1
      BY <1>4, OneLeft
    <3> QED
      BY <3>1
  <2>3. \A i \in 1 .. n - 1 : g[i] \in Seq(Byte)
    BY <2>1, <2>2 DEF Flattens
  <2>4. \A i \in 1 .. n : ss[i] \in Seq(Byte)
    OBVIOUS
  <2> DEFINE h == [i \in 1 .. n |-> IF i = 1 THEN x ELSE x \o g[i - 1]]
  <2>5. ASSUME NEW i \in 1 .. n
        PROVE  /\ h[i] \in Seq(Byte)
               /\ h[i] = IF i = 1 THEN ss[i] ELSE h[i - 1] \o ss[i]
    <3> HIDE DEF t, n, x
    <3>1. x \in Seq(Byte) /\ x = ss[1]
      BY <1>2 DEF x
    <3>2. CASE i = 1
      BY <3>1, <3>2
    <3>3. CASE i = 2
      <4>1. 1 \in 1 .. n - 1 /\ 1 \in 1 .. n /\ i - 1 = 1 /\ i # 1
        BY <3>3, <2>2
      <4>2. h[i] = x \o g[1] /\ h[i - 1] = x
        BY <3>3, <4>1
      <4>3. g[1] \in Seq(Byte)
        BY <4>1, <2>3
      <4>4. g[1] = t[1]
        BY <4>1, <2>1, <2>2 DEF Flattens
      <4>5. t[1] = ss[1 + 1] /\ 1 + 1 = i
        BY <3>3, <4>1, <2>2
      <4>6. x \o g[1] \in Seq(Byte)
        BY <3>1, <4>3
      <4> HIDE DEF h
      <4> QED
        BY <4>1, <4>2, <4>4, <4>5, <4>6
    <3>4. CASE i > 2
      <4>1. i - 1 \in 1 .. n - 1 /\ i - 2 \in 1 .. n - 1 /\ i - 1 \in 1 .. n /\ i - 1 # 1
            /\ (i - 1) - 1 = i - 2 /\ (i - 1) + 1 = i
        BY <3>4, <2>2
      <4>2. h[i] = x \o g[i - 1] /\ h[i - 1] = x \o g[i - 2]
        <5>1. h[i] = x \o g[i - 1]
          BY <3>4, <4>1, SMTT(30)
        <5>2. h[i - 1] = x \o g[(i - 1) - 1]
          BY <4>1, SMTT(30)
        <5> QED
          BY <4>1, <5>1, <5>2, Zenon
      <4>3. g[i - 1] = g[i - 2] \o ss[i]
        BY <4>1, <2>1, <2>2, ZenonT(30) DEF Flattens
      <4>4. g[i - 2] \in Seq(Byte) /\ ss[i] \in Seq(Byte) /\ g[i - 1] \in Seq(Byte)
        BY <4>1, <2>3, <2>4 DEF n
      <4> HIDE DEF h
      <4>5. x \o (g[i - 2] \o ss[i]) = (x \o g[i - 2]) \o ss[i]
        BY <3>1, <4>4, BytesAssociate
      <4>6. x \o g[i - 1] \in Seq(Byte)
        BY <3>1, <4>4
      <4>7. i # 1
        BY <3>4
      <4> QED
        BY <4>2, <4>3, <4>5, <4>6, <4>7
    <3>5. i = 1 \/ i = 2 \/ i > 2
      BY <2>2
    <3> QED
      BY <3>2, <3>3, <3>4, <3>5
  <2>6. Flattens(h, ss)
    <3>1. h \in [1 .. n -> Seq(Byte)]
      BY <2>5
    <3> HIDE DEF h
    <3> QED
      BY <2>5, <3>1 DEF Flattens
  <2>7. f[n] = h[n]
    <3>1. n \in 1 .. Len(ss)
      BY <2>2
    <3> HIDE DEF h, n
    <3> QED
      BY <1>1, <2>6, <3>1, FlattenUnique
  <2>8. h[n] = x \o g[n - 1]
    <3> HIDE DEF n, x
    <3> QED
      BY <2>2
  <2>9. FlattenSeq(t) = g[n - 1] /\ g[n - 1] \in Seq(Byte)
    <3>1. n - 1 \in 1 .. n - 1
      BY <2>2
    <3> HIDE DEF t, n
    <3> QED
      BY <2>1, <2>2, <2>3, <3>1
  <2> HIDE DEF t, n, x, h
  <2> QED
    BY <1>1, <2>7, <2>8, <2>9 DEF t, n, x
<1> QED
  BY <1>3, <1>4

-------------------------------------------------------------------------------
(* What is left of any buffer, well-formed or not *)

Suffix(s, t) == \E u \in Seq(Byte) : t = u \o s

\* An outcome of reading b: what it leaves is at the end of b.
Leaves(o, b) == o.rest \in Seq(Byte) /\ Suffix(o.rest, b)

LEMMA SuffixItself ==
    \A b \in Seq(Byte) : Suffix(b, b)
<1> TAKE b \in Seq(Byte)
<1>1. b = <<>> \o b /\ <<>> \in Seq(Byte)
  BY ConcatEmpty
<1> QED
  BY <1>1 DEF Suffix

LEMMA SuffixOfSuffix ==
    ASSUME NEW s \in Seq(Byte), NEW t \in Seq(Byte), NEW u \in Seq(Byte),
           Suffix(s, t), Suffix(t, u)
    PROVE  Suffix(s, u)
<1>1. PICK x \in Seq(Byte), y \in Seq(Byte) : t = x \o s /\ u = y \o t
  BY DEF Suffix
<1>2. u = (y \o x) \o s /\ y \o x \in Seq(Byte)
  <2>1. (y \o x) \o s = y \o (x \o s)
    BY BytesAssociate, Zenon
  <2>2. y \o x \in Seq(Byte)
    BY ConcatBytes
  <2> QED
    BY <1>1, <2>1, <2>2, Zenon
<1> QED
  BY <1>2 DEF Suffix

LEMMA SuffixTail ==
    ASSUME NEW b \in Seq(Byte), b # <<>>
    PROVE  /\ Tail(b) \in Seq(Byte) /\ Suffix(Tail(b), b)
           /\ Head(b) \in Nat /\ Head(b) \in Byte
<1>1. Head(b) \in Byte /\ Tail(b) \in Seq(Byte) /\ b = <<Head(b)>> \o Tail(b)
  BY TailShrinks
<1>2. <<Head(b)>> \in Seq(Byte)
  BY <1>1
<1> QED
  BY <1>1, <1>2, ByteIsNat DEF Suffix

LEMMA SuffixDrop ==
    ASSUME NEW b \in Seq(Byte), NEW n \in Nat, ~ (n > Len(b))
    PROVE  Drop(b, n) \in Seq(Byte) /\ Suffix(Drop(b, n), b) /\ Take(b, n) \in Seq(Byte)
<1> DEFINE t == Take(b, n)
           d == Drop(b, n)
<1>1. t \in Seq(Byte) /\ Len(t) = n /\ \A i \in 1 .. n : t[i] = b[i]
  BY DEF Take
<1>2. d \in Seq(Byte) /\ Len(d) = Len(b) - n /\ \A i \in 1 .. Len(b) - n : d[i] = b[i + n]
  BY DEF Drop
<1> HIDE DEF t, d
<1>3. t \o d \in Seq(Byte) /\ Len(t \o d) = Len(b)
  BY <1>1, <1>2
<1>4. ASSUME NEW i \in 1 .. Len(b) PROVE b[i] = (t \o d)[i]
  <2>1. CASE i <= n
    BY <2>1, <1>1, <1>2
  <2>2. CASE ~ (i <= n)
    <3>1. (t \o d)[i] = d[i - n] /\ i - n \in 1 .. Len(b) - n /\ (i - n) + n = i
      BY <2>2, <1>1, <1>2
    <3> QED
      BY <3>1, <1>2
  <2> QED
    BY <2>1, <2>2
<1>5. b = t \o d
  BY <1>3, <1>4, SeqEqual
<1> QED
  BY <1>1, <1>2, <1>5 DEF Suffix, t, d

\* Suffix is the IsSuffix of SequencesExt.
LEMMA SuffixIs ==
    ASSUME NEW s \in Seq(Byte), NEW t \in Seq(Byte), Suffix(s, t)
    PROVE  IsSuffix(s, t)
<1>1. PICK u \in Seq(Byte) : t = u \o s
  BY DEF Suffix
<1> DEFINE n == Len(s)
           k == Len(u)
           r == Reverse(s)
           q == Reverse(t)
<1>2. n \in Nat /\ k \in Nat /\ Len(t) = k + n
  BY <1>1
<1>3. /\ r = [i \in 1 .. n |-> s[(n - i) + 1]]
      /\ q = [i \in 1 .. k + n |-> t[((k + n) - i) + 1]]
  BY <1>2 DEF Reverse
<1>4. r \in Seq(Byte) /\ Len(r) = n
  <2>1. \A i \in 1 .. n : s[(n - i) + 1] \in Byte
    OBVIOUS
  <2>2. r \in [1 .. n -> Byte]
    BY <1>3, <2>1
  <2> HIDE DEF r, n
  <2> QED
    BY <1>2, <2>2, BytesOfLength
<1>5. q \in Seq(Byte) /\ Len(q) = k + n
  <2>1. \A i \in 1 .. k + n : t[((k + n) - i) + 1] \in Byte
    BY <1>2
  <2>2. q \in [1 .. k + n -> Byte]
    BY <1>3, <2>1
  <2>3. k + n \in Nat
    BY <1>2
  <2> HIDE DEF q, n, k
  <2> QED
    BY <2>2, <2>3, BytesOfLength
<1>6. \A i \in 1 .. n : r[i] = q[i]
  <2> TAKE i \in 1 .. n
  <2>1. r[i] = s[(n - i) + 1] /\ q[i] = t[((k + n) - i) + 1]
    BY <1>2, <1>3
  <2>2. (n - i) + 1 \in 1 .. n /\ ((k + n) - i) + 1 = k + ((n - i) + 1)
    BY <1>2
  <2>3. \A j \in 1 .. n : (u \o s)[k + j] = s[j]
    BY <1>2
  <2> HIDE DEF r, q, n, k
  <2> QED
    BY <1>1, <2>1, <2>2, <2>3
<1>7. SubSeq(r, 1, n) = SubSeq(q, 1, n)
  <2> HIDE DEF r, q, n, k
  <2>1. n <= k + n
    BY <1>2
  <2>2. SubSeq(r, 1, n) = [i \in 1 .. n |-> r[i]] /\ SubSeq(q, 1, n) = [i \in 1 .. n |-> q[i]]
    BY <1>2, <1>4, <1>5, <2>1
  <2> QED
    BY <1>6, <2>2
<1> HIDE DEF r, q, n, k
<1>8. IsPrefix(r, q)
  BY <1>2, <1>4, <1>5, <1>7 DEF IsPrefix
<1> QED
  BY <1>8 DEF IsSuffix, r, q

LEMMA RestLeaves ==
    \A b \in Seq(Byte) : /\ VarintRest[b] \in NumberRead
                         /\ VarintRest[b].is = "ok" => Leaves(VarintRest[b], b)
<1> DEFINE P == {n \in Nat : \A b \in Seq(Byte) :
                     Len(b) = n => (VarintRest[b].is = "ok" => Leaves(VarintRest[b], b))}
<1>1. ASSUME NEW n \in Nat, \A k \in Nat : k < n => k \in P
      PROVE  n \in P
  <2> SUFFICES ASSUME NEW b \in Seq(Byte), Len(b) = n, VarintRest[b].is = "ok"
               PROVE  Leaves(VarintRest[b], b)
    OBVIOUS
  <2>1. CASE b = <<>>
    <3>1. VarintRest[b] = Outcome("error", 0, b)
      BY <2>1, VarintRestIs
    <3> QED
      BY <3>1 DEF Outcome
  <2>2. CASE b # <<>> /\ Head(b) < 128
    <3>1. VarintRest[b] = Outcome("ok", Head(b), Tail(b))
      BY <2>2, VarintRestIs
    <3>2. VarintRest[b].rest = Tail(b)
      BY <3>1 DEF Outcome
    <3> QED
      BY <3>2, <2>2, SuffixTail DEF Leaves
  <2>3. CASE b # <<>> /\ ~ (Head(b) < 128)
    <3> DEFINE t == Tail(b)
    <3>1. VarintRest[b] = [VarintRest[t] EXCEPT !.val = Head(b) + 128 * @]
      BY <2>3, VarintRestIs
    <3>2. t \in Seq(Byte) /\ Suffix(t, b) /\ Len(t) \in Nat /\ Len(t) < n
      BY <2>3, SuffixTail, TailShrinks
    <3> HIDE DEF t
    <3>3. VarintRest[t] \in NumberRead
      BY <3>2, VarintRestIs
    <3>4. VarintRest[b].is = VarintRest[t].is /\ VarintRest[b].rest = VarintRest[t].rest
      BY <3>1, <3>3 DEF NumberRead
    <3>5. Leaves(VarintRest[t], t)
      BY <3>2, <3>4, <1>1
    <3> QED
      BY <3>2, <3>4, <3>5, SuffixOfSuffix DEF Leaves
  <2> QED
    BY <2>1, <2>2, <2>3
<1> HIDE DEF P
<1>2. Nat \subseteq P
  BY <1>1, Induction
<1>3. ASSUME NEW b \in Seq(Byte)
      PROVE  VarintRest[b].is = "ok" => Leaves(VarintRest[b], b)
  <2>1. Len(b) \in P
    BY <1>2
  <2> QED
    BY <2>1 DEF P
<1> QED
  BY <1>3, VarintRestIs

LEMMA VarintLeaves ==
    ASSUME NEW b \in Seq(Byte)
    PROVE  Varint(b) \in NumberRead /\ Leaves(Varint(b), b)
<1>1. CASE b = <<>>
  <2>1. Varint(b) = Outcome("error", 0, b)
    BY <1>1 DEF Varint
  <2>2. Varint(b).rest = b
    BY <2>1 DEF Outcome
  <2> QED
    BY <2>1, <2>2, SuffixItself, OutcomeIsRead DEF Leaves
<1>2. CASE b # <<>> /\ Head(b) < 240
  <2>1. Varint(b) = Outcome("ok", Head(b), Tail(b))
    BY <1>2 DEF Varint
  <2>2. Varint(b).rest = Tail(b)
    BY <2>1 DEF Outcome
  <2> QED
    BY <2>1, <2>2, <1>2, SuffixTail, OutcomeIsRead DEF Leaves
<1>3. CASE b # <<>> /\ ~ (Head(b) < 240)
  <2> DEFINE t == Tail(b)
             more == VarintRest[t]
             sum == Head(b) + FirstUnit * more.val
  <2>1. t \in Seq(Byte) /\ Suffix(t, b) /\ Head(b) \in Nat
    BY <1>3, SuffixTail
  <2>2. more \in NumberRead /\ (more.is = "ok" => Leaves(more, t))
    BY <2>1, RestLeaves
  <2>3. Varint(b) = IF more.is = "ok" THEN Outcome("ok", sum, more.rest)
                    ELSE Outcome("error", 0, b)
    BY <1>3 DEF Varint
  <2> HIDE DEF t
  <2>4. sum \in Nat
    <3>1. more.val \in Nat
      BY <2>2 DEF NumberRead
    <3> HIDE DEF more
    <3> QED
      BY <2>1, <3>1 DEF FirstUnit
  <2> HIDE DEF sum, more
  <2>5. CASE more.is = "ok"
    <3>1. Varint(b).rest = more.rest
      BY <2>3, <2>5 DEF Outcome
    <3>2. more.rest \in Seq(Byte) /\ Suffix(more.rest, t)
      BY <2>2, <2>5 DEF Leaves
    <3> QED
      BY <2>1, <2>3, <2>4, <2>5, <3>1, <3>2, SuffixOfSuffix, OutcomeIsRead DEF Leaves
  <2>6. CASE more.is # "ok"
    <3>1. Varint(b) = Outcome("error", 0, b)
      BY <2>3, <2>6
    <3>2. Varint(b).rest = b
      BY <3>1 DEF Outcome
    <3> QED
      BY <3>1, <3>2, SuffixItself, OutcomeIsRead DEF Leaves
  <2> QED
    BY <2>5, <2>6
<1> QED
  BY <1>1, <1>2, <1>3

Ways == {"ok", "error", "panic"}

LEMMA FixedLeaves ==
    ASSUME NEW b \in Seq(Byte), NEW n \in Nat
    PROVE  /\ Fixed(b, n).is \in Ways /\ Fixed(b, n).val \in Seq(Byte)
           /\ Leaves(Fixed(b, n), b)
  BY SuffixDrop, SuffixItself DEF Fixed, Outcome, Ways, Leaves

LEMMA BytesLeave ==
    ASSUME NEW b \in Seq(Byte)
    PROVE  /\ Bytes(b).is \in Ways /\ Bytes(b).val \in Seq(Byte)
           /\ Leaves(Bytes(b), b)
<1> DEFINE l == Varint(b)
<1>1. l \in NumberRead /\ l.rest \in Seq(Byte) /\ Suffix(l.rest, b)
  BY VarintLeaves DEF Leaves
<1>2. Bytes(b) = IF l.is = "ok" THEN Fixed(l.rest, l.val) ELSE Outcome(l.is, <<>>, b)
  BY DEF Bytes
<1> HIDE DEF l
<1>3. l.is \in Ways /\ l.val \in Nat
  BY <1>1 DEF NumberRead, Ways
<1>4. CASE l.is = "ok"
  <2>1. Fixed(l.rest, l.val).is \in Ways /\ Fixed(l.rest, l.val).val \in Seq(Byte)
        /\ Leaves(Fixed(l.rest, l.val), l.rest)
    BY <1>1, <1>3, FixedLeaves
  <2> QED
    BY <1>1, <1>2, <1>4, <2>1, SuffixOfSuffix DEF Leaves
<1>5. CASE l.is # "ok"
  BY <1>2, <1>3, <1>5, SuffixItself DEF Leaves, Outcome
<1> QED
  BY <1>4, <1>5

LEMMA ValueLeaves ==
    ASSUME NEW b \in Seq(Byte), NEW t
    PROVE  Value(t, b).is \in Ways /\ Leaves(Value(t, b), b)
<1> USE DEF Null, Bool, Int32, UInt32, Int64, UInt64, Numbers, IPV4, IPV6, String, Binary
<1>1. CASE t \in {Null, Bool}
  <2>1. Value(t, b) = Outcome("ok", <<>>, b)
    BY <1>1 DEF Value
  <2> QED
    BY <2>1, SuffixItself DEF Outcome, Ways, Leaves
<1>2. CASE t \in Numbers /\ t \notin {Null, Bool}
  <2>1. Value(t, b) = Outcome(Varint(b).is, <<Varint(b).val>>, Varint(b).rest)
    BY <1>2 DEF Value
  <2>2. Varint(b).is \in Ways /\ Leaves(Varint(b), b)
    BY VarintLeaves DEF NumberRead, Ways
  <2>3. Value(t, b).is = Varint(b).is /\ Value(t, b).rest = Varint(b).rest
    BY <2>1 DEF Outcome
  <2> QED
    BY <2>2, <2>3 DEF Leaves
<1>3. CASE t \notin Numbers \cup {Null, Bool}
  <2>1. \/ Value(t, b) = Fixed(b, 4)
        \/ Value(t, b) = Fixed(b, 16)
        \/ Value(t, b) = Bytes(b)
        \/ Value(t, b) = Outcome("error", <<>>, b)
    BY <1>3 DEF Value
  <2>2. Outcome("error", <<>>, b).is \in Ways /\ Leaves(Outcome("error", <<>>, b), b)
    BY SuffixItself DEF Outcome, Ways, Leaves
  <2>3. 4 \in Nat /\ 16 \in Nat
    OBVIOUS
  <2> QED
    BY <2>1, <2>2, <2>3, FixedLeaves, BytesLeave
<1> QED
  BY <1>1, <1>2, <1>3

LEMMA OutcomeFields ==
    ASSUME NEW b \in Seq(Byte), NEW t
    PROVE  /\ DOMAIN Value(t, b) = {"is", "val", "rest"}
           /\ DOMAIN Typed(b) = {"is", "val", "rest"}
<1>1. \A u, x : DOMAIN Value(u, x) = {"is", "val", "rest"}
  BY DEF Value, Fixed, Bytes, Outcome
<1> HIDE DEF Value
<1>2. DOMAIN Typed(b) = {"is", "val", "rest"}
  <2>1. CASE b = <<>>
    BY <2>1 DEF Typed, Outcome
  <2>2. CASE b # <<>>
    BY <2>2, <1>1 DEF Typed
  <2> QED
    BY <2>1, <2>2
<1> QED
  BY <1>1, <1>2

LEMMA TypedLeaves ==
    ASSUME NEW b \in Seq(Byte)
    PROVE  Typed(b).is \in Ways /\ Leaves(Typed(b), b)
<1>1. CASE b = <<>>
  BY <1>1, SuffixItself DEF Typed, Outcome, Ways, Leaves
<1>2. CASE b # <<>>
  <2> DEFINE t == Head(b) % 16
             v == Value(t, Tail(b))
  <2>1. Typed(b) = [v EXCEPT !.val = [type |-> t, true |-> (Head(b) \div 16) % 2 = 1, val |-> @]]
    BY <1>2 DEF Typed
  <2>2. Tail(b) \in Seq(Byte) /\ Suffix(Tail(b), b)
    BY <1>2, SuffixTail
  <2>3. v.is \in Ways /\ Leaves(v, Tail(b))
    BY <2>2, ValueLeaves
  <2>4. DOMAIN v = {"is", "val", "rest"}
    BY <2>2, OutcomeFields
  <2> HIDE DEF v, t
  <2>5. Typed(b).is = v.is /\ Typed(b).rest = v.rest
    BY <2>1, <2>4
  <2> QED
    BY <2>2, <2>3, <2>5, SuffixOfSuffix DEF Leaves
<1> QED
  BY <1>1, <1>2
===============================================================================

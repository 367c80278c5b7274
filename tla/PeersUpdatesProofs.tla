-------------------------- MODULE PeersUpdatesProofs --------------------------
(****************************************************************************)
(* Theorems about the stick table codec and the updates of a peers session, *)
(* for all tables, keys and data that can be sent.                          *)
(****************************************************************************)
EXTENDS PeersUpdates, EncodingProofs, FiniteSetTheorems

-------------------------------------------------------------------------------
(* Numbers *)

\* The four bytes of a number.
LEMMA Put32IsBytes ==
    ASSUME NEW n \in Nat
    PROVE  Put32(n) \in Seq(Byte) /\ Len(Put32(n)) = 4
<1> DEFINE a == ((n \div Half) \div 256) % 256
           b == (n \div Half) % 256
           c == (n \div 256) % 256
           d == n % 256
<1>1. n \div Half \in Nat
  BY DEF Half
<1>2. a \in Nat /\ b \in Nat /\ c \in Nat /\ d \in Nat /\ a < 256 /\ b < 256 /\ c < 256 /\ d < 256
  BY <1>1
<1>3. a \in Byte /\ b \in Byte /\ c \in Byte /\ d \in Byte
  <2> HIDE DEF a, b, c, d
  <2> QED
    BY <1>2, ByteIsNat
<1>4. Put32(n) = <<a, b, c, d>>
  BY DEF Put32
<1> HIDE DEF a, b, c, d
<1> QED
  BY <1>3, <1>4

\* 32 bits are read as they were written.
LEMMA WordIsRead ==
    ASSUME NEW n, Word(n), NEW r \in Seq(Byte)
    PROVE  Get32(Put32(n) \o r) = Outcome("ok", n, r)
<1> DEFINE x == Put32(n)
<1>1. n \in Nat /\ x \in Seq(Byte) /\ Len(x) = 4
  BY Put32IsBytes DEF Word
<1>2. Len(x \o r) = 4 + Len(r) /\ Take(x \o r, 4) = x /\ Drop(x \o r, 4) = r
  <2> HIDE DEF x
  <2>1. Len(x \o r) = Len(x) + Len(r) /\ Take(x \o r, Len(x)) = x /\ Drop(x \o r, Len(x)) = r
    <3>1. x \in Seq(Byte)
      BY <1>1
    <3> QED
      BY <3>1, ConcatBytes, ZenonT(30)
  <2>2. Len(x) = 4
    BY <1>1
  <2> QED
    BY <2>1, <2>2, ZenonT(30)
<1>3. Fixed(x \o r, 4) = Outcome("ok", x, r)
  BY <1>1, FixedIsRead
<1>4. Half * (256 * x[1] + x[2]) + 256 * x[3] + x[4] = n
  <2> DEFINE h == n \div Half
  <2>1. /\ x[1] = (h \div 256) % 256 /\ x[2] = h % 256
        /\ x[3] = (n \div 256) % 256 /\ x[4] = n % 256
    BY DEF Put32
  <2>2. h \in Nat /\ h < 256 * 256
    BY <1>1 DEF Word, Half
  <2>3. n = 256 * (256 * h) + 256 * ((n \div 256) % 256) + (n % 256)
    BY <1>1 DEF Half
  <2> HIDE DEF x, h
  <2>4. 256 * x[1] + x[2] = h
    BY <2>1, <2>2
  <2>5. h \in Nat /\ x[3] \in Nat /\ x[4] \in Nat
    BY <1>1, <2>1, <2>2
  <2>6. Half * h = 256 * (256 * h)
    BY <2>2 DEF Half
  <2>7. Half * (256 * x[1] + x[2]) = 256 * (256 * h)
    BY <2>4, <2>6, Zenon
  <2>8. n = 256 * (256 * h) + 256 * x[3] + x[4]
    <3>1. x[3] = (n \div 256) % 256 /\ x[4] = n % 256
      BY <2>1
    <3>2. n = 256 * (256 * h) + 256 * x[3] + (n % 256)
      BY <2>3, <3>1
    <3> QED
      BY <3>1, <3>2
  <2> QED
    BY <2>7, <2>8, ZenonT(30)
<1>5. ~ (Len(x \o r) < 4)
  BY <1>2
<1>6. Fixed(x \o r, 4).val = x
  BY <1>3 DEF Outcome
<1> HIDE DEF x
<1> QED
  BY <1>2, <1>4, <1>5, <1>6 DEF Get32, x

-------------------------------------------------------------------------------
(* One after the other *)

\* Without the first i, and without one more.
LEMMA DropOneMore ==
    ASSUME NEW S, NEW v \in Seq(S), NEW i \in 1 .. Len(v)
    PROVE  /\ Drop(v, i - 1) \in Seq(S) /\ Drop(v, i - 1) # <<>> /\ v[i] \in S
           /\ Head(Drop(v, i - 1)) = v[i] /\ Tail(Drop(v, i - 1)) = Drop(v, i)
<1> DEFINE n == Len(v)
           s == Drop(v, i - 1)
           t == Drop(v, i)
<1>1. n \in Nat /\ i \in Nat /\ i > 0 /\ i <= n
  OBVIOUS
<1>2. /\ s \in Seq(S) /\ Len(s) = (n - i) + 1 /\ \A k \in 1 .. (n - i) + 1 : s[k] = v[(i - 1) + k]
  BY DEF Drop
<1>3. /\ t \in Seq(S) /\ Len(t) = n - i /\ \A k \in 1 .. n - i : t[k] = v[i + k]
  BY DEF Drop
<1> HIDE DEF s, t
<1>4. s # <<>> /\ Head(s) = s[1] /\ s[1] = v[i]
  BY <1>1, <1>2
<1>5. Tail(s) \in Seq(S) /\ Len(Tail(s)) = n - i /\ \A k \in 1 .. n - i : Tail(s)[k] = s[k + 1]
  BY <1>1, <1>2, <1>4
<1>6. ASSUME NEW k \in 1 .. n - i PROVE Tail(s)[k] = t[k]
  <2>1. k + 1 \in 1 .. (n - i) + 1 /\ (i - 1) + (k + 1) = i + k
    BY <1>1
  <2> QED
    BY <2>1, <1>2, <1>3, <1>5
<1>7. Tail(s) = t
  BY <1>1, <1>3, <1>5, <1>6, SeqEqual
<1> QED
  BY <1>2, <1>4, <1>7 DEF s, t

\* What is left of a sequence of byte strings.
LEMMA FlattenDrop ==
    ASSUME NEW ss \in Seq(Seq(Byte))
    PROVE  /\ \A i \in 0 .. Len(ss) : FlattenSeq(Drop(ss, i)) \in Seq(Byte)
           /\ \A i \in 1 .. Len(ss) :
                  FlattenSeq(Drop(ss, i - 1)) = ss[i] \o FlattenSeq(Drop(ss, i))
           /\ Drop(ss, 0) = ss
           /\ FlattenSeq(Drop(ss, Len(ss))) = <<>>
<1>1. /\ Drop(ss, 0) = ss /\ Drop(ss, Len(ss)) = <<>>
      /\ \A i \in 0 .. Len(ss) : Drop(ss, i) \in Seq(Seq(Byte)) /\ Len(Drop(ss, i)) = Len(ss) - i
  BY DEF Drop
<1>2. FlattenSeq(<<>>) = <<>>
  BY DEF FlattenSeq
<1>3. ASSUME NEW i \in 1 .. Len(ss)
      PROVE  /\ FlattenSeq(Drop(ss, i)) \in Seq(Byte)
             /\ FlattenSeq(Drop(ss, i - 1)) = ss[i] \o FlattenSeq(Drop(ss, i))
             /\ FlattenSeq(Drop(ss, i - 1)) \in Seq(Byte)
  <2> DEFINE s == Drop(ss, i - 1)
  <2>1. /\ s \in Seq(Seq(Byte)) /\ s # <<>>
        /\ Head(s) = ss[i] /\ Tail(s) = Drop(ss, i) /\ ss[i] \in Seq(Byte)
    BY SMTT(60), DropOneMore
  <2> HIDE DEF s
  <2>2. /\ FlattenSeq(Tail(s)) \in Seq(Byte)
        /\ FlattenSeq(s) = Head(s) \o FlattenSeq(Tail(s))
    BY <2>1, FlattenHead
  <2>3. Head(s) \o FlattenSeq(Tail(s)) \in Seq(Byte)
    BY <2>1, <2>2
  <2> QED
    BY <2>1, <2>2, <2>3 DEF s
<1>4. ASSUME NEW i \in 0 .. Len(ss)
      PROVE  FlattenSeq(Drop(ss, i)) \in Seq(Byte)
  <2>1. CASE i = Len(ss)
    BY <2>1, <1>1, <1>2
  <2>2. CASE i # Len(ss)
    <3>1. i + 1 \in 1 .. Len(ss) /\ (i + 1) - 1 = i
      BY <2>2
    <3> QED
      BY <3>1, <1>3
  <2> QED
    BY <2>1, <2>2
<1> QED
  BY <1>1, <1>2, <1>3, <1>4

\* What follows the first i, and then r.
Rest(ss, i, r) == FlattenSeq(Drop(ss, i)) \o r

LEMMA RestIs ==
    ASSUME NEW ss \in Seq(Seq(Byte)), NEW r \in Seq(Byte)
    PROVE  /\ Rest(ss, 0, r) = FlattenSeq(ss) \o r
           /\ Rest(ss, Len(ss), r) = r
           /\ FlattenSeq(ss) \in Seq(Byte)
           /\ \A i \in 1 .. Len(ss) : /\ Rest(ss, i - 1, r) = ss[i] \o Rest(ss, i, r)
                                     /\ Rest(ss, i, r) \in Seq(Byte)
                                     /\ ss[i] \in Seq(Byte)
<1>1. Rest(ss, Len(ss), r) = r
  BY FlattenDrop, ConcatEmpty DEF Rest
<1>2. ASSUME NEW i \in 1 .. Len(ss)
      PROVE  /\ Rest(ss, i - 1, r) = ss[i] \o Rest(ss, i, r)
             /\ Rest(ss, i, r) \in Seq(Byte)
             /\ ss[i] \in Seq(Byte)
  <2>1. ss[i] \in Seq(Byte) /\ i \in 0 .. Len(ss)
    OBVIOUS
  <2> DEFINE t == FlattenSeq(Drop(ss, i))
  <2>2. t \in Seq(Byte) /\ FlattenSeq(Drop(ss, i - 1)) = ss[i] \o t
    BY <2>1, FlattenDrop
  <2>3. Rest(ss, i, r) = t \o r /\ Rest(ss, i - 1, r) = FlattenSeq(Drop(ss, i - 1)) \o r
    BY DEF Rest
  <2> HIDE DEF t
  <2>4. t \o r \in Seq(Byte)
    BY <2>2, ConcatProperties
  <2>5. (ss[i] \o t) \o r = ss[i] \o (t \o r)
    BY <2>1, <2>2, BytesAssociate, Zenon
  <2> QED
    BY <2>1, <2>2, <2>3, <2>4, <2>5
<1>3. FlattenSeq(ss) \in Seq(Byte)
  <2>1. 0 \in 0 .. Len(ss)
    OBVIOUS
  <2> QED
    BY <2>1, FlattenDrop
<1> QED
  BY <1>1, <1>2, <1>3, FlattenDrop DEF Rest

\* Two functions that are alike at 0 and go on alike.
LEMMA StepByStep ==
    ASSUME NEW n \in Nat, NEW f, NEW g, g[0] = f[0],
           \A i \in 1 .. n : g[i - 1] = f[i - 1] => g[i] = f[i]
    PROVE  g[n] = f[n]
<1> DEFINE P == {i \in Nat : i \in 0 .. n => g[i] = f[i]}
<1>1. ASSUME NEW i \in Nat, \A j \in Nat : j < i => j \in P
      PROVE  i \in P
  <2>1. CASE i = 0 \/ i \notin 0 .. n
    BY <2>1
  <2>2. CASE i \in 1 .. n
    <3>1. i - 1 \in Nat /\ i - 1 < i /\ i - 1 \in 0 .. n
      BY <2>2
    <3> QED
      BY <2>2, <3>1, <1>1
  <2> QED
    BY <2>1, <2>2
<1> HIDE DEF P
<1>2. n \in P
  BY <1>1, Induction
<1> QED
  BY <1>2 DEF P

\* The first i of a sequence, and one more.
LEMMA TakeOneMore ==
    ASSUME NEW S, NEW v \in Seq(S), NEW i \in 1 .. Len(v)
    PROVE  /\ Take(v, i - 1) \in Seq(S) /\ v[i] \in S
           /\ Append(Take(v, i - 1), v[i]) = Take(v, i)
  BY DEF Take

LEMMA TakeEnds ==
    ASSUME NEW S, NEW v \in Seq(S)
    PROVE  Take(v, 0) = <<>> /\ Take(v, Len(v)) = v
  BY DEF Take

\* Numbers are read as they were written, one after the other.
LEMMA VarintsAreRead ==
    ASSUME NEW v \in Seq(Nat), NEW r \in Seq(Byte)
    PROVE  /\ PutVarints(v) \in Seq(Byte)
           /\ Varints(PutVarints(v) \o r, Len(v)) = Outcome("ok", v, r)
<1> DEFINE n == Len(v)
           ss == [i \in DOMAIN v |-> PutVarint(v[i])]
           b == PutVarints(v) \o r
           H(o) == IF o.is = "ok" THEN Outcome(Varint(o.rest).is, Append(o.val, Varint(o.rest).val),
                                               Varint(o.rest).rest) ELSE o
           Is(g) == g = [i \in 0 .. n |-> IF i = 0 THEN Outcome("ok", <<>>, b) ELSE H(g[i - 1])]
           f == [i \in 0 .. n |-> Outcome("ok", Take(v, i), Rest(ss, i, r))]
<1>1. n \in Nat /\ DOMAIN v = 1 .. n /\ \A i \in 1 .. n : v[i] \in Nat
  OBVIOUS
<1>2. ss \in Seq(Seq(Byte)) /\ Len(ss) = n /\ \A i \in 1 .. n : ss[i] = PutVarint(v[i])
  <2>1. \A i \in 1 .. n : PutVarint(v[i]) \in Seq(Byte)
    BY <1>1, PutVarintBytes
  <2> QED
    BY <1>1, <2>1, SequenceOfLength
<1>3. PutVarints(v) = FlattenSeq(ss)
  BY DEF PutVarints
<1> HIDE DEF ss
<1>4. Rest(ss, 0, r) = b /\ Rest(ss, n, r) = r /\ PutVarints(v) \in Seq(Byte)
  BY <1>2, <1>3, RestIs
<1>5. ASSUME NEW i \in 1 .. n
      PROVE  H(f[i - 1]) = f[i]
  <2>1. i - 1 \in 0 .. n /\ i \in 0 .. n
    BY <1>1
  <2>2. Rest(ss, i - 1, r) = PutVarint(v[i]) \o Rest(ss, i, r) /\ Rest(ss, i, r) \in Seq(Byte)
    <3>1. i \in 1 .. Len(ss)
      BY <1>2
    <3>2. Rest(ss, i - 1, r) = ss[i] \o Rest(ss, i, r) /\ Rest(ss, i, r) \in Seq(Byte)
      <4>1. ss \in Seq(Seq(Byte))
        BY <1>2
      <4> QED
        BY <3>1, <4>1, RestIs
    <3>3. ss[i] = PutVarint(v[i])
      BY <1>2
    <3> QED
      BY <3>2, <3>3
  <2>3. Varint(Rest(ss, i - 1, r)) = Outcome("ok", v[i], Rest(ss, i, r))
    BY <1>1, <2>2, VarintIsRead
  <2>4. Append(Take(v, i - 1), v[i]) = Take(v, i)
    BY TakeOneMore
  <2>5. f[i - 1] = Outcome("ok", Take(v, i - 1), Rest(ss, i - 1, r)) /\ f[i] = Outcome("ok", Take(v, i), Rest(ss, i, r))
    BY <2>1
  <2> HIDE DEF f
  <2>6. f[i - 1].is = "ok" /\ f[i - 1].val = Take(v, i - 1) /\ f[i - 1].rest = Rest(ss, i - 1, r)
    BY <2>5 DEF Outcome
  <2>7. /\ Varint(Rest(ss, i - 1, r)).is = "ok" /\ Varint(Rest(ss, i - 1, r)).val = v[i]
        /\ Varint(Rest(ss, i - 1, r)).rest = Rest(ss, i, r)
    BY <2>3 DEF Outcome
  <2> QED
    BY <2>4, <2>5, <2>6, <2>7
<1>6. f[0] = Outcome("ok", <<>>, b) /\ f[n] = Outcome("ok", v, r)
  <2>1. Take(v, 0) = <<>> /\ Take(v, n) = v
    BY TakeEnds
  <2>2. 0 \in 0 .. n /\ n \in 0 .. n
    BY <1>1
  <2> HIDE DEF b
  <2> QED
    BY <1>4, <2>1, <2>2
<1>7. Is(f)
  <2>1. f = [i \in 0 .. n |-> f[i]]
    OBVIOUS
  <2>2. ASSUME NEW i \in 0 .. n
        PROVE  f[i] = IF i = 0 THEN Outcome("ok", <<>>, b) ELSE H(f[i - 1])
    <3>1. i = 0 \/ i \in 1 .. n
      BY <1>1
    <3> HIDE DEF f, H, b
    <3> QED
      BY <1>5, <1>6, <3>1
  <2> HIDE DEF f, H, b
  <2> QED
    BY <2>1, <2>2, Zenon
<1>8. PICK g : Is(g) /\ Varints(b, n) = g[n]
  <2>1. Is(CHOOSE g : Is(g))
    <3> HIDE DEF Is, f
    <3> QED
      BY <1>7
  <2>2. Varints(b, n) = (CHOOSE g : Is(g))[n]
    BY DEF Varints
  <2> HIDE DEF Is
  <2> QED
    BY <2>1, <2>2
<1> HIDE DEF f, H, b
<1>9. g[0] = f[0] /\ \A i \in 1 .. n : g[i] = H(g[i - 1])
  <2>1. 0 \in 0 .. n /\ \A i \in 1 .. n : i \in 0 .. n /\ i # 0
    BY <1>1
  <2>2. \A i \in 0 .. n : g[i] = IF i = 0 THEN Outcome("ok", <<>>, b) ELSE H(g[i - 1])
    BY <1>8
  <2> QED
    BY <1>6, <2>1, <2>2
<1> HIDE DEF Is
<1>10. g[n] = f[n]
  <2>1. \A i \in 1 .. n : g[i - 1] = f[i - 1] => g[i] = f[i]
    BY <1>5, <1>9
  <2> QED
    BY <1>1, <1>9, <2>1, StepByStep
<1> QED
  BY <1>4, <1>6, <1>8, <1>10 DEF b

-------------------------------------------------------------------------------
(* The bit field *)

LEMMA BitFieldIs ==
    ASSUME NEW T
    PROVE  \E g : /\ g[27] = 0 /\ BitField(T) = g[0]
                  /\ \A t \in 0 .. 26 :
                         g[t + 1] \in Nat /\ g[t] = (IF t \in T THEN 1 ELSE 0) + 2 * g[t + 1]
<1> DEFINE D == 0 .. 27
           B == {27}
           b == [t \in D |-> 0]
           p == [t \in D |-> IF t = 27 THEN 27 ELSE t + 1]
           m == [t \in D |-> 27 - t]
           Bit(t) == IF t \in T THEN 1 ELSE 0
           h == [x \in D \X Nat |-> Bit(x[1]) + 2 * x[2]]
           Is(f) == f = [t \in 0 .. 27 |-> IF t = 27 THEN 0 ELSE Bit(t) + 2 * f[t + 1]]
<1>1. p \in [D -> D] /\ m \in [D -> Nat] /\ b \in [D -> Nat]
  OBVIOUS
<1>2. Descends(D, B, p, m)
  BY DEF Descends
<1>3. \A t : Bit(t) \in Nat
  OBVIOUS
<1> HIDE DEF Bit
<1>4. h \in [D \X Nat -> Nat]
  <2>1. \A t \in D, n \in Nat : Bit(t) + 2 * n \in Nat
    BY <1>3
  <2> HIDE DEF D
  <2> QED
    BY <2>1
<1>5. PICK f \in [D -> Nat] : Meets(f, D, B, b, p, h)
  <2> HIDE DEF D, B, b, p, m, h
  <2> QED
    BY <1>1, <1>2, <1>4, Recursion DEF Recursive
<1>6. ASSUME NEW t \in D
      PROVE  f[t] = IF t = 27 THEN 0 ELSE Bit(t) + 2 * f[t + 1]
  <2>1. f[t] = IF t \in B THEN b[t] ELSE h[<<t, f[p[t]]>>]
    <3> HIDE DEF D, B, b, p, h
    <3> QED
      BY <1>5 DEF Meets
  <2>2. CASE t = 27
    <3>1. t \in B /\ b[t] = 0
      BY <2>2
    <3> HIDE DEF B, b, h, p
    <3> QED
      BY <2>1, <2>2, <3>1
  <2>3. CASE t # 27
    <3>1. p[t] = t + 1 /\ t + 1 \in D /\ t \notin B
      BY <2>3
    <3>2. f[t + 1] \in Nat
      BY <3>1
    <3> HIDE DEF D, B, b, p
    <3>3. h[<<t, f[t + 1]>>] = Bit(t) + 2 * f[t + 1]
      BY <3>2
    <3> HIDE DEF h
    <3> QED
      BY <2>1, <2>3, <3>1, <3>3
  <2> QED
    BY <2>2, <2>3
<1>7. Is(f)
  <2>1. f = [t \in D |-> f[t]]
    OBVIOUS
  <2> QED
    BY <1>6, <2>1, Zenon
<1>8. PICK g : Is(g) /\ BitField(T) = g[0]
  <2>1. Is(CHOOSE g : Is(g))
    <3> HIDE DEF Is
    <3> QED
      BY <1>7
  <2>2. BitField(T) = (CHOOSE g : Is(g))[0]
    BY DEF BitField, Bit
  <2> HIDE DEF Is
  <2> QED
    BY <2>1, <2>2
<1>9. g[27] = 0 /\ \A t \in 0 .. 26 : g[t] = Bit(t) + 2 * g[t + 1]
  <2>1. \A t \in 0 .. 27 : g[t] = IF t = 27 THEN 0 ELSE Bit(t) + 2 * g[t + 1]
    BY <1>8
  <2>2. 27 \in 0 .. 27 /\ \A t \in 0 .. 26 : t \in 0 .. 27 /\ t # 27
    OBVIOUS
  <2> QED
    BY <2>1, <2>2
<1>10. \A t \in 0 .. 26 : g[t + 1] \in Nat
  <2> DEFINE P == {n \in Nat : n \in 0 .. 27 => g[27 - n] \in Nat}
  <2>1. ASSUME NEW n \in Nat, \A k \in Nat : k < n => k \in P
        PROVE  n \in P
    <3>1. CASE n = 0 \/ n \notin 0 .. 27
      BY <3>1, <1>9
    <3>2. CASE n \in 1 .. 27
      <4>1. n - 1 \in Nat /\ n - 1 < n /\ n - 1 \in 0 .. 27
        BY <3>2
      <4>2. g[27 - (n - 1)] \in Nat
        BY <4>1, <2>1
      <4>3. 27 - n \in 0 .. 26 /\ (27 - n) + 1 = 27 - (n - 1)
        BY <3>2
      <4>4. g[27 - n] = Bit(27 - n) + 2 * g[27 - (n - 1)]
        BY <4>3, <1>9
      <4>5. g[27 - n] \in Nat
        BY <4>2, <4>4, <1>3
      <4> QED
        BY <4>5
    <3> QED
      BY <3>1, <3>2
  <2> HIDE DEF P
  <2>2. Nat \subseteq P
    BY <2>1, Induction
  <2>3. ASSUME NEW t \in 0 .. 26 PROVE g[t + 1] \in Nat
    <3>1. 26 - t \in Nat /\ 26 - t \in 0 .. 27 /\ 27 - (26 - t) = t + 1
      OBVIOUS
    <3> QED
      BY <2>2, <3>1 DEF P
  <2> QED
    BY <2>3
<1> HIDE DEF Is
<1> QED
  BY <1>8, <1>9, <1>10 DEF Bit

LEMMA ShiftedIs ==
    ASSUME NEW n \in Nat
    PROVE  /\ Shifted(n)[0] = n
           /\ \A i \in Nat : Shifted(n)[i + 1] = Shifted(n)[i] \div 2
<1> DEFINE B == {0}
           b == [i \in Nat |-> n]
           p == [i \in Nat |-> IF i = 0 THEN 0 ELSE i - 1]
           m == [i \in Nat |-> i]
           h == [x \in Nat \X Nat |-> x[2] \div 2]
           Is(f) == f = [i \in Nat |-> IF i = 0 THEN n ELSE f[i - 1] \div 2]
<1>1. p \in [Nat -> Nat] /\ m \in [Nat -> Nat] /\ b \in [Nat -> Nat]
  OBVIOUS
<1>2. Descends(Nat, B, p, m)
  BY DEF Descends
<1>3. h \in [Nat \X Nat -> Nat]
  <2>1. \A k \in Nat : k \div 2 \in Nat
    OBVIOUS
  <2> QED
    BY <2>1
<1>4. PICK f \in [Nat -> Nat] : Meets(f, Nat, B, b, p, h)
  <2> HIDE DEF B, b, p, m, h
  <2> QED
    BY <1>1, <1>2, <1>3, Recursion DEF Recursive
<1>5. ASSUME NEW i \in Nat
      PROVE  f[i] = IF i = 0 THEN n ELSE f[i - 1] \div 2
  <2>1. f[i] = IF i \in B THEN b[i] ELSE h[<<i, f[p[i]]>>]
    <3> HIDE DEF B, b, p, h
    <3> QED
      BY <1>4 DEF Meets
  <2>2. CASE i = 0
    <3>1. i \in B /\ b[i] = n
      BY <2>2
    <3> HIDE DEF B, b, h, p
    <3> QED
      BY <2>1, <2>2, <3>1
  <2>3. CASE i # 0
    <3>1. p[i] = i - 1 /\ i - 1 \in Nat /\ i \notin B
      BY <2>3
    <3>2. f[i - 1] \in Nat
      BY <3>1
    <3> HIDE DEF B, b, p
    <3>3. h[<<i, f[i - 1]>>] = f[i - 1] \div 2
      BY <3>2
    <3> HIDE DEF h
    <3> QED
      BY <2>1, <2>3, <3>1, <3>3
  <2> QED
    BY <2>2, <2>3
<1>6. Is(f)
  <2>1. f = [i \in Nat |-> f[i]]
    OBVIOUS
  <2> QED
    BY <1>5, <2>1, Zenon
<1>7. PICK g : Is(g) /\ Shifted(n) = g
  <2>1. Is(CHOOSE g : Is(g))
    <3> HIDE DEF Is
    <3> QED
      BY <1>6
  <2>2. Shifted(n) = CHOOSE g : Is(g)
    BY DEF Shifted
  <2> HIDE DEF Is
  <2> QED
    BY <2>1, <2>2
<1>8. \A i \in Nat : g[i] = IF i = 0 THEN n ELSE g[i - 1] \div 2
  BY <1>7
<1>9. ASSUME NEW i \in Nat PROVE g[i + 1] = g[i] \div 2
  <2>1. i + 1 \in Nat /\ i + 1 # 0 /\ (i + 1) - 1 = i
    OBVIOUS
  <2> QED
    BY <1>8, <2>1
<1> QED
  BY <1>7, <1>8, <1>9

\* The loop over the bits finds the data types that are in the field.
LEMMA BitsAreRead ==
    ASSUME NEW T, T \subseteq DataTypes
    PROVE  /\ BitField(T) \in Nat
           /\ \A i \in Nat : Shifted(BitField(T))[i] % 2 = 1 <=> i \in T
<1>1. PICK g : /\ g[27] = 0 /\ BitField(T) = g[0]
               /\ \A t \in 0 .. 26 :
                      g[t + 1] \in Nat /\ g[t] = (IF t \in T THEN 1 ELSE 0) + 2 * g[t + 1]
  BY BitFieldIs
<1>2. ASSUME NEW t \in 0 .. 26
      PROVE  g[t] \in Nat /\ g[t + 1] = g[t] \div 2 /\ (g[t] % 2 = 1 <=> t \in T)
  <2>1. g[t + 1] \in Nat /\ g[t] = (IF t \in T THEN 1 ELSE 0) + 2 * g[t + 1]
    BY <1>1
  <2>2. CASE t \in T
    <3>1. g[t] = 1 + 2 * g[t + 1]
      BY <2>1, <2>2
    <3>2. g[t] \in Nat /\ g[t + 1] = g[t] \div 2 /\ g[t] % 2 = 1
      BY <2>1, <3>1
    <3> QED
      BY <2>2, <3>2
  <2>3. CASE t \notin T
    <3>1. g[t] = 2 * g[t + 1]
      BY <2>1, <2>3
    <3>2. g[t] \in Nat /\ g[t + 1] = g[t] \div 2 /\ g[t] % 2 = 0
      BY <2>1, <3>1
    <3> QED
      BY <2>3, <3>2
  <2> QED
    BY <2>2, <2>3
<1>3. BitField(T) \in Nat
  BY <1>1, <1>2
<1> DEFINE s == Shifted(BitField(T))
<1>4. s[0] = g[0] /\ \A i \in Nat : s[i + 1] = s[i] \div 2
  BY <1>1, <1>3, ShiftedIs
<1> HIDE DEF s
<1> DEFINE P == {i \in Nat : s[i] = IF i \in 0 .. 26 THEN g[i] ELSE 0}
<1>5. ASSUME NEW i \in Nat, \A j \in Nat : j < i => j \in P
      PROVE  i \in P
  <2>1. CASE i = 0
    BY <2>1, <1>4
  <2>2. CASE i # 0
    <3>1. i - 1 \in Nat /\ i - 1 < i /\ (i - 1) + 1 = i
      BY <2>2
    <3>2. i - 1 \in P /\ s[i] = s[i - 1] \div 2
      BY <3>1, <1>4, <1>5
    <3>3. CASE i - 1 \in 0 .. 26
      <4>1. s[i] = g[i]
        BY <3>1, <3>2, <3>3, <1>2
      <4>2. i \in 0 .. 26 \/ i = 27
        BY <3>1, <3>3
      <4>3. i = 27 => g[i] = 0
        BY <1>1
      <4> QED
        BY <4>1, <4>2, <4>3
    <3>4. CASE i - 1 \notin 0 .. 26
      <4>1. s[i - 1] = 0 /\ i \notin 0 .. 26
        BY <3>1, <3>2, <3>4
      <4> QED
        BY <3>2, <4>1
    <3> QED
      BY <3>3, <3>4
  <2> QED
    BY <2>1, <2>2
<1> HIDE DEF P
<1>6. Nat \subseteq P
  BY <1>5, Induction
<1>7. ASSUME NEW i \in Nat PROVE s[i] % 2 = 1 <=> i \in T
  <2>1. s[i] = IF i \in 0 .. 26 THEN g[i] ELSE 0
    BY <1>6 DEF P
  <2>2. CASE i \in 0 .. 26
    BY <2>1, <2>2, <1>2
  <2>3. CASE i \notin 0 .. 26
    <3>1. i \notin T
      BY <2>3 DEF DataTypes
    <3> QED
      BY <2>1, <2>3, <3>1
  <2> QED
    BY <2>2, <2>3
<1> QED
  BY <1>3, <1>7 DEF s

-------------------------------------------------------------------------------
(* The data types of a definition *)

Parameter == [type : DataTypes, counter : Nat, period : Nat]

\* A definition's data types, as they can be sent.
Parameters(ts) ==
    /\ ts \in Seq(Parameter)
    /\ \A i \in DOMAIN ts : /\ \A j \in 1 .. i - 1 : ts[j].type < ts[i].type
                            /\ IsDelay(ts[i].type) \/ (ts[i].counter = 0 /\ ts[i].period = 0)

\* One data type is read as it was written.
LEMMA TypeIsAdded ==
    ASSUME NEW x \in Parameter, IsDelay(x.type) \/ (x.counter = 0 /\ x.period = 0),
           NEW val, NEW q \in Seq(Byte)
    PROVE  /\ PutDelay(x) \in Seq(Byte)
           /\ AddType(Outcome("ok", val, PutDelay(x) \o q), x.type)
                  = Outcome("ok", Append(val, x), q)
<1> DEFINE y == <<x.counter, x.period>>
           b == PutDelay(x) \o q
           d == IF IsDelay(x.type) THEN Varints(b, 2) ELSE Outcome("ok", <<0, 0>>, b)
<1>1. /\ x.type \in DataTypes /\ x.counter \in Nat /\ x.period \in Nat
      /\ x = [type |-> x.type, counter |-> x.counter, period |-> x.period]
  BY DEF Parameter
<1>2. y \in Seq(Nat) /\ Len(y) = 2 /\ y[1] = x.counter /\ y[2] = x.period
  BY <1>1
<1>3. PutDelay(x) \in Seq(Byte) /\ d = Outcome("ok", y, q)
  <2>1. CASE IsDelay(x.type)
    <3>1. PutDelay(x) = PutVarints(y)
      BY <2>1 DEF PutDelay
    <3> HIDE DEF y
    <3>2. PutVarints(y) \in Seq(Byte) /\ Varints(PutVarints(y) \o q, 2) = Outcome("ok", y, q)
      BY <1>2, VarintsAreRead
    <3> QED
      BY <2>1, <3>1, <3>2
  <2>2. CASE ~ IsDelay(x.type)
    <3>1. PutDelay(x) = <<>> /\ y = <<0, 0>>
      BY <2>2 DEF PutDelay
    <3>2. <<>> \in Seq(Byte) /\ <<>> \o q = q
      OBVIOUS
    <3> HIDE DEF y
    <3> QED
      BY <2>2, <3>1, <3>2
  <2> QED
    BY <2>1, <2>2
<1>4. AddType(Outcome("ok", val, b), x.type)
        = CASE d.is # "ok" -> Outcome(d.is, val, b)
            [] d.is = "ok" -> Outcome("ok", Append(val, [type |-> x.type, counter |-> d.val[1],
                                                         period |-> d.val[2]]), d.rest)
  <2> DEFINE o == Outcome("ok", val, b)
  <2>1. o.is = "ok" /\ o.val = val /\ o.rest = b
    BY DEF Outcome
  <2> HIDE DEF b, o
  <2>2. AddType(o, x.type)
          = CASE d.is # "ok" -> Outcome(d.is, val, b)
              [] d.is = "ok" -> Outcome("ok", Append(val, [type |-> x.type, counter |-> d.val[1],
                                                           period |-> d.val[2]]), d.rest)
    <3>1. CASE d.is = "ok"
      BY <1>1, <2>1, <3>1 DEF AddType
    <3>2. CASE d.is # "ok"
      BY <1>1, <2>1, <3>2 DEF AddType
    <3> QED
      BY <3>1, <3>2
  <2> QED
    BY <2>2 DEF o
<1>5. d.is = "ok" /\ d.val = y /\ d.rest = q
  BY <1>3 DEF Outcome
<1> HIDE DEF d, y, b
<1> QED
  BY <1>1, <1>2, <1>3, <1>4, <1>5 DEF b

\* How many of the data types are below t.
Below(ts, t, k) == /\ \A j \in 1 .. k : ts[j].type < t
                   /\ \A j \in k + 1 .. Len(ts) : ts[j].type >= t

LEMMA TypesAreNumbers ==
    ASSUME NEW ts, Parameters(ts)
    PROVE  /\ ts \in Seq(Parameter) /\ Len(ts) \in Nat /\ DOMAIN ts = 1 .. Len(ts)
           /\ \A j \in 1 .. Len(ts) : /\ ts[j] \in Parameter /\ ts[j].type \in Nat
                                     /\ ts[j].type \in 0 .. 26
<1>1. ts \in Seq(Parameter)
  BY DEF Parameters
<1>2. Len(ts) \in Nat /\ DOMAIN ts = 1 .. Len(ts) /\ \A j \in 1 .. Len(ts) : ts[j] \in Parameter
  BY <1>1
<1>3. \A x \in Parameter : x.type \in 0 .. 26
  BY DEF Parameter, DataTypes
<1>4. \A t \in 0 .. 26 : t \in Nat
  OBVIOUS
<1> QED
  BY <1>1, <1>2, <1>3, <1>4

LEMMA BelowIsUnique ==
    ASSUME NEW ts, Parameters(ts), NEW t \in Nat,
           NEW k \in 0 .. Len(ts), NEW l \in 0 .. Len(ts), Below(ts, t, k), Below(ts, t, l)
    PROVE  k = l
<1>1. ASSUME NEW x \in 0 .. Len(ts), NEW y \in 0 .. Len(ts), Below(ts, t, x), Below(ts, t, y), x < y
      PROVE  FALSE
  <2>1. x + 1 \in 1 .. y /\ x + 1 \in x + 1 .. Len(ts) /\ x + 1 \in 1 .. Len(ts)
    BY <1>1, TypesAreNumbers
  <2>2. ts[x + 1].type < t /\ ts[x + 1].type >= t
    BY <1>1, <2>1 DEF Below
  <2>3. ts[x + 1].type \in Nat
    BY <2>1, TypesAreNumbers
  <2> QED
    BY <2>2, <2>3
<1>2. ~ (k < l) /\ ~ (l < k)
  BY <1>1
<1>3. k \in Nat /\ l \in Nat
  BY TypesAreNumbers
<1> QED
  BY <1>2, <1>3

\* Bit t is the next data type, or none.
LEMMA BelowNext ==
    ASSUME NEW ts, Parameters(ts), NEW t \in Nat, NEW k \in 0 .. Len(ts), Below(ts, t, k)
    PROVE  IF \E i \in DOMAIN ts : ts[i].type = t
           THEN k + 1 \in 1 .. Len(ts) /\ ts[k + 1].type = t /\ Below(ts, t + 1, k + 1)
           ELSE Below(ts, t + 1, k)
<1> DEFINE n == Len(ts)
<1>1. /\ n \in Nat /\ DOMAIN ts = 1 .. n
      /\ \A j \in 1 .. n : ts[j].type \in Nat
      /\ \A i \in 1 .. n : \A j \in 1 .. i - 1 : ts[j].type < ts[i].type
  <2>1. \A i \in DOMAIN ts : \A j \in 1 .. i - 1 : ts[j].type < ts[i].type
    BY DEF Parameters
  <2> QED
    BY <2>1, TypesAreNumbers
<1>2. /\ k \in Nat /\ \A j \in 1 .. k : ts[j].type < t
      /\ \A j \in k + 1 .. n : ts[j].type >= t
  BY <1>1 DEF Below
<1>3. CASE \E i \in DOMAIN ts : ts[i].type = t
  <2>1. PICK i \in 1 .. n : ts[i].type = t
    BY <1>1, <1>3
  <2>2. ~ (i <= k)
    <3>1. i <= k => i \in 1 .. k
      BY <1>1
    <3>2. ~ (ts[i].type < t)
      BY <1>1, <2>1
    <3> QED
      BY <1>2, <3>1, <3>2
  <2>3. k + 1 \in 1 .. n
    BY <1>1, <1>2, <2>2
  <2>4. ~ (k + 1 < i)
    <3>1. ASSUME k + 1 < i PROVE FALSE
      <4>1. k + 1 \in 1 .. i - 1 /\ k + 1 \in k + 1 .. n
        BY <1>1, <1>2, <3>1
      <4>2. ts[k + 1].type < t /\ ts[k + 1].type >= t /\ ts[k + 1].type \in Nat
        BY <1>1, <1>2, <2>1, <2>3, <4>1
      <4> QED
        BY <4>2
    <3> QED
      BY <3>1
  <2>5. i = k + 1
    BY <1>1, <1>2, <2>2, <2>4
  <2>6. ASSUME NEW j \in 1 .. k + 1 PROVE ts[j].type < t + 1
    <3>1. j \in 1 .. k \/ j = k + 1
      BY <1>2
    <3>2. ts[j].type \in Nat
      BY <1>1, <1>2, <2>3
    <3>3. ts[j].type < t \/ ts[j].type = t
      BY <1>2, <2>1, <2>5, <3>1
    <3> QED
      BY <3>2, <3>3
  <2>7. ASSUME NEW j \in (k + 1) + 1 .. n PROVE ts[j].type >= t + 1
    <3>1. j \in 1 .. n /\ i \in 1 .. j - 1
      BY <1>1, <1>2, <2>5
    <3>2. t < ts[j].type /\ ts[j].type \in Nat
      BY <1>1, <2>1, <3>1
    <3> QED
      BY <3>2
  <2> QED
    BY <1>3, <2>1, <2>3, <2>5, <2>6, <2>7 DEF Below
<1>4. CASE ~ \E i \in DOMAIN ts : ts[i].type = t
  <2>1. ASSUME NEW j \in 1 .. k PROVE ts[j].type < t + 1
    <3>1. ts[j].type \in Nat /\ ts[j].type < t
      BY <1>1, <1>2
    <3> QED
      BY <3>1
  <2>2. ASSUME NEW j \in k + 1 .. n PROVE ts[j].type >= t + 1
    <3>1. j \in 1 .. n
      BY <1>1, <1>2
    <3>2. ts[j].type \in Nat /\ ts[j].type >= t /\ ts[j].type # t
      BY <1>1, <1>2, <1>4, <3>1
    <3> QED
      BY <3>2
  <2> QED
    BY <1>4, <2>1, <2>2 DEF Below
<1> QED
  BY <1>3, <1>4

\* A definition's data types are read from the bit field and the parameters that
\* follow.
LEMMA TypesAreRead ==
    ASSUME NEW ts, Parameters(ts), NEW r \in Seq(Byte)
    PROVE  /\ PutDelays(ts) \in Seq(Byte)
           /\ TypesOf(BitField({ts[i].type : i \in DOMAIN ts}), PutDelays(ts) \o r)
                  = Outcome("ok", ts, r)
<1> DEFINE n == Len(ts)
           T == {ts[i].type : i \in DOMAIN ts}
           field == BitField(T)
           ss == [i \in DOMAIN ts |-> PutDelay(ts[i])]
           b == PutDelays(ts) \o r
           H(i, o) == IF Shifted(field)[i - 1] % 2 = 1 THEN AddType(o, i - 1) ELSE o
           Is(g) == g = [i \in 0 .. 64 |-> IF i = 0 THEN Outcome("ok", <<>>, b) ELSE H(i, g[i - 1])]
           K(i) == CHOOSE k \in 0 .. n : Below(ts, i, k)
           f == [i \in 0 .. 64 |-> Outcome("ok", Take(ts, K(i)), Rest(ss, K(i), r))]
<1>1. /\ ts \in Seq(Parameter) /\ n \in Nat /\ DOMAIN ts = 1 .. n
      /\ \A j \in 1 .. n : /\ ts[j] \in Parameter /\ ts[j].type \in Nat
                           /\ ts[j].type \in 0 .. 26
  BY TypesAreNumbers
<1>2. \A j \in 1 .. n : IsDelay(ts[j].type) \/ (ts[j].counter = 0 /\ ts[j].period = 0)
  BY <1>1 DEF Parameters
<1>3. \A i \in Nat : Shifted(field)[i] % 2 = 1 <=> \E j \in DOMAIN ts : ts[j].type = i
  <2>1. T \subseteq DataTypes
    BY <1>1 DEF DataTypes
  <2>2. \A i : i \in T <=> \E j \in DOMAIN ts : ts[j].type = i
    OBVIOUS
  <2> HIDE DEF T
  <2> QED
    BY <2>1, <2>2, BitsAreRead
<1>4. ss \in Seq(Seq(Byte)) /\ Len(ss) = n /\ \A j \in 1 .. n : ss[j] = PutDelay(ts[j])
  <2>1. \A j \in 1 .. n : PutDelay(ts[j]) \in Seq(Byte)
    <3> TAKE j \in 1 .. n
    <3>1. <<>> \in Seq(Byte)
      OBVIOUS
    <3> QED
      BY <1>1, <1>2, <3>1, TypeIsAdded
  <2> QED
    BY <1>1, <2>1, SequenceOfLength
<1>5. PutDelays(ts) = FlattenSeq(ss)
  BY DEF PutDelays
<1> HIDE DEF ss
<1>6. Rest(ss, 0, r) = b /\ Rest(ss, n, r) = r /\ PutDelays(ts) \in Seq(Byte)
  BY <1>4, <1>5, RestIs
<1> HIDE DEF T, field, b
<1>7. ASSUME NEW i \in Nat
      PROVE  K(i) \in 0 .. n /\ Below(ts, i, K(i))
  <2> DEFINE P == {j \in Nat : \E k \in 0 .. n : Below(ts, j, k)}
  <2>1. ASSUME NEW j \in Nat, \A l \in Nat : l < j => l \in P
        PROVE  j \in P
    <3>1. CASE j = 0
      <4>1. 0 \in 0 .. n /\ Below(ts, 0, 0)
        BY <1>1 DEF Below
      <4> QED
        BY <3>1, <4>1
    <3>2. CASE j # 0
      <4>1. j - 1 \in Nat /\ j - 1 < j /\ (j - 1) + 1 = j
        BY <3>2
      <4>2. PICK k \in 0 .. n : Below(ts, j - 1, k)
        BY <4>1, <2>1
      <4>3. k + 1 \in 1 .. n => k + 1 \in 0 .. n
        BY <1>1
      <4>4. \E l \in 0 .. n : Below(ts, (j - 1) + 1, l)
        BY <4>1, <4>2, <4>3, BelowNext
      <4> QED
        BY <4>1, <4>4
    <3> QED
      BY <3>1, <3>2
  <2> HIDE DEF P
  <2>2. Nat \subseteq P
    BY <2>1, Induction
  <2>3. \E k \in 0 .. n : Below(ts, i, k)
    BY <2>2 DEF P
  <2> HIDE DEF n
  <2> QED
    BY <2>3
<1>8. K(0) = 0 /\ K(64) = n
  <2>1. 0 \in 0 .. n /\ Below(ts, 0, 0)
    BY <1>1 DEF Below
  <2>2. n \in 0 .. n /\ Below(ts, 64, n)
    <3>1. n \in 0 .. n /\ \A j \in n + 1 .. n : FALSE
      BY <1>1
    <3>2. \A j \in 1 .. n : ts[j].type < 64
      <4>1. \A t \in 0 .. 26 : t < 64
        OBVIOUS
      <4> QED
        BY <1>1, <4>1, Zenon
    <3> QED
      BY <3>1, <3>2, Zenon DEF Below
  <2>3. 0 \in Nat /\ 64 \in Nat
    OBVIOUS
  <2> HIDE DEF K
  <2> QED
    BY <1>7, <2>1, <2>2, <2>3, BelowIsUnique
<1>9. ASSUME NEW i \in 1 .. 64
      PROVE  H(i, f[i - 1]) = f[i]
  <2> DEFINE k == K(i - 1)
             t == i - 1
  <2>1. t \in Nat /\ i \in Nat /\ t + 1 = i /\ t \in 0 .. 64 /\ i \in 0 .. 64
    OBVIOUS
  <2>2. k \in 0 .. n /\ Below(ts, t, k) /\ K(i) \in 0 .. n /\ Below(ts, i, K(i))
    <3> HIDE DEF K
    <3> QED
      BY <2>1, <1>7
  <2>3. /\ f[i - 1] = Outcome("ok", Take(ts, k), Rest(ss, k, r))
        /\ f[i] = Outcome("ok", Take(ts, K(i)), Rest(ss, K(i), r))
    BY <2>1
  <2> HIDE DEF f, k, K
  <2>4. CASE \E j \in DOMAIN ts : ts[j].type = t
    <3>1. k + 1 \in 1 .. n /\ ts[k + 1].type = t /\ Below(ts, i, k + 1)
      BY <2>1, <2>2, <2>4, BelowNext
    <3>2. K(i) = k + 1
      <4>1. k + 1 \in 0 .. n
        BY <3>1
      <4> QED
        BY <2>1, <2>2, <3>1, <4>1, BelowIsUnique
    <3>3. (k + 1) - 1 = k
      BY <2>2
    <3> DEFINE x == ts[k + 1]
               q == Rest(ss, k + 1, r)
    <3>4. /\ Rest(ss, k, r) = PutDelay(x) \o q /\ q \in Seq(Byte)
      <4>1. k + 1 \in 1 .. Len(ss) /\ ss \in Seq(Seq(Byte)) /\ ss[k + 1] = PutDelay(x)
        BY <1>4, <3>1
      <4>2. /\ Rest(ss, (k + 1) - 1, r) = ss[k + 1] \o Rest(ss, k + 1, r)
            /\ Rest(ss, k + 1, r) \in Seq(Byte)
        BY <4>1, RestIs
      <4> QED
        BY <3>3, <4>1, <4>2
    <3>5. Append(Take(ts, k), x) = Take(ts, k + 1)
      BY <1>1, <3>1, <3>3, TakeOneMore
    <3>6. x \in Parameter /\ x.type = t /\ (IsDelay(x.type) \/ (x.counter = 0 /\ x.period = 0))
      BY <1>1, <1>2, <3>1
    <3> HIDE DEF x, q
    <3>7. AddType(Outcome("ok", Take(ts, k), PutDelay(x) \o q), t)
            = Outcome("ok", Append(Take(ts, k), x), q)
      BY <3>4, <3>6, TypeIsAdded
    <3>8. Shifted(field)[t] % 2 = 1
      BY <1>3, <2>1, <2>4
    <3> HIDE DEF t
    <3>9. f[i] = Outcome("ok", Take(ts, k + 1), q)
      BY <2>3, <3>2 DEF q
    <3>10. H(i, f[i - 1]) = AddType(f[i - 1], t)
      BY <3>8 DEF t
    <3> QED
      BY <2>3, <3>4, <3>5, <3>7, <3>9, <3>10
  <2>5. CASE ~ \E j \in DOMAIN ts : ts[j].type = t
    <3>1. Below(ts, i, k)
      BY <2>1, <2>2, <2>5, BelowNext
    <3>2. K(i) = k
      BY <2>1, <2>2, <3>1, BelowIsUnique
    <3>3. ~ (Shifted(field)[t] % 2 = 1)
      BY <1>3, <2>1, <2>5
    <3> QED
      BY <2>3, <3>2, <3>3
  <2> QED
    BY <2>4, <2>5
<1>10. f[0] = Outcome("ok", <<>>, b) /\ f[64] = Outcome("ok", ts, r)
  <2>1. Take(ts, 0) = <<>> /\ Take(ts, n) = ts
    BY <1>1, TakeEnds
  <2>2. 0 \in 0 .. 64 /\ 64 \in 0 .. 64
    OBVIOUS
  <2> HIDE DEF K
  <2> QED
    BY <1>6, <1>8, <2>1, <2>2
<1>11. Is(f)
  <2>1. f = [i \in 0 .. 64 |-> f[i]]
    OBVIOUS
  <2>2. ASSUME NEW i \in 0 .. 64
        PROVE  f[i] = IF i = 0 THEN Outcome("ok", <<>>, b) ELSE H(i, f[i - 1])
    <3>1. i = 0 \/ i \in 1 .. 64
      OBVIOUS
    <3> HIDE DEF f, H
    <3> QED
      BY <1>9, <1>10, <3>1
  <2> HIDE DEF f, H
  <2> QED
    BY <2>1, <2>2, Zenon
<1>12. PICK g : Is(g) /\ TypesOf(field, b) = g[64]
  <2>1. Is(CHOOSE g : Is(g))
    <3> HIDE DEF Is, f
    <3> QED
      BY <1>11
  <2>2. TypesOf(field, b) = (CHOOSE g : Is(g))[64]
    BY DEF TypesOf
  <2> HIDE DEF Is
  <2> QED
    BY <2>1, <2>2
<1> HIDE DEF f, H
<1>13. g[0] = f[0] /\ \A i \in 1 .. 64 : g[i] = H(i, g[i - 1])
  <2>1. 0 \in 0 .. 64 /\ \A i \in 1 .. 64 : i \in 0 .. 64 /\ i # 0
    OBVIOUS
  <2>2. \A i \in 0 .. 64 : g[i] = IF i = 0 THEN Outcome("ok", <<>>, b) ELSE H(i, g[i - 1])
    <3>1. g = [i \in 0 .. 64 |-> IF i = 0 THEN Outcome("ok", <<>>, b) ELSE H(i, g[i - 1])]
      BY <1>12
    <3> HIDE DEF Is, H, b
    <3> QED
      BY <3>1, ZenonT(30)
  <2> QED
    BY <1>10, <2>1, <2>2
<1> HIDE DEF Is
<1>14. g[64] = f[64]
  <2>1. \A i \in 1 .. 64 : g[i - 1] = f[i - 1] => g[i] = f[i]
    BY <1>9, <1>13
  <2>2. 64 \in Nat
    OBVIOUS
  <2> QED
    BY <1>13, <2>1, <2>2, StepByStep
<1> QED
  BY <1>6, <1>10, <1>12, <1>14 DEF b, field, T

-------------------------------------------------------------------------------
(* Definitions *)

\* A string that is copied out of the buffer.
LEMMA CopiedIsRead ==
    ASSUME NEW v \in Seq(Byte), NEW r \in Seq(Byte)
    PROVE  Copied(PutBytes(v) \o r) = Outcome("ok", v, r)
<1> DEFINE l == PutVarint(Len(v))
           b == v \o r
           padded == [i \in 1 .. Len(v) |-> IF i <= Len(b) THEN b[i] ELSE 0]
<1>1. l \in Seq(Byte) /\ Len(v) \in Nat /\ b \in Seq(Byte) /\ Len(b) = Len(v) + Len(r)
  BY PutVarintBytes
<1>2. PutBytes(v) \o r = l \o b
  <2>1. PutBytes(v) = l \o v
    BY DEF PutBytes
  <2> HIDE DEF l
  <2>2. (l \o v) \o r = l \o (v \o r)
    <3>1. l \in Seq(Byte)
      BY <1>1
    <3> QED
      BY <3>1, BytesAssociate, Zenon
  <2> QED
    BY <2>1, <2>2
<1>3. Varint(l \o b) = Outcome("ok", Len(v), b)
  <2> HIDE DEF b
  <2> QED
    BY <1>1, VarintIsRead
<1>4. padded = v
  <2>1. \A i \in 1 .. Len(v) : i <= Len(b) /\ b[i] = v[i]
    BY <1>1
  <2>2. padded = [i \in 1 .. Len(v) |-> v[i]]
    BY <2>1
  <2>3. [i \in 1 .. Len(v) |-> v[i]] = v
    OBVIOUS
  <2> QED
    BY <2>2, <2>3
<1>5. Drop(b, Len(v)) = r
  BY ConcatBytes
<1>6. Copied(l \o b) = Outcome("ok", padded, Drop(b, Len(v)))
  <2> DEFINE x == Varint(l \o b)
  <2>1. x.is = "ok" /\ x.val = Len(v) /\ x.rest = b
    BY <1>3 DEF Outcome
  <2> HIDE DEF x, b
  <2>2. Copied(l \o b) = Outcome("ok", [i \in 1 .. x.val |-> IF i <= Len(x.rest) THEN x.rest[i] ELSE 0],
                                 Drop(x.rest, x.val))
    BY <2>1 DEF Copied, x
  <2> QED
    BY <2>1, <2>2
<1> QED
  BY <1>2, <1>4, <1>5, <1>6

LEMMA DefinitionFields ==
    ASSUME NEW d, IsDefinition(d)
    PROVE  /\ d.id \in Nat /\ d.name \in Seq(Byte) /\ d.keyType \in KeyTypes /\ d.keyType \in Nat
           /\ d.keyLength \in Nat /\ d.expiry \in Nat /\ Parameters(d.types)
           /\ d = [id |-> d.id, name |-> d.name, keyType |-> d.keyType, keyLength |-> d.keyLength,
                   expiry |-> d.expiry, types |-> d.types]
           /\ BitField(DataTypesOf(d)) \in Nat
<1>1. /\ d.id \in Nat /\ d.name \in Seq(Byte) /\ d.keyType \in KeyTypes
      /\ d.keyLength \in Nat /\ d.expiry \in Nat /\ d.types \in Seq(Parameter)
      /\ d = [id |-> d.id, name |-> d.name, keyType |-> d.keyType, keyLength |-> d.keyLength,
              expiry |-> d.expiry, types |-> d.types]
  BY DEF IsDefinition, Parameter
<1>2. Parameters(d.types)
  BY <1>1 DEF IsDefinition, Parameters
<1>3. \A t \in KeyTypes : t \in Nat
  BY DEF KeyTypes, SignedIntegerKey, IPv4AddressKey, IPv6AddressKey, StringKey, BinaryKey
<1>4. DataTypesOf(d) \subseteq DataTypes
  <2>1. \A i \in DOMAIN d.types : d.types[i].type \in 0 .. 26
    BY <1>2, TypesAreNumbers, Zenon
  <2> QED
    BY <2>1 DEF DataTypesOf, DataTypes
<1> QED
  BY <1>1, <1>2, <1>3, <1>4, BitsAreRead

\* Definition.Unmarshal reads what Definition.Marshal has written: every table whose
\* data types are in the order of their bits.
THEOREM DefinitionIsRead ==
    \A d : IsDefinition(d) =>
        /\ PutDefinition(d) \in Seq(Byte)
        /\ \A r \in Seq(Byte) : GetDefinition(PutDefinition(d) \o r) = Outcome("ok", d, r)
<1> SUFFICES ASSUME NEW d, IsDefinition(d), NEW r \in Seq(Byte)
             PROVE  /\ PutDefinition(d) \in Seq(Byte)
                    /\ GetDefinition(PutDefinition(d) \o r) = Outcome("ok", d, r)
  <2>1. <<>> \in Seq(Byte)
    OBVIOUS
  <2> QED
    BY <2>1
<1> DEFINE field == BitField(DataTypesOf(d))
           v == <<d.keyType, d.keyLength, field, d.expiry>>
           s1 == PutVarint(d.id)
           s2 == PutBytes(d.name)
           s3 == PutVarints(v)
           s4 == PutDelays(d.types)
           r3 == s4 \o r
           r2 == s3 \o r3
           r1 == s2 \o r2
<1>1. /\ d.id \in Nat /\ d.name \in Seq(Byte) /\ Parameters(d.types)
      /\ d = [id |-> d.id, name |-> d.name, keyType |-> d.keyType, keyLength |-> d.keyLength,
              expiry |-> d.expiry, types |-> d.types]
  BY DefinitionFields
<1>2. /\ v \in Seq(Nat) /\ Len(v) = 4
      /\ v[1] = d.keyType /\ v[2] = d.keyLength /\ v[3] = field /\ v[4] = d.expiry
  BY DefinitionFields
<1>3. field = BitField({d.types[i].type : i \in DOMAIN d.types})
  BY DEF DataTypesOf
<1> HIDE DEF v, field
<1>4. s4 \in Seq(Byte) /\ TypesOf(field, r3) = Outcome("ok", d.types, r)
  BY <1>1, <1>3, TypesAreRead
<1> HIDE DEF s4
<1>5. r3 \in Seq(Byte)
  BY <1>4, ConcatProperties
<1> HIDE DEF r3
<1>6. s3 \in Seq(Byte) /\ Varints(r2, 4) = Outcome("ok", v, r3)
  BY <1>2, <1>5, VarintsAreRead
<1> HIDE DEF s3
<1>7. r2 \in Seq(Byte)
  BY <1>5, <1>6, ConcatProperties
<1> HIDE DEF r2
<1>8. s2 \in Seq(Byte) /\ Copied(r1) = Outcome("ok", d.name, r2)
  BY <1>1, <1>7, BytesAreRead, CopiedIsRead
<1> HIDE DEF s2
<1>9. r1 \in Seq(Byte)
  BY <1>7, <1>8, ConcatProperties
<1> HIDE DEF r1
<1>10. s1 \in Seq(Byte) /\ Varint(s1 \o r1) = Outcome("ok", d.id, r1)
  BY <1>1, <1>9, PutVarintBytes, VarintIsRead
<1> HIDE DEF s1
<1>11. PutDefinition(d) = ((s1 \o s2) \o s3) \o s4
  BY DEF PutDefinition, s1, s2, s3, s4, v, field
<1>12. PutDefinition(d) \in Seq(Byte) /\ PutDefinition(d) \o r = s1 \o r1
  <2> DEFINE u == s1 \o s2
             w == u \o s3
  <2>1. u \in Seq(Byte)
    BY <1>8, <1>10, ConcatProperties
  <2> HIDE DEF u
  <2>2. w \in Seq(Byte)
    BY <2>1, <1>6, ConcatProperties
  <2> HIDE DEF w
  <2>3. w \o s4 \in Seq(Byte)
    BY <2>2, <1>4, ConcatProperties
  <2>4. (w \o s4) \o r = w \o r3
    BY <2>2, <1>4, BytesAssociate, Zenon DEF r3
  <2>5. w \o r3 = u \o r2
    BY <2>1, <1>5, <1>6, BytesAssociate, Zenon DEF r2, w
  <2>6. u \o r2 = s1 \o r1
    BY <1>7, <1>8, <1>10, BytesAssociate, Zenon DEF r1, u
  <2> QED
    BY <1>11, <2>3, <2>4, <2>5, <2>6 DEF w, u
<1>13. /\ Varint(s1 \o r1).is = "ok" /\ Varint(s1 \o r1).val = d.id /\ Varint(s1 \o r1).rest = r1
       /\ Copied(r1).is = "ok" /\ Copied(r1).val = d.name /\ Copied(r1).rest = r2
  BY <1>8, <1>10 DEF Outcome
<1>14. /\ Varints(r2, 4).is = "ok" /\ Varints(r2, 4).val = v /\ Varints(r2, 4).rest = r3
       /\ TypesOf(field, r3).is = "ok" /\ TypesOf(field, r3).val = d.types
       /\ TypesOf(field, r3).rest = r
  BY <1>4, <1>6 DEF Outcome
<1>15. GetDefinition(s1 \o r1) =
         Outcome("ok", [id |-> d.id, name |-> d.name, keyType |-> v[1], keyLength |-> v[2],
                        expiry |-> v[4], types |-> d.types], r)
  BY <1>2, <1>13, <1>14 DEF GetDefinition
<1> QED
  BY <1>1, <1>2, <1>12, <1>15

-------------------------------------------------------------------------------
(* Entries *)

\* A key is read as it was written.
LEMMA KeyIsRead ==
    ASSUME NEW t \in KeyTypes, NEW size \in Nat, NEW k, IsKey(t, size, k),
           PutKey(t, size, k).is = "ok", NEW r \in Seq(Byte)
    PROVE  /\ PutKey(t, size, k).val \in Seq(Byte)
           /\ GetKey(t, size, PutKey(t, size, k).val \o r) = Outcome("ok", k, r)
<1> DEFINE b == PutKey(t, size, k).val
<1>1. CASE t = SignedIntegerKey
  <2>1. k \in [1 .. 1 -> Int31] /\ k = <<k[1]>>
    BY <1>1 DEF IsKey, SignedIntegerKey,
                IPv4AddressKey, IPv6AddressKey, StringKey, BinaryKey
  <2>2. Word(k[1]) /\ k[1] \in Nat
    <3>1. k[1] \in Int31
      BY <2>1
    <3> DEFINE n == k[1]
    <3>2. n \in Nat /\ n \div Half < 128 * 256
      BY <3>1 DEF Int31
    <3>3. n \div Half \in Nat
      BY <3>2 DEF Half
    <3> HIDE DEF n
    <3>4. n \div Half < Half
      BY <3>2, <3>3 DEF Half
    <3> QED
      BY <3>2, <3>4 DEF Word, n
  <2>3. b = Put32(k[1])
    BY <1>1 DEF PutKey, Outcome, SignedIntegerKey,
                IPv4AddressKey, IPv6AddressKey, StringKey, BinaryKey
  <2> HIDE DEF b
  <2>4. b \in Seq(Byte) /\ Get32(b \o r) = Outcome("ok", k[1], r)
    BY <2>2, <2>3, Put32IsBytes, WordIsRead
  <2>5. Get32(b \o r).is = "ok" /\ Get32(b \o r).val = k[1] /\ Get32(b \o r).rest = r
    BY <2>4 DEF Outcome
  <2>6. GetKey(t, size, b \o r) = Outcome("ok", <<k[1]>>, r)
    BY <1>1, <2>5 DEF GetKey, SignedIntegerKey,
                      IPv4AddressKey, IPv6AddressKey, StringKey, BinaryKey
  <2> QED
    BY <2>1, <2>4, <2>6 DEF b
<1>2. CASE t = IPv4AddressKey
  <2>1. k \in [1 .. 4 -> Byte] /\ b = k /\ size = Len(k)
    BY <1>2 DEF IsKey, PutKey, Outcome, SignedIntegerKey,
                IPv4AddressKey, IPv6AddressKey, StringKey, BinaryKey
  <2>2. 4 \in Nat
    OBVIOUS
  <2>3. k \in Seq(Byte) /\ Len(k) = 4
    BY <2>1, <2>2, BytesOfLength
  <2> HIDE DEF b
  <2>4. Fixed(k \o r, 4) = Outcome("ok", k, r)
    BY <2>3, FixedIsRead
  <2>5. GetKey(t, size, k \o r) = Outcome("ok", k, r)
    BY <1>2, <2>1, <2>3, <2>4 DEF GetKey, SignedIntegerKey,
                                  IPv4AddressKey, IPv6AddressKey, StringKey, BinaryKey
  <2> QED
    BY <2>1, <2>3, <2>5 DEF b
<1>3. CASE t = IPv6AddressKey
  <2>1. k \in [1 .. 16 -> Byte] /\ b = k /\ size = Len(k)
    BY <1>3 DEF IsKey, PutKey, Outcome, SignedIntegerKey,
                IPv4AddressKey, IPv6AddressKey, StringKey, BinaryKey
  <2>2. 16 \in Nat
    OBVIOUS
  <2>3. k \in Seq(Byte) /\ Len(k) = 16
    BY <2>1, <2>2, BytesOfLength
  <2> HIDE DEF b
  <2>4. Fixed(k \o r, 16) = Outcome("ok", k, r)
    BY <2>3, FixedIsRead
  <2>5. GetKey(t, size, k \o r) = Outcome("ok", k, r)
    BY <1>3, <2>1, <2>3, <2>4 DEF GetKey, SignedIntegerKey,
                                  IPv4AddressKey, IPv6AddressKey, StringKey, BinaryKey
  <2> QED
    BY <2>1, <2>3, <2>5 DEF b
<1>4. CASE t = StringKey
  <2>1. k \in Seq(Byte)
    BY <1>4 DEF IsKey, SignedIntegerKey,
                IPv4AddressKey, IPv6AddressKey, StringKey, BinaryKey
  <2>2. b = PutBytes(k)
    BY <1>4 DEF PutKey, Outcome, SignedIntegerKey,
                IPv4AddressKey, IPv6AddressKey, StringKey, BinaryKey
  <2> HIDE DEF b
  <2>3. b \in Seq(Byte) /\ Bytes(b \o r) = Outcome("ok", k, r)
    BY <2>1, <2>2, BytesAreRead
  <2>4. GetKey(t, size, b \o r) = Bytes(b \o r)
    BY <1>4 DEF GetKey, SignedIntegerKey,
                IPv4AddressKey, IPv6AddressKey, StringKey, BinaryKey
  <2> QED
    BY <2>3, <2>4 DEF b
<1>5. CASE t = BinaryKey
  <2>1. k \in Seq(Byte) /\ Len(k) = size
    BY <1>5 DEF IsKey, SignedIntegerKey,
                IPv4AddressKey, IPv6AddressKey, StringKey, BinaryKey
  <2>2. b = Take(k, size) /\ Take(k, size) = k
    <3>1. b = Take(k, size)
      BY <1>5 DEF PutKey, Outcome, SignedIntegerKey,
                  IPv4AddressKey, IPv6AddressKey, StringKey, BinaryKey
    <3>2. Take(k, size) = k
      BY <2>1, TakeEnds
    <3> QED
      BY <3>1, <3>2
  <2> HIDE DEF b
  <2>3. Fixed(k \o r, size) = Outcome("ok", k, r)
    BY <2>1, FixedIsRead
  <2>4. GetKey(t, size, k \o r) = Fixed(k \o r, size)
    BY <1>5 DEF GetKey, SignedIntegerKey,
                IPv4AddressKey, IPv6AddressKey, StringKey, BinaryKey
  <2> QED
    BY <2>1, <2>2, <2>3, <2>4 DEF b
<1> QED
  BY <1>1, <1>2, <1>3, <1>4, <1>5 DEF KeyTypes

\* The value of a dictionary entry has two bytes or more (finding 6 is about less).
LongEnough(t, v) == IsDict(t) => Len(v) > 2

\* A datum is read as it was written.
LEMMA DatumIsRead ==
    ASSUME NEW t \in DataTypes, NEW v \in Seq(Nat), IsDatum(t, v), LongEnough(t, v),
           NEW r \in Seq(Byte)
    PROVE  PutData(t, v) \in Seq(Byte) /\ GetData(t, PutData(t, v) \o r) = Outcome("ok", v, r)
<1>1. CASE ~ IsDict(t)
  <2>1. PutData(t, v) = PutVarints(v)
    BY <1>1 DEF PutData
  <2>2. Len(v) = IF IsFreq(t) THEN 3 ELSE 1
    <3>1. CASE IsFreq(t)
      <4>1. v \in [1 .. 3 -> Nat] /\ 3 \in Nat
        BY <1>1, <3>1 DEF IsDatum
      <4> QED
        BY <3>1, <4>1, SequenceOfLength
    <3>2. CASE ~ IsFreq(t)
      <4>1. v \in [1 .. 1 -> Int31] /\ 1 \in Nat
        BY <1>1, <3>2 DEF IsDatum
      <4> QED
        BY <3>2, <4>1, SequenceOfLength
    <3> QED
      BY <3>1, <3>2
  <2>3. \A b : GetData(t, b) = Varints(b, Len(v))
    BY <1>1, <2>2 DEF GetData
  <2> QED
    BY <2>1, <2>3, VarintsAreRead
<1>2. CASE IsDict(t)
  <2> DEFINE id == Head(v)
             value == Tail(v)
             l == PutVarint(Len(value))
             i == PutVarint(id)
             x == PutBytes(value)
             r2 == x \o r
             r1 == i \o r2
  <2>1. /\ v # <<>> /\ value \in Seq(Byte) /\ id \in Nat /\ v = <<id>> \o value
        /\ Len(value) \in Nat /\ Len(value) > 1
    <3>1. v # <<>> /\ value \in Seq(Byte) /\ Len(v) > 2
      BY <1>2 DEF IsDatum, LongEnough
    <3>2. id \in Nat /\ v = <<id>> \o value
      BY <3>1, TailShrinks
    <3>3. Len(value) = Len(v) - 1
      BY <3>1
    <3>4. Len(v) \in Nat
      OBVIOUS
    <3> HIDE DEF value, id
    <3> QED
      BY <3>1, <3>2, <3>3, <3>4
  <2>2. PutData(t, v) = (l \o i) \o x
    <3>1. value # <<>>
      <4>1. Len(value) # 0
        BY <2>1
      <4> HIDE DEF value
      <4> QED
        BY <4>1
    <3>2. PutData(t, v) = PutDict(id, value)
      BY <1>2 DEF PutData
    <3> HIDE DEF value, id
    <3> QED
      BY <3>1, <3>2 DEF PutDict
  <2> HIDE DEF id, value
  <2>3. l \in Seq(Byte) /\ i \in Seq(Byte) /\ x \in Seq(Byte)
    BY <2>1, PutVarintBytes, BytesAreRead
  <2>4. r2 \in Seq(Byte) /\ Copied(r2) = Outcome("ok", value, r)
    <3>1. Copied(r2) = Outcome("ok", value, r)
      BY <2>1, CopiedIsRead
    <3> HIDE DEF x
    <3> QED
      BY <2>3, <3>1, ConcatProperties
  <2> HIDE DEF x, r2
  <2>5. r1 \in Seq(Byte) /\ Varint(r1) = Outcome("ok", id, r2)
    BY <2>1, <2>4, VarintIsRead
  <2> HIDE DEF i, r1
  <2>6. Varint(l \o r1) = Outcome("ok", Len(value), r1)
    BY <2>1, <2>5, VarintIsRead
  <2> HIDE DEF l
  <2>7. PutData(t, v) \in Seq(Byte) /\ PutData(t, v) \o r = l \o r1
    <3> DEFINE u == l \o i
    <3>1. u \in Seq(Byte)
      BY <2>3, ConcatProperties
    <3> HIDE DEF u
    <3>2. u \o x \in Seq(Byte)
      BY <2>3, <3>1, ConcatProperties
    <3>3. (u \o x) \o r = u \o r2
      BY <2>3, <3>1, BytesAssociate, Zenon DEF r2
    <3>4. u \o r2 = l \o r1
      BY <2>3, <2>4, BytesAssociate, ZenonT(30) DEF r1, u
    <3> QED
      BY <2>2, <3>2, <3>3, <3>4 DEF u
  <2>8. /\ Varint(l \o r1).is = "ok" /\ Varint(l \o r1).val = Len(value)
        /\ Varint(l \o r1).rest = r1
        /\ Varint(r1).is = "ok" /\ Varint(r1).val = id /\ Varint(r1).rest = r2
        /\ Copied(r2).is = "ok" /\ Copied(r2).val = value /\ Copied(r2).rest = r
    BY <2>4, <2>5, <2>6 DEF Outcome
  <2>9. ~ (Len(value) = 0) /\ ~ (Len(value) = 1)
    BY <2>1, SMTT(30)
  <2>10. GetDict(l \o r1) = Outcome("ok", <<id>> \o value, r)
    BY <2>8, <2>9 DEF GetDict
  <2>11. GetData(t, l \o r1) = GetDict(l \o r1)
    BY <1>2 DEF GetData
  <2> QED
    BY <2>1, <2>7, <2>10, <2>11
<1> QED
  BY <1>1, <1>2

\* However short the value of a dictionary entry is, bytes are written.
LEMMA DatumIsBytes ==
    ASSUME NEW t \in DataTypes, NEW v \in Seq(Nat), IsDatum(t, v)
    PROVE  PutData(t, v) \in Seq(Byte)
<1>1. CASE ~ IsDict(t)
  <2>1. <<>> \in Seq(Byte)
    OBVIOUS
  <2> QED
    BY <1>1, <2>1, VarintsAreRead DEF PutData
<1>2. CASE IsDict(t)
  <2> DEFINE value == Tail(v)
             x == IF value = <<>> THEN <<>> ELSE PutBytes(value)
             u == PutVarint(Len(value)) \o PutVarint(Head(v))
  <2>1. value \in Seq(Byte) /\ Len(value) \in Nat /\ Head(v) \in Nat
    BY <1>2, TailShrinks DEF IsDatum
  <2>2. x \in Seq(Byte)
    <3>1. <<>> \in Seq(Byte)
      OBVIOUS
    <3> QED
      BY <2>1, <3>1, BytesAreRead
  <2>3. u \in Seq(Byte)
    BY <2>1, PutVarintBytes, ConcatProperties
  <2>4. PutData(t, v) = u \o x
    BY <1>2 DEF PutData, PutDict
  <2> HIDE DEF u, x
  <2> QED
    BY <2>2, <2>3, <2>4, ConcatProperties
<1> QED
  BY <1>1, <1>2

\* The data of an entry, one after the other.
PutDatas(types, data) == [i \in DOMAIN data |-> PutData(types[i].type, data[i])]

LEMMA DatasAreBytes ==
    ASSUME NEW d, IsDefinition(d), NEW e, IsEntry(d, e)
    PROVE  /\ PutDatas(d.types, e.data) \in Seq(Seq(Byte))
           /\ Len(PutDatas(d.types, e.data)) = Len(d.types)
           /\ Len(e.data) = Len(d.types) /\ e.data \in Seq(Seq(Nat))
           /\ \A i \in 1 .. Len(d.types) :
                  /\ PutDatas(d.types, e.data)[i] = PutData(d.types[i].type, e.data[i])
                  /\ d.types[i].type \in DataTypes /\ e.data[i] \in Seq(Nat)
                  /\ IsDatum(d.types[i].type, e.data[i])
<1> DEFINE n == Len(d.types)
           ss == PutDatas(d.types, e.data)
<1>1. /\ n \in Nat /\ DOMAIN d.types = 1 .. n /\ \A i \in 1 .. n : d.types[i].type \in DataTypes
  BY DefinitionFields, TypesAreNumbers DEF DataTypes
<1>2. /\ e.data \in Seq(Seq(Nat)) /\ Len(e.data) = n /\ DOMAIN e.data = 1 .. n
      /\ \A i \in 1 .. n : e.data[i] \in Seq(Nat) /\ IsDatum(d.types[i].type, e.data[i])
  <2>1. /\ e.data \in Seq(Seq(Nat)) /\ Len(e.data) = n
        /\ \A i \in DOMAIN d.types : IsDatum(d.types[i].type, e.data[i])
    BY DEF IsEntry
  <2> HIDE DEF n
  <2>2. DOMAIN e.data = 1 .. n /\ \A i \in 1 .. n : e.data[i] \in Seq(Nat)
    BY <2>1
  <2> QED
    BY <1>1, <2>1, <2>2
<1>3. \A i \in 1 .. n : PutData(d.types[i].type, e.data[i]) \in Seq(Byte)
  BY <1>1, <1>2, DatumIsBytes
<1>4. ss = [i \in 1 .. n |-> PutData(d.types[i].type, e.data[i])]
  BY <1>2 DEF PutDatas
<1> HIDE DEF ss
<1>5. ss \in Seq(Seq(Byte)) /\ Len(ss) = n
  <2>1. ss \in [1 .. n -> Seq(Byte)]
    BY <1>3, <1>4
  <2> QED
    BY <1>1, <2>1, SequenceOfLength
<1> QED
  BY <1>1, <1>2, <1>4, <1>5 DEF ss

LEMMA DataAreRead ==
    ASSUME NEW d, IsDefinition(d), NEW e, IsEntry(d, e), NEW r \in Seq(Byte),
           \A i \in 1 .. Len(d.types) : LongEnough(d.types[i].type, e.data[i])
    PROVE  DataOf(d.types, FlattenSeq(PutDatas(d.types, e.data)) \o r) = Outcome("ok", e.data, r)
<1> DEFINE n == Len(d.types)
           ts == d.types
           v == e.data
           ss == PutDatas(ts, v)
           b == FlattenSeq(ss) \o r
           Datum(i, o) == GetData(ts[i].type, o.rest)
           H(i, o) == IF o.is = "ok" THEN Outcome(Datum(i, o).is, Append(o.val, Datum(i, o).val),
                                                  Datum(i, o).rest) ELSE o
           Is(g) == g = [i \in 0 .. n |-> IF i = 0 THEN Outcome("ok", <<>>, b) ELSE H(i, g[i - 1])]
           f == [i \in 0 .. n |-> Outcome("ok", Take(v, i), Rest(ss, i, r))]
<1>1. /\ ss \in Seq(Seq(Byte)) /\ Len(ss) = n /\ Len(v) = n /\ v \in Seq(Seq(Nat))
      /\ \A i \in 1 .. n : /\ ss[i] = PutData(ts[i].type, v[i])
                           /\ ts[i].type \in DataTypes /\ v[i] \in Seq(Nat)
                           /\ IsDatum(ts[i].type, v[i]) /\ LongEnough(ts[i].type, v[i])
  BY DatasAreBytes
<1>2. n \in Nat
  BY DefinitionFields, TypesAreNumbers
<1> HIDE DEF ss, v
<1>3. Rest(ss, 0, r) = b /\ Rest(ss, n, r) = r
  BY <1>1, RestIs
<1>4. ASSUME NEW i \in 1 .. n
      PROVE  H(i, f[i - 1]) = f[i]
  <2>1. i - 1 \in 0 .. n /\ i \in 0 .. n
    BY <1>2
  <2>2. Rest(ss, i - 1, r) = PutData(ts[i].type, v[i]) \o Rest(ss, i, r) /\ Rest(ss, i, r) \in Seq(Byte)
    <3>1. i \in 1 .. Len(ss) /\ ss \in Seq(Seq(Byte))
      BY <1>1
    <3>2. Rest(ss, i - 1, r) = ss[i] \o Rest(ss, i, r) /\ Rest(ss, i, r) \in Seq(Byte)
      BY <3>1, RestIs
    <3>3. ss[i] = PutData(ts[i].type, v[i])
      BY <1>1
    <3> QED
      BY <3>2, <3>3
  <2>3. GetData(ts[i].type, Rest(ss, i - 1, r)) = Outcome("ok", v[i], Rest(ss, i, r))
    <3> DEFINE t == ts[i].type
               w == v[i]
               q == Rest(ss, i, r)
    <3>1. t \in DataTypes /\ w \in Seq(Nat) /\ IsDatum(t, w) /\ LongEnough(t, w)
      BY <1>1
    <3>2. q \in Seq(Byte) /\ Rest(ss, i - 1, r) = PutData(t, w) \o q
      BY <2>2
    <3> HIDE DEF t, w, q
    <3>3. GetData(t, PutData(t, w) \o q) = Outcome("ok", w, q)
      BY <3>1, <3>2, DatumIsRead
    <3> QED
      BY <3>2, <3>3 DEF t, w, q
  <2>4. Append(Take(v, i - 1), v[i]) = Take(v, i)
    <3>1. i \in 1 .. Len(v) /\ v \in Seq(Seq(Nat))
      BY <1>1
    <3> QED
      BY <3>1, TakeOneMore
  <2>5. f[i - 1] = Outcome("ok", Take(v, i - 1), Rest(ss, i - 1, r)) /\ f[i] = Outcome("ok", Take(v, i), Rest(ss, i, r))
    BY <2>1
  <2> HIDE DEF f
  <2>6. f[i - 1].is = "ok" /\ f[i - 1].val = Take(v, i - 1) /\ f[i - 1].rest = Rest(ss, i - 1, r)
    BY <2>5 DEF Outcome
  <2> DEFINE x == GetData(ts[i].type, Rest(ss, i - 1, r))
  <2>7. x.is = "ok" /\ x.val = v[i] /\ x.rest = Rest(ss, i, r)
    BY <2>3 DEF Outcome
  <2>8. Datum(i, f[i - 1]) = x
    BY <2>6
  <2> HIDE DEF x, Datum
  <2> QED
    BY <2>4, <2>5, <2>6, <2>7, <2>8
<1>5. f[0] = Outcome("ok", <<>>, b) /\ f[n] = Outcome("ok", v, r)
  <2>1. Take(v, 0) = <<>> /\ Take(v, n) = v
    BY <1>1, TakeEnds
  <2>2. 0 \in 0 .. n /\ n \in 0 .. n
    BY <1>2
  <2> HIDE DEF b
  <2> QED
    BY <1>3, <2>1, <2>2
<1>6. Is(f)
  <2>1. f = [i \in 0 .. n |-> f[i]]
    OBVIOUS
  <2>2. ASSUME NEW i \in 0 .. n
        PROVE  f[i] = IF i = 0 THEN Outcome("ok", <<>>, b) ELSE H(i, f[i - 1])
    <3>1. i = 0 \/ i \in 1 .. n
      BY <1>2
    <3> HIDE DEF f, H, b
    <3> QED
      BY <1>4, <1>5, <3>1
  <2> HIDE DEF f, H, b
  <2> QED
    BY <2>1, <2>2, Zenon
<1>7. PICK g : Is(g) /\ DataOf(ts, b) = g[n]
  <2>1. Is(CHOOSE g : Is(g))
    <3> HIDE DEF Is, f
    <3> QED
      BY <1>6
  <2>2. DataOf(ts, b) = (CHOOSE g : Is(g))[n]
    BY DEF DataOf
  <2> HIDE DEF Is
  <2> QED
    BY <2>1, <2>2
<1> HIDE DEF f, H, b
<1>8. g[0] = f[0] /\ \A i \in 1 .. n : g[i] = H(i, g[i - 1])
  <2>1. 0 \in 0 .. n /\ \A i \in 1 .. n : i \in 0 .. n /\ i # 0
    BY <1>2
  <2>2. \A i \in 0 .. n : g[i] = IF i = 0 THEN Outcome("ok", <<>>, b) ELSE H(i, g[i - 1])
    BY <1>7
  <2> QED
    BY <1>5, <2>1, <2>2
<1> HIDE DEF Is
<1>9. g[n] = f[n]
  <2>1. \A i \in 1 .. n : g[i - 1] = f[i - 1] => g[i] = f[i]
    BY <1>4, <1>8
  <2> QED
    BY <1>2, <1>8, <2>1, StepByStep
<1> QED
  BY <1>5, <1>7, <1>9 DEF b, v, ss

\* An update that can be sent.
IsUpdate(u) ==
    /\ u = [table |-> u.table, id |-> u.id, timed |-> u.timed, expiry |-> u.expiry,
            key |-> u.key, data |-> u.data]
    /\ IsDefinition(u.table) /\ IsEntry(u.table, u)
    /\ Word(u.id) /\ u.timed \in BOOLEAN /\ Word(u.expiry) /\ (~ u.timed => u.expiry = 0)

\* One whose dictionary entries have long values.
IsLong(u) == \A i \in 1 .. Len(u.table.types) : LongEnough(u.table.types[i].type, u.data[i])

\* Four bytes that are there or not, and what is read of them.
Optional32(there, n) == IF there THEN Put32(n) ELSE <<>>
GetOptional32(there, other, b) == IF there THEN Get32(b) ELSE Outcome("ok", other, b)

\* One after the other.
Joined(s, r) == s \o r

LEMMA OptionalIsBytes ==
    ASSUME NEW there, NEW n, Word(n)
    PROVE  Optional32(there, n) \in Seq(Byte)
<1>1. n \in Nat /\ <<>> \in Seq(Byte)
  BY DEF Word
<1> QED
  BY <1>1, Put32IsBytes DEF Optional32

LEMMA OptionalIsRead ==
    ASSUME NEW there \in BOOLEAN, NEW n, Word(n), NEW other, ~ there => other = n,
           NEW r \in Seq(Byte), NEW b, b = Joined(Optional32(there, n), r)
    PROVE  GetOptional32(there, other, b) = Outcome("ok", n, r)
<1>1. CASE there
  <2>1. b = Put32(n) \o r
    BY <1>1 DEF Optional32, Joined
  <2> QED
    BY <1>1, <2>1, WordIsRead DEF GetOptional32
<1>2. CASE ~ there
  <2>1. b = <<>> \o r
    BY <1>2 DEF Optional32, Joined
  <2>2. <<>> \o r = r /\ other = n
    BY <1>2
  <2> QED
    BY <1>2, <2>1, <2>2 DEF GetOptional32
<1> QED
  BY <1>1, <1>2

\* The bytes of an update are those of its four parts.
Four(a, b, k, f) == ((a \o b) \o k) \o f

LEMMA EntryParts ==
    ASSUME NEW u, IsUpdate(u), NEW withID, PutEntry(u, withID).is = "ok"
    PROVE  LET k == PutKey(u.table.keyType, u.table.keyLength, u.key)
               a == Optional32(withID, u.id)
               b == Optional32(u.timed, u.expiry)
               f == FlattenSeq(PutDatas(u.table.types, u.data))
           IN /\ k.is = "ok" /\ k.val \in Seq(Byte) /\ a \in Seq(Byte) /\ b \in Seq(Byte)
              /\ f \in Seq(Byte) /\ PutEntry(u, withID).val = Four(a, b, k.val, f)
              /\ PutEntry(u, withID).val \in Seq(Byte)
<1> DEFINE d == u.table
           a == Optional32(withID, u.id)
           b == Optional32(u.timed, u.expiry)
           k == PutKey(d.keyType, d.keyLength, u.key)
           f == FlattenSeq(PutDatas(d.types, u.data))
           v == Four(a, b, k.val, f)
<1>1. IsDefinition(d) /\ IsEntry(d, u) /\ Word(u.id) /\ Word(u.expiry)
  BY DEF IsUpdate
<1>2. PutEntry(u, withID) = Outcome(k.is, v, <<>>)
  BY DEF PutEntry, Optional32, PutDatas, Four
<1>3. a \in Seq(Byte) /\ b \in Seq(Byte)
  BY <1>1, OptionalIsBytes
<1>4. d.keyType \in KeyTypes /\ d.keyLength \in Nat /\ IsKey(d.keyType, d.keyLength, u.key)
  BY <1>1, DefinitionFields DEF IsEntry
<1>5. PutDatas(d.types, u.data) \in Seq(Seq(Byte))
  BY <1>1, DatasAreBytes
<1>6. <<>> \in Seq(Byte)
  OBVIOUS
<1> HIDE DEF v, k, a, b
<1>7. k.is = "ok" /\ PutEntry(u, withID).val = v
  BY <1>2 DEF Outcome
<1>8. k.val \in Seq(Byte)
  BY <1>4, <1>6, <1>7, KeyIsRead DEF k
<1>9. f \in Seq(Byte)
  <2> DEFINE ss == PutDatas(d.types, u.data)
  <2> HIDE DEF ss
  <2>1. FlattenSeq(ss) \in Seq(Byte)
    BY <1>5, <1>6, RestIs DEF ss
  <2> QED
    BY <2>1 DEF ss
<1> HIDE DEF f, d
<1>10. v \in Seq(Byte)
  <2>1. (a \o b) \o k.val \in Seq(Byte)
    BY <1>3, <1>8, ConcatProperties
  <2> QED
    BY <1>9, <2>1, ConcatProperties DEF v, Four
<1> QED
  BY <1>3, <1>7, <1>8, <1>9, <1>10 DEF v, k, a, b, f, d

\* A receiver that expects this ID next, unless the ID is there.
Expects(withID, next, u) == withID \/ next = u.id

LEMMA UpdateBytesAreRead ==
    ASSUME NEW u, IsUpdate(u), IsLong(u), NEW withID \in BOOLEAN, PutEntry(u, withID).is = "ok",
           NEW last, Expects(withID, last, u), NEW r \in Seq(Byte),
           NEW bytes, bytes = Joined(PutEntry(u, withID).val, r)
    PROVE  GetEntry(u.table, last, withID, u.timed, bytes) = Outcome("ok", u, r)
<1> DEFINE d == u.table
           a == Optional32(withID, u.id)
           b == Optional32(u.timed, u.expiry)
           k == PutKey(d.keyType, d.keyLength, u.key).val
           f == FlattenSeq(PutDatas(d.types, u.data))
           r3 == f \o r
           r2 == k \o r3
           r1 == b \o r2
           all == a \o r1
           newID == GetOptional32(withID, last, all)
           newExpiry == GetOptional32(u.timed, 0, r1)
<1>1. /\ PutKey(d.keyType, d.keyLength, u.key).is = "ok"
      /\ a \in Seq(Byte) /\ b \in Seq(Byte) /\ k \in Seq(Byte) /\ f \in Seq(Byte)
      /\ PutEntry(u, withID).val = Four(a, b, k, f)
  BY EntryParts
<1>2. /\ IsDefinition(d) /\ IsEntry(d, u) /\ Word(u.id) /\ Word(u.expiry)
      /\ u.timed \in BOOLEAN /\ (~ u.timed => 0 = u.expiry)
      /\ \A i \in 1 .. Len(d.types) : LongEnough(d.types[i].type, u.data[i])
      /\ u = [table |-> d, id |-> u.id, timed |-> u.timed, expiry |-> u.expiry,
              key |-> u.key, data |-> u.data]
  BY DEF IsUpdate, IsLong
<1>0. ~ withID => last = u.id
  BY DEF Expects
<1>3. DataOf(d.types, r3) = Outcome("ok", u.data, r)
  BY <1>2, DataAreRead
<1> HIDE DEF f
<1>4. r3 \in Seq(Byte)
  BY <1>1, ConcatProperties
<1> HIDE DEF r3
<1>5. GetKey(d.keyType, d.keyLength, r2) = Outcome("ok", u.key, r3)
  <2>1. d.keyType \in KeyTypes /\ d.keyLength \in Nat /\ IsKey(d.keyType, d.keyLength, u.key)
    BY <1>2, DefinitionFields DEF IsEntry
  <2> QED
    BY <1>1, <1>4, <2>1, KeyIsRead
<1> HIDE DEF k, d
<1>6. r2 \in Seq(Byte)
  BY <1>1, <1>4, ConcatProperties
<1> HIDE DEF r2
<1>7. newExpiry = Outcome("ok", u.expiry, r2)
  <2>1. r1 = Joined(b, r2)
    BY DEF Joined
  <2> HIDE DEF r1
  <2> QED
    BY <1>2, <1>6, <2>1, OptionalIsRead
<1> HIDE DEF b, newExpiry
<1>8. r1 \in Seq(Byte)
  BY <1>1, <1>6, ConcatProperties
<1> HIDE DEF r1
<1>9. newID = Outcome("ok", u.id, r1)
  <2>1. all = Joined(a, r1)
    BY DEF Joined
  <2> HIDE DEF all
  <2> QED
    BY <1>0, <1>2, <1>8, <2>1, OptionalIsRead
<1> HIDE DEF a, newID
<1>10. Four(a, b, k, f) \o r = all
  <2> DEFINE x == a \o b
             y == x \o k
  <2>1. x \in Seq(Byte)
    BY <1>1, ConcatProperties
  <2> HIDE DEF x
  <2>2. y \in Seq(Byte)
    BY <1>1, <2>1, ConcatProperties
  <2> HIDE DEF y
  <2>3. (y \o f) \o r = y \o r3
    BY <1>1, <2>2, BytesAssociate, Zenon DEF r3
  <2>4. y \o r3 = x \o r2
    BY <1>1, <1>4, <2>1, BytesAssociate, ZenonT(30) DEF r2, y
  <2>5. x \o r2 = a \o r1
    <3>1. a \in Seq(Byte) /\ b \in Seq(Byte) /\ r2 \in Seq(Byte)
      BY <1>1, <1>6
    <3>2. (a \o b) \o r2 = a \o (b \o r2)
      BY <3>1, BytesAssociate, Zenon
    <3> QED
      BY <3>2 DEF r1, x
  <2> QED
    BY <2>3, <2>4, <2>5 DEF y, x, Four
<1> HIDE DEF all
<1>11. bytes = all
  BY <1>1, <1>10 DEF Joined
<1>12. /\ newID.is = "ok" /\ newID.val = u.id /\ newID.rest = r1
       /\ newExpiry.is = "ok" /\ newExpiry.val = u.expiry /\ newExpiry.rest = r2
  BY <1>7, <1>9 DEF Outcome
<1>13. /\ GetKey(d.keyType, d.keyLength, r2).is = "ok"
       /\ GetKey(d.keyType, d.keyLength, r2).val = u.key
       /\ GetKey(d.keyType, d.keyLength, r2).rest = r3
       /\ DataOf(d.types, r3).is = "ok" /\ DataOf(d.types, r3).val = u.data
       /\ DataOf(d.types, r3).rest = r
  BY <1>3, <1>5 DEF Outcome
<1>14. GetEntry(d, last, withID, u.timed, all)
         = Outcome("ok", [table |-> d, id |-> u.id, timed |-> u.timed, expiry |-> u.expiry,
                          key |-> u.key, data |-> u.data], r)
  BY <1>12, <1>13 DEF GetEntry, newID, newExpiry, GetOptional32
<1> QED
  BY <1>2, <1>11, <1>14 DEF d

\* EntryUpdate.Unmarshal reads what EntryUpdate.Marshal has written, whether or not the
\* ID and the expiry are among the bytes.
THEOREM UpdateIsRead ==
    ASSUME NEW u, IsUpdate(u), IsLong(u), NEW withID \in BOOLEAN, PutEntry(u, withID).is = "ok",
           NEW last, Expects(withID, last, u), NEW r \in Seq(Byte)
    PROVE  GetEntry(u.table, last, withID, u.timed, PutEntry(u, withID).val \o r)
             = Outcome("ok", u, r)
<1> DEFINE bytes == PutEntry(u, withID).val \o r
<1>1. bytes = Joined(PutEntry(u, withID).val, r)
  BY DEF Joined
<1> HIDE DEF bytes
<1>2. GetEntry(u.table, last, withID, u.timed, bytes) = Outcome("ok", u, r)
  BY <1>1, UpdateBytesAreRead
<1> QED
  BY <1>2 DEF bytes

-------------------------------------------------------------------------------
(* The messages on the wire *)

Definitions == {t.definition : t \in Tables}

\* What the sender sends: an update of an entry of a table, and its message.
UpdateOf(t, e, id, timed) ==
    [table |-> t.definition, id |-> id, timed |-> timed, expiry |-> IF timed THEN 300 ELSE 0,
     key |-> e.key, data |-> e.data]

TypeOf(timed, withID) == IF withID THEN IF timed THEN "timed" ELSE "entry"
                         ELSE IF timed THEN "incrementalTimed" ELSE "incremental"

Carries(m, u, withID) == /\ PutEntry(u, withID).is = "ok"
                         /\ m = Message(TypeOf(u.timed, withID), PutEntry(u, withID).val)

IsDefinitionMessage(m) == \E d \in Definitions : m = Message("definition", PutDefinition(d))

IsUpdateMessage(m) ==
    \E t \in Tables : \E e \in t.entries, id \in 0 .. IDs - 1, timed \in BOOLEAN, withID \in BOOLEAN :
        Carries(m, UpdateOf(t, e, id, timed), withID)

IsOtherMessage(m) == m.type \in {"acknowledge", "switch"}

IsMessage(m) == IsDefinitionMessage(m) \/ IsUpdateMessage(m) \/ IsOtherMessage(m)

MessageType == Updates \cup {"definition", "acknowledge", "switch"}
WireMessage == [type : MessageType, data : Seq(Byte)]

WireOK == wire \in Seq(WireMessage) /\ \A i \in 1 .. Len(wire) : IsMessage(wire[i])

TypesInv == TypeOK /\ WireOK

LEMMA MessageTypes ==
    ASSUME NEW timed \in BOOLEAN, NEW withID \in BOOLEAN
    PROVE  LET type == TypeOf(timed, withID)
           IN /\ type \in Updates /\ type \notin {"definition", "acknowledge", "switch"}
              /\ WithLocalUpdateID(type) = withID /\ WithExpiry(type) = timed
  BY DEF TypeOf, Updates, WithLocalUpdateID, WithExpiry

LEMMA IDsAreWords ==
    /\ IDs \in Nat \ {0} /\ \A id \in 0 .. IDs - 1 : Word(id) /\ (id + 1) % IDs \in 0 .. IDs - 1
    /\ Word(300) /\ Word(0)
<1>1. IDs \in Nat \ {0} /\ Word(IDs - 1)
  BY IDsAssumption
<1>2. ASSUME NEW id \in 0 .. IDs - 1
      PROVE  Word(id)
  <2>1. id \in Nat /\ IDs - 1 \in Nat /\ id <= IDs - 1 /\ (IDs - 1) \div (256 * 256) < 256 * 256
    BY <1>1 DEF Word, Half
  <2>2. id \div (256 * 256) < 256 * 256
    BY <2>1
  <2> QED
    BY <2>1, <2>2 DEF Word, Half
<1>3. ASSUME NEW id \in 0 .. IDs - 1
      PROVE  (id + 1) % IDs \in 0 .. IDs - 1
  BY <1>1
<1>4. Word(300) /\ Word(0)
  BY DEF Word, Half
<1> QED
  BY <1>1, <1>2, <1>3, <1>4

\* What the sender sends is an update of the codec.
LEMMA SentUpdates ==
    ASSUME NEW t \in Tables, NEW e \in t.entries, NEW id \in 0 .. IDs - 1, NEW timed \in BOOLEAN
    PROVE  LET u == UpdateOf(t, e, id, timed)
           IN /\ IsUpdate(u) /\ u.table = t.definition /\ u.data = e.data
              /\ u.id = id /\ u.timed = timed
<1> DEFINE u == UpdateOf(t, e, id, timed)
           expiry == IF timed THEN 300 ELSE 0
<1>1. IsDefinition(t.definition) /\ IsEntry(t.definition, e)
  BY TablesAssumption
<1>2. Word(id) /\ Word(expiry) /\ (~ timed => expiry = 0)
  BY IDsAreWords
<1>3. /\ u.table = t.definition /\ u.id = id /\ u.timed = timed /\ u.expiry = expiry
      /\ u.key = e.key /\ u.data = e.data
      /\ u = [table |-> u.table, id |-> u.id, timed |-> u.timed, expiry |-> u.expiry,
              key |-> u.key, data |-> u.data]
  BY DEF UpdateOf
<1> HIDE DEF u, expiry
<1>4. IsEntry(t.definition, u)
  BY <1>1, <1>3 DEF IsEntry
<1>5. IsUpdate(u)
  BY <1>1, <1>2, <1>3, <1>4 DEF IsUpdate
<1> QED
  BY <1>3, <1>5 DEF u

\* The ID of an update that is received is an ID.
LEMMA ReceivedID ==
    ASSUME NEW m, IsUpdateMessage(m), NEW d, NEW last, last \in 0 .. IDs - 1
    PROVE  LET e == GetEntry(d, last, WithLocalUpdateID(m.type), WithExpiry(m.type), m.data)
           IN e.is = "ok" => e.val.id \in 0 .. IDs - 1
<1> DEFINE withID == WithLocalUpdateID(m.type)
           timed == WithExpiry(m.type)
           b == m.data
           newID == IF withID THEN Get32(b) ELSE Outcome("ok", last, b)
           expiry == IF timed THEN Get32(newID.rest) ELSE Outcome("ok", 0, newID.rest)
           key == GetKey(d.keyType, d.keyLength, expiry.rest)
           data == DataOf(d.types, key.rest)
           u == [table |-> d, id |-> newID.val, timed |-> timed, expiry |-> expiry.val,
                 key |-> key.val, data |-> data.val]
           e == GetEntry(d, last, withID, timed, b)
<1>1. e = Outcome("ok", u, data.rest) \/ e = Outcome("error", <<>>, b)
  BY DEF GetEntry
<1>2. newID.val \in 0 .. IDs - 1
  <2>1. CASE ~ withID
    BY <2>1 DEF Outcome
  <2>2. CASE withID
    <3>0. PICK t \in Tables : \E x \in t.entries, id \in 0 .. IDs - 1, y \in BOOLEAN, z \in BOOLEAN :
              Carries(m, UpdateOf(t, x, id, y), z)
      BY DEF IsUpdateMessage
    <3>1. PICK x \in t.entries, id \in 0 .. IDs - 1, timed0 \in BOOLEAN, withID0 \in BOOLEAN :
              Carries(m, UpdateOf(t, x, id, timed0), withID0)
      BY <3>0
    <3> DEFINE v == UpdateOf(t, x, id, timed0)
    <3>2. v.timed = timed0
      BY SentUpdates
    <3>3. m.type = TypeOf(timed0, withID0) /\ b = PutEntry(v, withID0).val
          /\ PutEntry(v, withID0).is = "ok"
      BY <3>1, <3>2 DEF Carries, Message
    <3>4. withID0
      BY <2>2, <3>3, MessageTypes
    <3> DEFINE a == Put32(id)
               x2 == Optional32(v.timed, v.expiry)
               k == PutKey(v.table.keyType, v.table.keyLength, v.key).val
               f == FlattenSeq(PutDatas(v.table.types, v.data))
    <3>5. IsUpdate(v) /\ v.id = id /\ Word(id)
      BY SentUpdates, IDsAreWords
    <3> HIDE DEF v, b
    <3>6. /\ Optional32(withID0, id) \in Seq(Byte) /\ x2 \in Seq(Byte) /\ k \in Seq(Byte)
          /\ f \in Seq(Byte) /\ b = Four(Optional32(withID0, id), x2, k, f)
      BY <3>3, <3>5, EntryParts
    <3>7. Optional32(withID0, id) = a
      BY <3>4 DEF Optional32
    <3> HIDE DEF a, x2, k, f, b
    <3>8. \E r \in Seq(Byte) : b = a \o r
      <4> DEFINE p == a \o x2
                 q == x2 \o k
                 r == q \o f
      <4>1. a \in Seq(Byte)
        BY <3>6, <3>7
      <4>2. p \o k = a \o q
        BY <3>6, <4>1, BytesAssociate, Zenon
      <4>3. q \in Seq(Byte)
        BY <3>6, ConcatProperties
      <4> HIDE DEF q
      <4>4. (a \o q) \o f = a \o r
        BY <3>6, <4>1, <4>3, BytesAssociate, ZenonT(30)
      <4>5. r \in Seq(Byte)
        BY <3>6, <4>3, ConcatProperties
      <4>6. b = (p \o k) \o f
        BY <3>6, <3>7 DEF Four
      <4> HIDE DEF r, p
      <4> QED
        BY <4>2, <4>4, <4>5, <4>6
    <3>9. Get32(b) = Outcome("ok", id, Drop(b, 4)) \/ Get32(b).val = id
      <4>1. PICK r \in Seq(Byte) : b = a \o r
        BY <3>8
      <4>2. Get32(Put32(id) \o r) = Outcome("ok", id, r)
        BY <3>5, WordIsRead
      <4> QED
        BY <4>1, <4>2 DEF Outcome, a
    <3>10. Get32(b).val = id
      BY <3>9 DEF Outcome
    <3> QED
      BY <2>2, <3>10
  <2> QED
    BY <2>1, <2>2
<1>3. u.id = newID.val
  OBVIOUS
<1> HIDE DEF u, newID
<1>4. e.is = "ok" => e.val = u
  BY <1>1 DEF Outcome
<1> HIDE DEF e
<1>5. e.is = "ok" => e.val.id \in 0 .. IDs - 1
  BY <1>2, <1>3, <1>4
<1> QED
  BY <1>5 DEF e

LEMMA NextIDIsID ==
    ASSUME TypeOK
    PROVE  NextID \in 0 .. IDs - 1
<1>1. IDs \in Nat \ {0} /\ 0 \in 0 .. IDs - 1
  BY IDsAreWords
<1>2. lastID # Nil => lastID \in 0 .. IDs - 1
  BY DEF TypeOK
<1> QED
  BY <1>1, <1>2, IDsAreWords DEF NextID

\* The message of a definition, and what is read from it.
LEMMA DefinitionMessage ==
    ASSUME NEW d \in Definitions
    PROVE  LET m == Message("definition", PutDefinition(d))
           IN /\ IsDefinition(d) /\ d # Nil /\ m \in WireMessage /\ IsMessage(m)
              /\ m.type = "definition" /\ m.data = PutDefinition(d)
              /\ GetDefinition(m.data) = Outcome("ok", d, <<>>)
<1> DEFINE m == Message("definition", PutDefinition(d))
           b == PutDefinition(d)
<1>1. IsDefinition(d) /\ d # Nil
  BY TablesAssumption, NilAssumption DEF Definitions
<1>2. <<>> \in Seq(Byte)
  OBVIOUS
<1>3. b \in Seq(Byte) /\ GetDefinition(b \o <<>>) = Outcome("ok", d, <<>>)
  BY <1>1, <1>2, DefinitionIsRead
<1>4. m.type = "definition" /\ m.data = b /\ IsDefinitionMessage(m)
  BY DEF Message, IsDefinitionMessage
<1> HIDE DEF b
<1>5. b \o <<>> = b /\ m \in WireMessage
  <2>1. "definition" \in MessageType
    BY DEF MessageType
  <2> QED
    BY <1>3, <2>1 DEF Message, WireMessage, b
<1>6. IsMessage(m) /\ GetDefinition(b) = Outcome("ok", d, <<>>)
  BY <1>3, <1>4, <1>5 DEF IsMessage
<1>7. m.data = b
  BY DEF Message, b
<1> QED
  BY <1>1, <1>4, <1>5, <1>6, <1>7 DEF b

\* The message of an update.
LEMMA UpdateMessage ==
    ASSUME NEW t \in Tables, NEW e \in t.entries, NEW id \in 0 .. IDs - 1, NEW timed \in BOOLEAN,
           NEW withID \in BOOLEAN, NEW m, Carries(m, UpdateOf(t, e, id, timed), withID)
    PROVE  /\ m \in WireMessage /\ IsMessage(m) /\ IsUpdateMessage(m)
           /\ m.type = TypeOf(timed, withID) /\ m.data = PutEntry(UpdateOf(t, e, id, timed), withID).val
<1> DEFINE u == UpdateOf(t, e, id, timed)
           b == PutEntry(u, withID).val
<1>1. IsUpdate(u) /\ u.timed = timed
  BY SentUpdates
<1>2. PutEntry(u, withID).is = "ok" /\ m = Message(TypeOf(timed, withID), b)
  BY <1>1 DEF Carries
<1>3. IsUpdateMessage(m)
  BY DEF IsUpdateMessage
<1> HIDE DEF u
<1>4. b \in Seq(Byte)
  BY <1>1, <1>2, EntryParts
<1>5. TypeOf(timed, withID) \in MessageType
  BY MessageTypes DEF MessageType
<1> HIDE DEF b
<1>6. m.type = TypeOf(timed, withID) /\ m.data = b /\ m \in WireMessage
  BY <1>2, <1>4, <1>5 DEF Message, WireMessage
<1> QED
  BY <1>3, <1>6 DEF IsMessage, b, u

\* By its type one knows what a message is.
LEMMA MessageKinds ==
    ASSUME NEW m, IsMessage(m)
    PROVE  /\ m.type = "definition" => IsDefinitionMessage(m)
           /\ m.type \in Updates => IsUpdateMessage(m)
           /\ m.type \in {"acknowledge", "switch"} => IsOtherMessage(m)
<1>1. IsDefinitionMessage(m) => m.type = "definition"
  BY DefinitionMessage DEF IsDefinitionMessage
<1>2. IsUpdateMessage(m) => m.type \in Updates
  <2>1. ASSUME NEW t \in Tables, NEW e \in t.entries, NEW id \in 0 .. IDs - 1,
               NEW timed \in BOOLEAN, NEW withID \in BOOLEAN,
               Carries(m, UpdateOf(t, e, id, timed), withID)
        PROVE  m.type \in Updates
    BY <2>1, UpdateMessage, MessageTypes
  <2> QED
    BY <2>1 DEF IsUpdateMessage
<1>3. IsOtherMessage(m) => m.type \in {"acknowledge", "switch"}
  BY DEF IsOtherMessage
<1>4. "definition" \notin Updates /\ "acknowledge" \notin Updates /\ "switch" \notin Updates
  BY DEF Updates
<1> QED
  BY <1>1, <1>2, <1>3, <1>4 DEF IsMessage

LEMMA SendKeepsWire ==
    ASSUME TypesInv, NEW m \in WireMessage, IsMessage(m), Send(m)
    PROVE  WireOK' /\ Len(wire') <= count' /\ count' \in 0 .. MaxSent
<1>1. /\ wire \in Seq(WireMessage) /\ \A i \in 1 .. Len(wire) : IsMessage(wire[i])
      /\ count \in 0 .. MaxSent /\ Len(wire) <= count /\ MaxSent \in Nat
      /\ wire' = Append(wire, m) /\ count' = count + 1 /\ count < MaxSent
  BY IDsAssumption DEF TypesInv, TypeOK, WireOK, Send
<1>2. /\ wire' \in Seq(WireMessage) /\ Len(wire') = Len(wire) + 1
      /\ \A i \in 1 .. Len(wire) : wire'[i] = wire[i]
      /\ wire'[Len(wire) + 1] = m
  BY <1>1
<1>3. \A i \in 1 .. Len(wire') : i \in 1 .. Len(wire) \/ i = Len(wire) + 1
  BY <1>1, <1>2
<1>4. \A i \in 1 .. Len(wire') : IsMessage(wire'[i])
  BY <1>1, <1>2, <1>3
<1>5. WireOK'
  <2>1. \A i \in 1 .. Len(wire') : IsMessage(wire[i])'
    BY <1>4 DEF IsMessage, IsDefinitionMessage, IsUpdateMessage, IsOtherMessage
  <2> QED
    BY <1>2, <2>1 DEF WireOK
<1>6. Len(wire') <= count' /\ count' \in 0 .. MaxSent
  BY <1>1, <1>2
<1> QED
  BY <1>5, <1>6

LEMMA ReceiveKeepsWire ==
    ASSUME TypesInv, NEW types, Receive(types), count' = count
    PROVE  /\ WireOK' /\ Len(wire') <= count' /\ count' \in 0 .. MaxSent
           /\ IsMessage(Head(wire)) /\ Head(wire).type \in types
<1>1. /\ wire \in Seq(WireMessage) /\ \A i \in 1 .. Len(wire) : IsMessage(wire[i])
      /\ count \in 0 .. MaxSent /\ Len(wire) <= count /\ MaxSent \in Nat
      /\ wire # <<>> /\ wire' = Tail(wire) /\ Head(wire).type \in types
  BY IDsAssumption DEF TypesInv, TypeOK, WireOK, Receive
<1>2. /\ wire' \in Seq(WireMessage) /\ Len(wire') = Len(wire) - 1 /\ Len(wire) > 0
      /\ \A i \in 1 .. Len(wire') : wire'[i] = wire[i + 1] /\ i + 1 \in 1 .. Len(wire)
      /\ Head(wire) = wire[1] /\ 1 \in 1 .. Len(wire)
  BY <1>1
<1>3. WireOK'
  BY <1>1, <1>2 DEF WireOK
<1> QED
  BY <1>1, <1>2, <1>3

LEMMA TypesInvInit == Init => TypesInv
<1> SUFFICES ASSUME Init PROVE TypesInv
  OBVIOUS
<1>1. /\ wire = <<>> /\ count = 0 /\ table = Nil /\ follows = Nil
      /\ lastTable = Nil /\ lastID = Nil /\ failed = FALSE
  BY DEF Init
<1>2. wire \in Seq(WireMessage) /\ Len(wire) = 0 /\ 1 .. Len(wire) = {}
  BY <1>1
<1>3. 0 \in 0 .. MaxSent
  BY IDsAssumption
<1>4. WireOK
  BY <1>2 DEF WireOK
<1>5. table \in Tables \cup {Nil} /\ follows \in 0 .. IDs - 1 \cup {Nil} /\ failed \in BOOLEAN
  BY <1>1
<1>6. count \in 0 .. MaxSent /\ Len(wire) <= count
  BY <1>1, <1>2, <1>3
<1>7. TypeOK
  BY <1>1, <1>5, <1>6 DEF TypeOK
<1> QED
  BY <1>4, <1>7 DEF TypesInv

LEMMA TypesInvNext == TypesInv /\ [Next]_vars => TypesInv'
<1> SUFFICES ASSUME TypesInv, [Next]_vars
             PROVE  TypesInv'
  OBVIOUS
<1> USE DEF TypesInv
<1>1. CASE SendDefinition
  <2>1. PICK t \in Tables : table' = t /\ Send(Message("definition", PutDefinition(t.definition)))
    BY <1>1 DEF SendDefinition
  <2>2. t.definition \in Definitions
    BY DEF Definitions
  <2>3. WireOK' /\ Len(wire') <= count' /\ count' \in 0 .. MaxSent
    BY <2>1, <2>2, DefinitionMessage, SendKeepsWire
  <2>4. follows' = Nil /\ UNCHANGED receiver
    BY <1>1 DEF SendDefinition
  <2> QED
    BY <2>1, <2>3, <2>4 DEF TypeOK, receiver
<1>2. CASE SendUpdate
  <2>1. table \in Tables /\ UNCHANGED <<table, receiver>>
    BY <1>2 DEF SendUpdate, TypeOK
  <2>2. PICK e \in table.entries, timed \in BOOLEAN, withID \in BOOLEAN :
            \E id \in IF withID THEN FirstIDs ELSE {follows} \ {Nil} :
                /\ Carries(Message(TypeOf(timed, withID), PutEntry(UpdateOf(table, e, id, timed), withID).val),
                           UpdateOf(table, e, id, timed), withID)
                /\ Send(Message(TypeOf(timed, withID), PutEntry(UpdateOf(table, e, id, timed), withID).val))
                /\ sent' = Append(sent, UpdateOf(table, e, id, timed))
                /\ follows' = (id + 1) % IDs
    BY <1>2 DEF SendUpdate, Carries, TypeOf, UpdateOf
  <2>3. PICK id \in IF withID THEN FirstIDs ELSE {follows} \ {Nil} :
                /\ Carries(Message(TypeOf(timed, withID), PutEntry(UpdateOf(table, e, id, timed), withID).val),
                           UpdateOf(table, e, id, timed), withID)
                /\ Send(Message(TypeOf(timed, withID), PutEntry(UpdateOf(table, e, id, timed), withID).val))
                /\ sent' = Append(sent, UpdateOf(table, e, id, timed))
                /\ follows' = (id + 1) % IDs
    BY <2>2
  <2>4. id \in 0 .. IDs - 1
    BY <2>3, IDsAssumption DEF TypeOK
  <2> DEFINE m == Message(TypeOf(timed, withID), PutEntry(UpdateOf(table, e, id, timed), withID).val)
  <2>5. m \in WireMessage /\ IsMessage(m) /\ Send(m)
    BY <2>1, <2>3, <2>4, UpdateMessage
  <2> HIDE DEF m
  <2>6. WireOK' /\ Len(wire') <= count' /\ count' \in 0 .. MaxSent
    BY <2>5, SendKeepsWire
  <2>7. follows' \in 0 .. IDs - 1
    BY <2>3, <2>4, IDsAreWords
  <2> QED
    BY <2>1, <2>6, <2>7 DEF TypeOK, receiver
<1>3. CASE SendOther
  <2>1. PICK type \in {"acknowledge", "switch"} : Send(Message(type, <<>>))
    BY <1>3 DEF SendOther
  <2>2. Message(type, <<>>) \in WireMessage /\ IsMessage(Message(type, <<>>))
    <3>1. type \in MessageType /\ <<>> \in Seq(Byte)
      BY DEF MessageType
    <3> QED
      BY <3>1 DEF Message, WireMessage, IsMessage, IsOtherMessage
  <2>3. WireOK' /\ Len(wire') <= count' /\ count' \in 0 .. MaxSent
    BY <2>1, <2>2, SendKeepsWire
  <2>4. UNCHANGED <<table, follows, sent, receiver>>
    BY <1>3 DEF SendOther
  <2> QED
    BY <2>3, <2>4 DEF TypeOK, receiver
<1>4. CASE OnDefinition
  <2>1. Receive({"definition"}) /\ UNCHANGED <<sender, lastID, updates>>
    BY <1>4 DEF OnDefinition
  <2>2. /\ WireOK' /\ Len(wire') <= count' /\ count' \in 0 .. MaxSent
        /\ IsDefinitionMessage(Head(wire))
    BY <2>1, ReceiveKeepsWire, MessageKinds DEF sender
  <2>3. PICK d \in Definitions : Head(wire) = Message("definition", PutDefinition(d))
    BY <2>2 DEF IsDefinitionMessage
  <2>4. GetDefinition(Head(wire).data).is = "ok" /\ GetDefinition(Head(wire).data).val = d
    <3> DEFINE m == Message("definition", PutDefinition(d))
    <3>1. GetDefinition(m.data) = Outcome("ok", d, <<>>)
      BY DefinitionMessage
    <3> HIDE DEF m
    <3> QED
      BY <2>3, <3>1 DEF Outcome, m
  <2>5. lastTable' = d /\ failed' = failed
    BY <1>4, <2>4 DEF OnDefinition
  <2> QED
    BY <2>1, <2>2, <2>5 DEF TypeOK, sender, Definitions
<1>5. CASE OnUpdate
  <2>1. Receive(Updates) /\ UNCHANGED <<sender, lastTable>>
    BY <1>5 DEF OnUpdate
  <2>2. /\ WireOK' /\ Len(wire') <= count' /\ count' \in 0 .. MaxSent
        /\ IsUpdateMessage(Head(wire))
    BY <2>1, ReceiveKeepsWire, MessageKinds DEF sender
  <2> DEFINE m == Head(wire)
             e == GetEntry(lastTable, NextID, WithLocalUpdateID(m.type), WithExpiry(m.type), m.data)
  <2>3. IF lastTable # Nil /\ e.is = "ok" THEN lastID' = e.val.id /\ failed' = failed
        ELSE failed' = TRUE /\ lastID' = lastID
    BY <1>5 DEF OnUpdate
  <2>4. e.is = "ok" => e.val.id \in 0 .. IDs - 1
    BY <2>2, NextIDIsID, ReceivedID
  <2> HIDE DEF e
  <2>5. (lastID' # Nil => lastID' \in 0 .. IDs - 1) /\ failed' \in BOOLEAN
    BY <2>3, <2>4 DEF TypeOK
  <2> QED
    BY <2>1, <2>2, <2>5 DEF TypeOK, sender
<1>6. CASE OnOther
  <2>1. Receive({"acknowledge", "switch"}) /\ UNCHANGED <<sender, receiver>>
    BY <1>6 DEF OnOther
  <2>2. WireOK' /\ Len(wire') <= count' /\ count' \in 0 .. MaxSent
    BY <2>1, ReceiveKeepsWire DEF sender
  <2> QED
    BY <2>1, <2>2 DEF TypeOK, sender, receiver
<1>7. CASE UNCHANGED vars
  BY <1>7 DEF vars, sender, receiver, TypeOK, WireOK
<1> QED
  BY <1>1, <1>2, <1>3, <1>4, <1>5, <1>6, <1>7 DEF Next

\* Types: the table is one that was defined, IDs are IDs, and nothing but what was sent
\* is on the wire.
THEOREM UpdatesTypeCorrect == Spec => []TypeOK
<1>1. TypesInv => TypeOK
  BY DEF TypesInv
<1> QED
  BY <1>1, TypesInvInit, TypesInvNext, PTL DEF Spec

-------------------------------------------------------------------------------
(* What the messages on the wire bring *)

\* The values of dictionary entries have two bytes or more (finding 6 is about less).
LongValues == \A t \in Tables : \A e \in t.entries : \A i \in 1 .. Len(t.definition.types) :
                  LongEnough(t.definition.types[i].type, e.data[i])

\* All updates that can be sent.
Sendable == UNION {{UpdateOf(t, e, id, timed) : e \in t.entries, id \in 0 .. IDs - 1,
                                                timed \in BOOLEAN} : t \in Tables}

\* How far a receiver has come: the definition it has, and how many updates.
Positions == [table : Definitions \cup {Nil}, count : Nat]

\* Message m, which brings a receiver of the updates ss from position p to position q.
BringsTable(m, p, q) == /\ q.table \in Definitions /\ q.count = p.count
                        /\ m = Message("definition", PutDefinition(q.table))

BringsUpdate(ss, m, p, q) ==
    /\ q.table = p.table /\ q.count = p.count + 1 /\ q.count <= Len(ss)
    /\ ss[q.count].table = q.table
    /\ \E withID \in BOOLEAN :
           /\ Carries(m, ss[q.count], withID)
           /\ ~ withID => p.count > 0 /\ ss[q.count].id = (ss[p.count].id + 1) % IDs

Brings(ss, m, p, q) == \/ BringsTable(m, p, q)
                       \/ BringsUpdate(ss, m, p, q)
                       \/ IsOtherMessage(m) /\ q = p

\* The messages w, one after the other.
Leads(w, ss, p, q) ==
    \E s \in [0 .. Len(w) -> Positions] :
        s[0] = p /\ s[Len(w)] = q /\ \A i \in 1 .. Len(w) : Brings(ss, w[i], s[i - 1], s[i])

SentOK == /\ sent \in Seq(Sendable)
          /\ follows # Nil => Len(sent) > 0 /\ follows = (sent[Len(sent)].id + 1) % IDs

ReceivedOK == /\ updates \in Seq(Sendable) /\ Len(updates) <= Len(sent)
              /\ \A k \in 1 .. Len(updates) : updates[k] = sent[k]
              /\ lastID = IF Len(updates) = 0 THEN Nil ELSE sent[Len(updates)].id
              /\ ~ failed

Here == [table |-> lastTable, count |-> Len(updates)]
There == [table |-> IF table = Nil THEN Nil ELSE table.definition, count |-> Len(sent)]

\* The inductive invariant: what is on the wire leads the receiver from where it is to
\* where the sender is.
StreamInv == TypesInv /\ SentOK /\ ReceivedOK /\ Leads(wire, sent, Here, There)

LEMMA SendableIs ==
    ASSUME NEW u
    PROVE  u \in Sendable <=> \E t \in Tables : \E e \in t.entries, id \in 0 .. IDs - 1, timed \in BOOLEAN :
                                  u = UpdateOf(t, e, id, timed)
  BY DEF Sendable

\* An update that was sent has the definition of a table, and an ID.
LEMMA SendableFields ==
    ASSUME NEW u \in Sendable
    PROVE  u.table \in Definitions /\ u.id \in 0 .. IDs - 1 /\ u.id # Nil /\ u.id \in Nat
<1>1. PICK t \in Tables : \E e \in t.entries, id \in 0 .. IDs - 1, timed \in BOOLEAN :
          u = UpdateOf(t, e, id, timed)
  BY SendableIs
<1>2. PICK e \in t.entries, id \in 0 .. IDs - 1, timed \in BOOLEAN : u = UpdateOf(t, e, id, timed)
  BY <1>1
<1>3. u.table = t.definition /\ u.id = id
  BY <1>2, SentUpdates
<1> QED
  BY <1>3, NilAssumption DEF Definitions

\* Such an update and its message.
LEMMA SendableMessage ==
    ASSUME NEW u \in Sendable, NEW m, NEW withID \in BOOLEAN, Carries(m, u, withID)
    PROVE  /\ IsUpdate(u) /\ (LongValues => IsLong(u))
           /\ m.type \in Updates /\ m.data = PutEntry(u, withID).val /\ m.data \in Seq(Byte)
           /\ WithLocalUpdateID(m.type) = withID /\ WithExpiry(m.type) = u.timed
<1>1. PICK t \in Tables : \E e \in t.entries, id \in 0 .. IDs - 1, timed \in BOOLEAN :
          u = UpdateOf(t, e, id, timed)
  BY SendableIs
<1>2. PICK e \in t.entries, id \in 0 .. IDs - 1, timed \in BOOLEAN : u = UpdateOf(t, e, id, timed)
  BY <1>1
<1>3. /\ IsUpdate(u) /\ u.timed = timed /\ m.type = TypeOf(timed, withID)
      /\ m.data = PutEntry(u, withID).val /\ m.data \in Seq(Byte)
  BY <1>2, SentUpdates, UpdateMessage DEF WireMessage
<1>4. LongValues => IsLong(u)
  BY <1>2, SentUpdates DEF LongValues, IsLong
<1>5. WithLocalUpdateID(m.type) = withID /\ WithExpiry(m.type) = u.timed /\ m.type \in Updates
  BY <1>3, MessageTypes
<1> QED
  BY <1>3, <1>4, <1>5

\* What the receiver reads from the message of an update, if the ID that is left out is
\* the one it expects.
LEMMA SentIsRead ==
    ASSUME LongValues, NEW u \in Sendable, NEW m, NEW withID \in BOOLEAN, Carries(m, u, withID),
           NEW next, Expects(withID, next, u)
    PROVE  /\ m.type \in Updates
           /\ GetEntry(u.table, next, WithLocalUpdateID(m.type), WithExpiry(m.type), m.data)
                = Outcome("ok", u, <<>>)
<1> DEFINE bytes == m.data
<1>1. /\ IsUpdate(u) /\ IsLong(u) /\ m.type \in Updates
      /\ bytes = PutEntry(u, withID).val /\ bytes \in Seq(Byte)
  BY SendableMessage
<1>5. WithLocalUpdateID(m.type) = withID /\ WithExpiry(m.type) = u.timed
  BY SendableMessage
<1>2. PutEntry(u, withID).is = "ok"
  BY DEF Carries
<1>3. bytes = Joined(bytes, <<>>) /\ <<>> \in Seq(Byte)
  <2> HIDE DEF bytes
  <2> QED
    BY <1>1 DEF Joined
<1> HIDE DEF bytes
<1>4. GetEntry(u.table, next, withID, u.timed, bytes) = Outcome("ok", u, <<>>)
  <2>1. ASSUME NEW r \in Seq(Byte), bytes = Joined(bytes, r)
        PROVE  GetEntry(u.table, next, withID, u.timed, bytes) = Outcome("ok", u, r)
    <3>1. bytes = Joined(PutEntry(u, withID).val, r)
      BY <1>1, <2>1
    <3>2. IsUpdate(u) /\ IsLong(u)
      BY <1>1
    <3> QED
      BY <1>2, <3>1, <3>2, UpdateBytesAreRead
  <2> QED
    BY <1>3, <2>1
<1> QED
  BY <1>1, <1>4, <1>5 DEF bytes

-------------------------------------------------------------------------------
(* Steps of the sender and of the receiver *)

\* One more message on the wire.
LEMMA LeadsFurther ==
    ASSUME NEW w \in Seq(WireMessage), NEW ss, NEW p, NEW q, Leads(w, ss, p, q),
           NEW m \in WireMessage, NEW x \in Positions, Brings(ss, m, q, x)
    PROVE  Leads(Append(w, m), ss, p, x)
<1>1. PICK s \in [0 .. Len(w) -> Positions] :
          s[0] = p /\ s[Len(w)] = q /\ \A i \in 1 .. Len(w) : Brings(ss, w[i], s[i - 1], s[i])
  BY DEF Leads
<1> DEFINE n == Len(w)
           v == Append(w, m)
           g == [i \in 0 .. n + 1 |-> IF i = n + 1 THEN x ELSE s[i]]
<1>2. n \in Nat /\ Len(v) = n + 1 /\ v[n + 1] = m /\ \A i \in 1 .. n : v[i] = w[i]
  OBVIOUS
<1>3. g \in [0 .. n + 1 -> Positions]
  BY <1>2
<1>4. g[n + 1] = x /\ g[n] = q /\ g[0] = p /\ \A i \in 1 .. n : g[i] = s[i] /\ g[i - 1] = s[i - 1]
  BY <1>1, <1>2
<1> HIDE DEF g, v, n
<1>5. ASSUME NEW i \in 1 .. n + 1
      PROVE  Brings(ss, v[i], g[i - 1], g[i])
  <2>1. CASE i = n + 1
    <3>1. i - 1 = n
      BY <1>2, <2>1
    <3> QED
      BY <1>2, <1>4, <2>1, <3>1
  <2>2. CASE i \in 1 .. n
    <3>1. Brings(ss, w[i], s[i - 1], s[i])
      BY <1>1, <2>2 DEF n
    <3> QED
      BY <1>2, <1>4, <2>2, <3>1
  <2> QED
    BY <1>2, <2>1, <2>2
<1>6. Leads(v, ss, p, x)
  BY <1>2, <1>3, <1>4, <1>5 DEF Leads
<1> QED
  BY <1>6 DEF v

\* One message less.
LEMMA LeadsOn ==
    ASSUME NEW w \in Seq(WireMessage), w # <<>>, NEW ss, NEW p, NEW q, Leads(w, ss, p, q)
    PROVE  \E x \in Positions : Brings(ss, Head(w), p, x) /\ Leads(Tail(w), ss, x, q)
<1>1. PICK s \in [0 .. Len(w) -> Positions] :
          s[0] = p /\ s[Len(w)] = q /\ \A i \in 1 .. Len(w) : Brings(ss, w[i], s[i - 1], s[i])
  BY DEF Leads
<1> DEFINE n == Len(w) - 1
           v == Tail(w)
           g == [i \in 0 .. n |-> s[i + 1]]
<1>2. /\ n \in Nat /\ Len(v) = n /\ Len(w) = n + 1 /\ Head(w) = w[1]
      /\ \A i \in 1 .. n : v[i] = w[i + 1]
  OBVIOUS
<1>3. g \in [0 .. n -> Positions] /\ s[1] \in Positions
  BY <1>2
<1>4. g[0] = s[1] /\ g[n] = q /\ \A i \in 1 .. n : g[i] = s[i + 1] /\ g[i - 1] = s[(i + 1) - 1]
  BY <1>1, <1>2
<1> HIDE DEF g, v, n
<1>5. ASSUME NEW i \in 1 .. n
      PROVE  Brings(ss, v[i], g[i - 1], g[i])
  <2>1. i + 1 \in 1 .. Len(w)
    BY <1>2
  <2>2. Brings(ss, w[i + 1], s[(i + 1) - 1], s[i + 1])
    BY <1>1, <2>1
  <2> QED
    BY <1>2, <1>4, <2>2
<1>6. Brings(ss, Head(w), p, s[1])
  <2>1. 1 \in 1 .. Len(w) /\ 1 - 1 = 0
    BY <1>2
  <2>2. Brings(ss, w[1], s[1 - 1], s[1])
    BY <1>1, <2>1
  <2> QED
    BY <1>1, <1>2, <2>1, <2>2
<1>7. Leads(v, ss, s[1], q)
  BY <1>2, <1>3, <1>4, <1>5 DEF Leads
<1> QED
  BY <1>3, <1>6, <1>7 DEF v

\* One more update that has been sent.
LEMMA LeadsStill ==
    ASSUME NEW w \in Seq(WireMessage), NEW ss \in Seq(Sendable), NEW u \in Sendable,
           NEW p, NEW q, Leads(w, ss, p, q)
    PROVE  Leads(w, Append(ss, u), p, q)
<1>1. PICK s \in [0 .. Len(w) -> Positions] :
          s[0] = p /\ s[Len(w)] = q /\ \A i \in 1 .. Len(w) : Brings(ss, w[i], s[i - 1], s[i])
  BY DEF Leads
<1> DEFINE t == Append(ss, u)
<1>2. Len(t) = Len(ss) + 1 /\ Len(ss) \in Nat /\ \A i \in 1 .. Len(ss) : t[i] = ss[i]
  OBVIOUS
<1> HIDE DEF t
<1>3. ASSUME NEW i \in 1 .. Len(w)
      PROVE  Brings(t, w[i], s[i - 1], s[i])
  <2> DEFINE x == s[i - 1]
             y == s[i]
  <2>1. Brings(ss, w[i], x, y)
    BY <1>1
  <2>2. x \in Positions /\ y \in Positions
    OBVIOUS
  <2>3. x.count \in Nat /\ y.count \in Nat
    BY <2>2 DEF Positions
  <2> HIDE DEF x, y
  <2>4. ASSUME BringsUpdate(ss, w[i], x, y)
        PROVE  BringsUpdate(t, w[i], x, y)
    <3>1. y.count = x.count + 1 /\ y.count <= Len(ss)
      BY <2>4 DEF BringsUpdate
    <3>2. y.count \in 1 .. Len(ss) /\ y.count <= Len(t) /\ (x.count > 0 => x.count \in 1 .. Len(ss))
      BY <1>2, <2>3, <3>1
    <3>3. t[y.count] = ss[y.count] /\ (x.count > 0 => t[x.count] = ss[x.count])
      BY <1>2, <3>2
    <3> QED
      BY <2>4, <3>2, <3>3 DEF BringsUpdate
  <2>5. Brings(t, w[i], x, y)
    BY <2>1, <2>4 DEF Brings
  <2> QED
    BY <2>5 DEF x, y
<1>4. Leads(w, t, p, q)
  BY <1>1, <1>3 DEF Leads
<1> QED
  BY <1>4 DEF t

\* Every message brings the receiver one update on, or none: as its type says.
LEMMA LeadsCount ==
    ASSUME NEW w \in Seq(WireMessage), NEW ss \in Seq(Sendable), NEW p, NEW q, Leads(w, ss, p, q)
    PROVE  p.count + Cardinality({i \in DOMAIN w : w[i].type \in Updates}) = q.count
<1>1. PICK s \in [0 .. Len(w) -> Positions] :
          s[0] = p /\ s[Len(w)] = q /\ \A i \in 1 .. Len(w) : Brings(ss, w[i], s[i - 1], s[i])
  BY DEF Leads
<1> DEFINE n == Len(w)
           C(i) == {j \in 1 .. i : w[j].type \in Updates}
           P == {i \in Nat : i \in 0 .. n => p.count + Cardinality(C(i)) = s[i].count}
<1>2. n \in Nat /\ \A i \in 0 .. n : s[i] \in Positions /\ s[i].count \in Nat
  BY DEF Positions
<1>3. ASSUME NEW i \in Nat
      PROVE  IsFiniteSet(C(i)) /\ Cardinality(C(i)) \in Nat
  <2>1. IsFiniteSet(1 .. i)
    BY FS_Interval
  <2>2. C(i) \subseteq 1 .. i
    OBVIOUS
  <2>3. IsFiniteSet(C(i))
    BY <2>1, <2>2, FS_Subset
  <2> QED
    BY <2>3, FS_CardinalityType
<1>4. ASSUME NEW i \in 1 .. n
      PROVE  s[i].count = s[i - 1].count + (IF w[i].type \in Updates THEN 1 ELSE 0)
  <2> DEFINE x == s[i - 1]
             y == s[i]
             m == w[i]
  <2>1. Brings(ss, m, x, y)
    BY <1>1
  <2>2. x.count \in Nat /\ y.count \in Nat
    BY <1>2
  <2> SUFFICES y.count = x.count + (IF m.type \in Updates THEN 1 ELSE 0)
    OBVIOUS
  <2> HIDE DEF x, y, m
  <2>4. CASE BringsTable(m, x, y)
    <3>1. m.type = "definition" /\ y.count = x.count
      BY <2>4 DEF BringsTable, Message
    <3>2. "definition" \notin Updates
      BY DEF Updates
    <3> QED
      BY <2>2, <3>1, <3>2
  <2>5. CASE BringsUpdate(ss, m, x, y)
    <3>1. y.count = x.count + 1 /\ y.count <= Len(ss) /\ y.count \in 1 .. Len(ss)
      BY <2>2, <2>5 DEF BringsUpdate
    <3>2. ss[y.count] \in Sendable
      BY <3>1
    <3>3. PICK withID \in BOOLEAN : Carries(m, ss[y.count], withID)
      BY <2>5 DEF BringsUpdate
    <3>4. m.type \in Updates
      BY <3>2, <3>3, SendableMessage
    <3> QED
      BY <3>1, <3>4
  <2>6. CASE IsOtherMessage(m) /\ y = x
    <3>1. m.type \notin Updates
      BY <2>6 DEF IsOtherMessage, Updates
    <3> QED
      BY <2>2, <2>6, <3>1
  <2> QED
    BY <2>1, <2>4, <2>5, <2>6 DEF Brings
<1>5. ASSUME NEW i \in Nat, \A k \in Nat : k < i => k \in P
      PROVE  i \in P
  <2>1. CASE i = 0
    <3>1. C(0) = {}
      OBVIOUS
    <3>2. Cardinality(C(0)) = 0
      BY <3>1, FS_EmptySet
    <3>3. p.count \in Nat /\ s[0] = p
      BY <1>1, <1>2
    <3> HIDE DEF C
    <3> QED
      BY <2>1, <3>2, <3>3
  <2>2. CASE i \notin 0 .. n
    BY <2>2
  <2>3. CASE i \in 1 .. n
    <3>1. i - 1 \in Nat /\ i - 1 < i /\ i - 1 \in 0 .. n
      BY <2>3
    <3>2. p.count + Cardinality(C(i - 1)) = s[i - 1].count
      BY <1>5, <3>1
    <3>3. Cardinality(C(i)) = Cardinality(C(i - 1)) + (IF w[i].type \in Updates THEN 1 ELSE 0)
      <4>1. IsFiniteSet(C(i - 1)) /\ Cardinality(C(i - 1)) \in Nat
        BY <1>3, <3>1
      <4>2. CASE w[i].type \in Updates
        <5>1. C(i) = C(i - 1) \cup {i} /\ i \notin C(i - 1)
          BY <2>3, <4>2
        <5> HIDE DEF C
        <5> QED
          BY <4>1, <4>2, <5>1, FS_AddElement
      <4>3. CASE w[i].type \notin Updates
        <5>1. C(i) = C(i - 1)
          BY <2>3, <4>3
        <5> HIDE DEF C
        <5> QED
          BY <4>1, <4>3, <5>1
      <4> QED
        BY <4>2, <4>3
    <3>4. s[i].count = s[i - 1].count + (IF w[i].type \in Updates THEN 1 ELSE 0)
      BY <1>4, <2>3
    <3>5. Cardinality(C(i - 1)) \in Nat /\ p.count \in Nat
      <4>1. 0 \in 0 .. n
        BY <1>2
      <4> QED
        BY <1>1, <1>2, <1>3, <3>1, <4>1
    <3> HIDE DEF C
    <3>6. p.count + Cardinality(C(i)) = s[i].count
      BY <3>2, <3>3, <3>4, <3>5
    <3> QED
      BY <3>6
  <2> QED
    BY <1>2, <2>1, <2>2, <2>3
<1> HIDE DEF P
<1>6. n \in P
  BY <1>2, <1>5, Induction
<1>7. p.count + Cardinality(C(n)) = q.count
  BY <1>1, <1>2, <1>6 DEF P
<1>8. C(n) = {i \in DOMAIN w : w[i].type \in Updates}
  OBVIOUS
<1> QED
  BY <1>7, <1>8

\* The update that is sent, and its message.
LEMMA SendUpdateSends ==
    ASSUME TypesInv, SendUpdate
    PROVE  \E u \in Sendable : \E withID \in BOOLEAN, m \in WireMessage :
               /\ Carries(m, u, withID) /\ Send(m) /\ sent' = Append(sent, u)
               /\ table \in Tables /\ u.table = table.definition
               /\ follows' = (u.id + 1) % IDs
               /\ (~ withID => follows # Nil /\ u.id = follows)
               /\ UNCHANGED <<table, receiver>>
<1>1. table \in Tables /\ UNCHANGED <<table, receiver>>
  BY DEF SendUpdate, TypesInv, TypeOK
<1>2. PICK e \in table.entries, timed \in BOOLEAN, withID \in BOOLEAN :
          \E id \in IF withID THEN FirstIDs ELSE {follows} \ {Nil} :
              LET u == UpdateOf(table, e, id, timed)
                  m == Message(TypeOf(timed, withID), PutEntry(u, withID).val)
              IN /\ Carries(m, u, withID) /\ Send(m) /\ sent' = Append(sent, u)
                 /\ follows' = (id + 1) % IDs
  BY DEF SendUpdate, Carries, TypeOf, UpdateOf
<1>3. PICK id \in IF withID THEN FirstIDs ELSE {follows} \ {Nil} :
              LET u == UpdateOf(table, e, id, timed)
                  m == Message(TypeOf(timed, withID), PutEntry(u, withID).val)
              IN /\ Carries(m, u, withID) /\ Send(m) /\ sent' = Append(sent, u)
                 /\ follows' = (id + 1) % IDs
  BY <1>2
<1>4. id \in 0 .. IDs - 1 /\ (~ withID => follows # Nil /\ id = follows)
  BY <1>3, IDsAssumption DEF TypesInv, TypeOK
<1> DEFINE u == UpdateOf(table, e, id, timed)
           m == Message(TypeOf(timed, withID), PutEntry(u, withID).val)
<1>5. u \in Sendable /\ u.table = table.definition /\ u.id = id
  BY <1>1, <1>4, SendableIs, SentUpdates
<1>6. Carries(m, u, withID) /\ Send(m) /\ sent' = Append(sent, u) /\ follows' = (id + 1) % IDs
  BY <1>3
<1>7. m \in WireMessage
  BY <1>1, <1>4, <1>6, UpdateMessage
<1> HIDE DEF u, m
<1> QED
  BY <1>1, <1>4, <1>5, <1>6, <1>7

LEMMA StreamInvInit == Init => StreamInv
<1> SUFFICES ASSUME Init PROVE StreamInv
  OBVIOUS
<1>1. /\ wire = <<>> /\ sent = <<>> /\ updates = <<>> /\ table = Nil /\ follows = Nil
      /\ lastTable = Nil /\ lastID = Nil /\ failed = FALSE
  BY DEF Init
<1>2. Len(wire) = 0 /\ Len(sent) = 0 /\ Len(updates) = 0 /\ 1 .. 0 = {}
  BY <1>1
<1>3. SentOK
  BY <1>1 DEF SentOK
<1>4. ReceivedOK
  BY <1>1, <1>2 DEF ReceivedOK
<1>5. Here = There /\ Here \in Positions
  BY <1>1, <1>2 DEF Here, There, Positions
<1>6. Leads(wire, sent, Here, There)
  <2> DEFINE s == [i \in 0 .. 0 |-> Here]
  <2>1. s \in [0 .. Len(wire) -> Positions] /\ s[0] = Here
    BY <1>2, <1>5
  <2> HIDE DEF s
  <2> QED
    BY <1>2, <1>5, <2>1 DEF Leads
<1> QED
  BY <1>3, <1>4, <1>6, TypesInvInit DEF StreamInv

LEMMA PositionsOf ==
    ASSUME StreamInv
    PROVE  /\ Here \in Positions /\ There \in Positions
           /\ Here.table = lastTable /\ Here.count = Len(updates)
           /\ There.count = Len(sent) /\ Len(sent) \in Nat /\ Len(updates) \in Nat
           /\ wire \in Seq(WireMessage) /\ sent \in Seq(Sendable)
<1>1. TypeOK /\ WireOK /\ SentOK /\ ReceivedOK
  BY DEF StreamInv, TypesInv
<1>2. /\ wire \in Seq(WireMessage) /\ sent \in Seq(Sendable) /\ updates \in Seq(Sendable)
      /\ lastTable \in Definitions \cup {Nil}
      /\ (IF table = Nil THEN Nil ELSE table.definition) \in Definitions \cup {Nil}
  BY <1>1 DEF TypeOK, WireOK, SentOK, ReceivedOK, Definitions
<1>3. Len(sent) \in Nat /\ Len(updates) \in Nat
  BY <1>2
<1> QED
  BY <1>2, <1>3 DEF Here, There, Positions

\* A message of another kind than an update changes neither what was sent nor received.
LEMMA SendStep ==
    ASSUME StreamInv, NEW m \in WireMessage, Send(m), Brings(sent, m, There, There'),
           There' \in Positions, UNCHANGED <<sent, receiver>>,
           follows' = Nil \/ follows' = follows
    PROVE  SentOK' /\ ReceivedOK' /\ Leads(wire', sent', Here', There')
<1>1. Leads(wire, sent, Here, There) /\ wire \in Seq(WireMessage) /\ SentOK /\ ReceivedOK
  BY PositionsOf DEF StreamInv
<1>2. wire' = Append(wire, m)
  BY DEF Send
<1>3. Leads(wire', sent, Here, There')
  BY <1>1, <1>2, LeadsFurther
<1>4. Here' = Here
  BY DEF Here, receiver
<1>5. ReceivedOK'
  BY <1>1 DEF ReceivedOK, receiver
<1>6. SentOK'
  BY <1>1 DEF SentOK
<1> QED
  BY <1>3, <1>4, <1>5, <1>6

LEMMA SendDefinitionStep ==
    ASSUME StreamInv, SendDefinition
    PROVE  SentOK' /\ ReceivedOK' /\ Leads(wire', sent', Here', There')
<1>1. PICK t \in Tables : table' = t /\ Send(Message("definition", PutDefinition(t.definition)))
  BY DEF SendDefinition
<1>2. follows' = Nil /\ UNCHANGED <<sent, receiver>>
  BY DEF SendDefinition
<1> DEFINE d == t.definition
           m == Message("definition", PutDefinition(d))
<1>3. d \in Definitions /\ table' # Nil
  BY <1>1, NilAssumption DEF Definitions
<1>4. There' = [table |-> d, count |-> Len(sent)]
  BY <1>1, <1>2, <1>3 DEF There
<1>5. m \in WireMessage
  BY <1>3, DefinitionMessage
<1>6. There'.table = d /\ There'.count = Len(sent) /\ There' \in Positions
  BY <1>3, <1>4, PositionsOf DEF Positions
<1>7. Brings(sent, m, There, There')
  BY <1>3, <1>6, PositionsOf DEF Brings, BringsTable
<1>8. Send(m)
  BY <1>1
<1> HIDE DEF m
<1> QED
  BY <1>2, <1>5, <1>6, <1>7, <1>8, SendStep

LEMMA SendOtherStep ==
    ASSUME StreamInv, SendOther
    PROVE  SentOK' /\ ReceivedOK' /\ Leads(wire', sent', Here', There')
<1>1. PICK type \in {"acknowledge", "switch"} : Send(Message(type, <<>>))
  BY DEF SendOther
<1>2. UNCHANGED <<table, follows, sent, receiver>>
  BY DEF SendOther
<1> DEFINE m == Message(type, <<>>)
<1>3. m \in WireMessage /\ IsOtherMessage(m)
  <2>1. type \in MessageType /\ <<>> \in Seq(Byte)
    BY DEF MessageType
  <2> QED
    BY <2>1 DEF Message, WireMessage, IsOtherMessage
<1>4. There' = There
  BY <1>2 DEF There
<1>5. Send(m)
  BY <1>1
<1> HIDE DEF m
<1>6. Brings(sent, m, There, There') /\ There' \in Positions
  BY <1>3, <1>4, PositionsOf DEF Brings
<1> QED
  BY <1>2, <1>3, <1>5, <1>6, SendStep

LEMMA SendUpdateStep ==
    ASSUME StreamInv, SendUpdate
    PROVE  SentOK' /\ ReceivedOK' /\ Leads(wire', sent', Here', There')
<1>1. PICK u \in Sendable : \E withID \in BOOLEAN, m \in WireMessage :
               /\ Carries(m, u, withID) /\ Send(m) /\ sent' = Append(sent, u)
               /\ table \in Tables /\ u.table = table.definition
               /\ follows' = (u.id + 1) % IDs
               /\ (~ withID => follows # Nil /\ u.id = follows)
               /\ UNCHANGED <<table, receiver>>
  BY SendUpdateSends DEF StreamInv
<1>2. PICK withID \in BOOLEAN, m \in WireMessage :
               /\ Carries(m, u, withID) /\ Send(m) /\ sent' = Append(sent, u)
               /\ table \in Tables /\ u.table = table.definition
               /\ follows' = (u.id + 1) % IDs
               /\ (~ withID => follows # Nil /\ u.id = follows)
               /\ UNCHANGED <<table, receiver>>
  BY <1>1
<1>3. /\ wire \in Seq(WireMessage) /\ sent \in Seq(Sendable) /\ updates \in Seq(Sendable)
      /\ Leads(wire, sent, Here, There) /\ Len(updates) <= Len(sent)
      /\ (follows # Nil => Len(sent) > 0 /\ follows = (sent[Len(sent)].id + 1) % IDs)
      /\ \A k \in 1 .. Len(updates) : updates[k] = sent[k]
      /\ lastID = IF Len(updates) = 0 THEN Nil ELSE sent[Len(updates)].id
      /\ ~ failed
  BY PositionsOf DEF StreamInv, SentOK, ReceivedOK
<1>4. /\ sent' \in Seq(Sendable) /\ Len(sent') = Len(sent) + 1 /\ Len(sent) \in Nat
      /\ Len(updates) \in Nat /\ sent'[Len(sent) + 1] = u
      /\ \A k \in 1 .. Len(sent) : sent'[k] = sent[k]
  BY <1>2, <1>3
<1>5. SentOK'
  BY <1>2, <1>4 DEF SentOK
<1>6. ReceivedOK'
  <2>1. updates' = updates /\ lastID' = lastID /\ failed' = failed
    BY <1>2 DEF receiver
  <2>2. \A k \in 1 .. Len(updates) : k \in 1 .. Len(sent)
    BY <1>3, <1>4
  <2>3. Len(updates) # 0 => sent'[Len(updates)] = sent[Len(updates)]
    BY <1>3, <1>4, <2>2
  <2>4. \A k \in 1 .. Len(updates) : updates[k] = sent'[k]
    BY <1>3, <1>4, <2>2
  <2>5. Len(updates) <= Len(sent')
    BY <1>3, <1>4
  <2> QED
    BY <1>3, <2>1, <2>3, <2>4, <2>5 DEF ReceivedOK
<1>7. Leads(wire, sent', Here, There)
  BY <1>2, <1>3, LeadsStill
<1>8. table # Nil /\ There.table = u.table /\ There.count = Len(sent)
      /\ There' = [table |-> u.table, count |-> Len(sent) + 1]
  BY <1>2, <1>4, NilAssumption DEF There
<1>9. There'.table = u.table /\ There'.count = Len(sent) + 1 /\ There' \in Positions
  BY <1>4, <1>8, SendableFields DEF Positions
<1>10. Brings(sent', m, There, There')
  <2>1. ~ withID => Len(sent) > 0 /\ u.id = (sent'[Len(sent)].id + 1) % IDs
    <3>1. ASSUME ~ withID
          PROVE  Len(sent) > 0 /\ u.id = (sent'[Len(sent)].id + 1) % IDs
      <4>1. follows # Nil /\ u.id = follows
        BY <1>2, <3>1
      <4>2. Len(sent) > 0 /\ follows = (sent[Len(sent)].id + 1) % IDs
        BY <1>3, <4>1
      <4>3. sent'[Len(sent)] = sent[Len(sent)]
        BY <1>4, <4>2
      <4> QED
        BY <4>1, <4>2, <4>3
    <3> QED
      BY <3>1
  <2>2. Carries(m, u, withID)
    BY <1>2
  <2>3. sent'[There'.count] = u /\ There'.count <= Len(sent')
    BY <1>4, <1>9
  <2> QED
    BY <1>8, <1>9, <2>1, <2>2, <2>3 DEF Brings, BringsUpdate
<1>11. wire' = Append(wire, m) /\ Here' = Here
  BY <1>2 DEF Send, Here, receiver
<1>12. Leads(wire', sent', Here, There')
  BY <1>3, <1>7, <1>9, <1>10, <1>11, LeadsFurther
<1> QED
  BY <1>5, <1>6, <1>11, <1>12

\* By its type one knows what a message brings.
LEMMA BringsByType ==
    ASSUME NEW ss \in Seq(Sendable), NEW m, NEW p \in Positions, NEW q \in Positions, Brings(ss, m, p, q)
    PROVE  /\ m.type = "definition" => BringsTable(m, p, q)
           /\ m.type \in Updates => BringsUpdate(ss, m, p, q)
           /\ m.type \in {"acknowledge", "switch"} => q = p
<1>1. BringsTable(m, p, q) => m.type = "definition"
  BY DEF BringsTable, Message
<1>2. BringsUpdate(ss, m, p, q) => m.type \in Updates
  <2>1. ASSUME BringsUpdate(ss, m, p, q)
        PROVE  m.type \in Updates
    <3>1. p.count \in Nat /\ q.count = p.count + 1 /\ q.count <= Len(ss)
      BY <2>1 DEF BringsUpdate, Positions
    <3>2. q.count \in 1 .. Len(ss)
      BY <3>1
    <3>3. ss[q.count] \in Sendable
      BY <3>2
    <3>4. PICK withID \in BOOLEAN : Carries(m, ss[q.count], withID)
      BY <2>1 DEF BringsUpdate
    <3> QED
      BY <3>3, <3>4, SendableMessage
  <2> QED
    BY <2>1
<1>3. IsOtherMessage(m) => m.type \in {"acknowledge", "switch"}
  BY DEF IsOtherMessage
<1>4. "definition" \notin Updates /\ "acknowledge" \notin Updates /\ "switch" \notin Updates
  BY DEF Updates
<1> QED
  BY <1>1, <1>2, <1>3, <1>4 DEF Brings

\* What the next message brings, and where the others lead from there.
LEMMA NextMessage ==
    ASSUME StreamInv, NEW types, Receive(types)
    PROVE  \E x \in Positions : /\ Brings(sent, Head(wire), Here, x)
                                /\ Leads(wire', sent, x, There)
                                /\ Head(wire).type \in types
<1>1. wire \in Seq(WireMessage) /\ Leads(wire, sent, Here, There)
  BY PositionsOf DEF StreamInv
<1>2. wire # <<>> /\ wire' = Tail(wire) /\ Head(wire).type \in types
  BY DEF Receive
<1> QED
  BY <1>1, <1>2, LeadsOn

LEMMA OnDefinitionStep ==
    ASSUME StreamInv, OnDefinition
    PROVE  SentOK' /\ ReceivedOK' /\ Leads(wire', sent', Here', There')
<1>1. Receive({"definition"}) /\ UNCHANGED <<sender, lastID, updates>>
  BY DEF OnDefinition
<1>2. PICK x \in Positions : /\ Brings(sent, Head(wire), Here, x) /\ Leads(wire', sent, x, There)
                             /\ Head(wire).type \in {"definition"}
  BY <1>1, NextMessage
<1>3. x.table \in Definitions /\ x.count = Len(updates)
      /\ Head(wire) = Message("definition", PutDefinition(x.table))
  <2>1. BringsTable(Head(wire), Here, x)
    BY <1>2, PositionsOf, BringsByType
  <2> QED
    BY <2>1, PositionsOf DEF BringsTable
<1>4. GetDefinition(Head(wire).data).is = "ok" /\ GetDefinition(Head(wire).data).val = x.table
  <2> DEFINE m == Message("definition", PutDefinition(x.table))
  <2>1. GetDefinition(m.data) = Outcome("ok", x.table, <<>>)
    BY <1>3, DefinitionMessage
  <2> HIDE DEF m
  <2> QED
    BY <1>3, <2>1 DEF Outcome, m
<1>5. lastTable' = x.table /\ failed' = failed
  BY <1>4 DEF OnDefinition
<1>6. Here' = x
  BY <1>1, <1>3, <1>5 DEF Here, Positions
<1>7. There' = There /\ SentOK' /\ ReceivedOK' /\ sent' = sent
  BY <1>1, <1>5 DEF There, SentOK, ReceivedOK, StreamInv, sender
<1> QED
  BY <1>2, <1>6, <1>7

LEMMA OnOtherStep ==
    ASSUME StreamInv, OnOther
    PROVE  SentOK' /\ ReceivedOK' /\ Leads(wire', sent', Here', There')
<1>1. Receive({"acknowledge", "switch"}) /\ UNCHANGED <<sender, receiver>>
  BY DEF OnOther
<1>2. PICK x \in Positions : /\ Brings(sent, Head(wire), Here, x) /\ Leads(wire', sent, x, There)
                             /\ Head(wire).type \in {"acknowledge", "switch"}
  BY <1>1, NextMessage
<1>3. x = Here
  BY <1>2, PositionsOf, BringsByType
<1>4. Here' = Here /\ There' = There /\ SentOK' /\ ReceivedOK' /\ sent' = sent
  BY <1>1 DEF Here, There, SentOK, ReceivedOK, StreamInv, sender, receiver
<1> QED
  BY <1>2, <1>3, <1>4

LEMMA OnUpdateStep ==
    ASSUME LongValues, StreamInv, OnUpdate
    PROVE  SentOK' /\ ReceivedOK' /\ Leads(wire', sent', Here', There')
<1>1. Receive(Updates) /\ UNCHANGED <<sender, lastTable>>
  BY DEF OnUpdate
<1>2. PICK x \in Positions : /\ Brings(sent, Head(wire), Here, x) /\ Leads(wire', sent, x, There)
                             /\ Head(wire).type \in Updates
  BY <1>1, NextMessage
<1> DEFINE m == Head(wire)
           k == Len(updates) + 1
           u == sent[k]
           e == GetEntry(lastTable, NextID, WithLocalUpdateID(m.type), WithExpiry(m.type), m.data)
<1>3. /\ sent \in Seq(Sendable) /\ updates \in Seq(Sendable) /\ Len(updates) <= Len(sent)
      /\ \A i \in 1 .. Len(updates) : updates[i] = sent[i]
      /\ lastID = (IF Len(updates) = 0 THEN Nil ELSE sent[Len(updates)].id)
      /\ ~ failed /\ Len(updates) \in Nat /\ Len(sent) \in Nat
  BY PositionsOf DEF StreamInv, ReceivedOK
<1>4. BringsUpdate(sent, m, Here, x)
  BY <1>2, PositionsOf, BringsByType
<1>5. /\ x.table = lastTable /\ x.count = k /\ k <= Len(sent) /\ u.table = lastTable
      /\ \E withID \in BOOLEAN :
             /\ Carries(m, u, withID)
             /\ ~ withID => Len(updates) > 0 /\ u.id = (sent[Len(updates)].id + 1) % IDs
  BY <1>4, PositionsOf DEF BringsUpdate
<1>6. PICK withID \in BOOLEAN :
          /\ Carries(m, u, withID)
          /\ ~ withID => Len(updates) > 0 /\ u.id = (sent[Len(updates)].id + 1) % IDs
  BY <1>5
<1>7. k \in 1 .. Len(sent) /\ u \in Sendable
  BY <1>3, <1>5
<1>8. lastTable # Nil
  <2>1. u.table \in Definitions
    BY <1>7, SendableFields
  <2>2. Nil \notin Definitions
    BY NilAssumption DEF Definitions
  <2> QED
    BY <1>5, <2>1, <2>2
<1>9. ~ withID => NextID = u.id
  <2>1. ASSUME ~ withID
        PROVE  NextID = u.id
    <3>1. Len(updates) > 0 /\ u.id = (sent[Len(updates)].id + 1) % IDs
      BY <1>6, <2>1
    <3>2. sent[Len(updates)] \in Sendable /\ lastID = sent[Len(updates)].id
      BY <1>3, <3>1
    <3>3. lastID # Nil
      BY <3>2, SendableFields
    <3> HIDE DEF u
    <3> QED
      BY <3>1, <3>2, <3>3 DEF NextID
  <2> QED
    BY <2>1
<1> HIDE DEF m, u
<1>10. e = Outcome("ok", u, <<>>)
  <2>1. Expects(withID, NextID, u)
    BY <1>9 DEF Expects
  <2>2. GetEntry(u.table, NextID, WithLocalUpdateID(m.type), WithExpiry(m.type), m.data)
          = Outcome("ok", u, <<>>)
    BY <1>6, <1>7, <2>1, SentIsRead
  <2> QED
    BY <1>5, <2>2
<1>11. e.is = "ok" /\ e.val = u
  BY <1>10 DEF Outcome
<1>12. lastID' = u.id /\ updates' = Append(updates, u) /\ failed' = failed
  BY <1>8, <1>11 DEF OnUpdate, m
<1>13. /\ updates' \in Seq(Sendable) /\ Len(updates') = k
       /\ \A i \in 1 .. k : updates'[i] = sent[i]
  <2>1. /\ updates' \in Seq(Sendable) /\ Len(updates') = Len(updates) + 1
        /\ updates'[Len(updates) + 1] = u
        /\ \A i \in 1 .. Len(updates) : updates'[i] = updates[i]
    BY <1>3, <1>7, <1>12
  <2>2. \A i \in 1 .. k : i \in 1 .. Len(updates) \/ i = Len(updates) + 1
    BY <1>3
  <2> QED
    BY <1>3, <2>1, <2>2 DEF u
<1>14. ReceivedOK'
  <2>1. sent' = sent
    BY <1>1 DEF sender
  <2>2. k # 0 /\ k <= Len(sent)
    BY <1>3, <1>5
  <2> HIDE DEF k
  <2> QED
    BY <1>3, <1>12, <1>13, <2>1, <2>2 DEF ReceivedOK, u
<1>15. Here' = x
  BY <1>1, <1>5, <1>13 DEF Here, Positions
<1>16. There' = There /\ SentOK' /\ sent' = sent
  BY <1>1 DEF There, SentOK, StreamInv, sender
<1> QED
  BY <1>2, <1>14, <1>15, <1>16

LEMMA StreamInvNext == LongValues /\ StreamInv /\ [Next]_vars => StreamInv'
<1> SUFFICES ASSUME LongValues, StreamInv, [Next]_vars
             PROVE  StreamInv'
  OBVIOUS
<1>1. TypesInv'
  BY TypesInvNext DEF StreamInv
<1>2. SentOK' /\ ReceivedOK' /\ Leads(wire', sent', Here', There')
  <2>1. CASE SendDefinition
    BY <2>1, SendDefinitionStep
  <2>2. CASE SendUpdate
    BY <2>2, SendUpdateStep
  <2>3. CASE SendOther
    BY <2>3, SendOtherStep
  <2>4. CASE OnDefinition
    BY <2>4, OnDefinitionStep
  <2>5. CASE OnUpdate
    BY <2>5, OnUpdateStep
  <2>6. CASE OnOther
    BY <2>6, OnOtherStep
  <2>7. CASE UNCHANGED vars
    BY <2>7 DEF StreamInv, SentOK, ReceivedOK, Here, There, vars, sender, receiver
  <2> QED
    BY <2>1, <2>2, <2>3, <2>4, <2>5, <2>6, <2>7 DEF Next
<1> QED
  BY <1>1, <1>2 DEF StreamInv

\* The handler is given what was sent, in order: with its table, its ID whether or not it
\* was in the message, its expiry, its key and its data.
THEOREM UpdatesArriveAsSent ==
    ASSUME LongValues
    PROVE  Spec => []UpdatesAsSent
<1>1. StreamInv => UpdatesAsSent
  <2> SUFFICES ASSUME StreamInv PROVE UpdatesAsSent
    OBVIOUS
  <2>1. /\ sent \in Seq(Sendable) /\ updates \in Seq(Sendable) /\ Len(updates) <= Len(sent)
        /\ \A k \in 1 .. Len(updates) : updates[k] = sent[k]
    BY PositionsOf DEF StreamInv, ReceivedOK
  <2>2. SubSeq(updates, 1, Len(updates)) = SubSeq(sent, 1, Len(updates))
    BY <2>1
  <2> QED
    BY <2>1, <2>2 DEF UpdatesAsSent, IsPrefix
<1> QED
  BY <1>1, StreamInvInit, StreamInvNext, PTL DEF Spec

\* No update is refused, and each that was sent is on the wire or with the handler.
THEOREM EveryUpdateArrives ==
    ASSUME LongValues
    PROVE  Spec => []NoUpdateIsLost
<1>1. StreamInv => NoUpdateIsLost
  <2> SUFFICES ASSUME StreamInv PROVE NoUpdateIsLost
    OBVIOUS
  <2>1. Here.count + Cardinality({i \in DOMAIN wire : wire[i].type \in Updates}) = There.count
    BY PositionsOf, LeadsCount DEF StreamInv
  <2>2. ~ failed
    BY DEF StreamInv, ReceivedOK
  <2> QED
    BY <2>1, <2>2, PositionsOf DEF NoUpdateIsLost
<1> QED
  BY <1>1, StreamInvInit, StreamInvNext, PTL DEF Spec
===============================================================================

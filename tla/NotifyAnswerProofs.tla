-------------------------- MODULE NotifyAnswerProofs --------------------------
(****************************************************************************)
(* Theorems about the answer to a NOTIFY: ActionWriter, as NotifyAnswer has *)
(* it.  A setter never runs past the end of its buffer, and what HAProxy    *)
(* reads from the ACK is what the handler has asked for: for every call of  *)
(* a setter, however many there are and whatever room the writer starts     *)
(* with.                                                                    *)
(****************************************************************************)
EXTENDS NotifyAnswer, EncodingProofs

-------------------------------------------------------------------------------
(* Lengths *)

LEMMA MoreLenIs ==
    /\ MoreLen \in [Nat -> Nat]
    /\ \A v \in Nat : MoreLen[v] = IF v < 128 THEN 2 ELSE 1 + MoreLen[(v - 128) \div 128]
<1> DEFINE D == Nat
           B == 0 .. 127
           b == [v \in Nat |-> 2]
           p == [v \in Nat |-> IF v < 128 THEN v ELSE (v - 128) \div 128]
           m == [v \in Nat |-> v]
           h == [x \in Nat \X Nat |-> 1 + x[2]]
           Is(f) == f = [v \in Nat |-> IF v < 128 THEN 2 ELSE 1 + f[(v - 128) \div 128]]
<1>1. \A v \in Nat : v \notin B => p[v] \in Nat /\ p[v] < v
  BY QuotientShrinks
<1>2. p \in [D -> D] /\ m \in [D -> Nat] /\ b \in [D -> Nat] /\ h \in [D \X Nat -> Nat]
  BY <1>1
<1>3. PICK f \in [D -> Nat] : Meets(f, D, B, b, p, h)
  <2>1. Descends(D, B, p, m)
    BY <1>1 DEF Descends
  <2> HIDE DEF D, B, b, p, m, h
  <2> QED
    BY <1>2, <2>1, Recursion DEF Recursive
<1>4. Is(f)
  <2>1. ASSUME NEW v \in Nat
        PROVE  f[v] = IF v < 128 THEN 2 ELSE 1 + f[(v - 128) \div 128]
    <3>1. CASE v < 128
      BY <1>3, <3>1 DEF Meets
    <3>2. CASE ~ (v < 128)
      <4>1. p[v] = (v - 128) \div 128 /\ p[v] \in Nat /\ v \in D /\ v \notin B
        BY <1>1, <3>2
      <4>2. f[p[v]] \in Nat
        BY <4>1, <1>3
      <4>3. f[v] = h[<<v, f[p[v]]>>]
        <5> HIDE DEF D, B, b, p, h
        <5> QED
          BY <1>3, <4>1 DEF Meets
      <4>4. h[<<v, f[p[v]]>>] = 1 + f[p[v]]
        <5> HIDE DEF p
        <5> QED
          BY <4>2
      <4> HIDE DEF p, h
      <4> QED
        BY <3>2, <4>1, <4>3, <4>4
    <3> QED
      BY <3>1, <3>2
  <2>2. f = [v \in Nat |-> f[v]]
    OBVIOUS
  <2> QED
    BY <2>1, <2>2
<1> HIDE DEF Is
<1>5. Is(CHOOSE f0 : Is(f0))
  BY <1>4
<1>6. MoreLen = CHOOSE f0 : Is(f0)
  BY DEF MoreLen, Is
<1>7. Is(MoreLen)
  BY <1>5, <1>6
<1>8. \A v \in Nat : MoreLen[v] = IF v < 128 THEN 2 ELSE 1 + MoreLen[(v - 128) \div 128]
  BY <1>7 DEF Is
<1>9. MoreLen \in [Nat -> Nat]
  <2> DEFINE P == {v \in Nat : MoreLen[v] \in Nat}
  <2>1. ASSUME NEW v \in Nat, \A j \in Nat : j < v => j \in P
        PROVE  v \in P
    <3>1. CASE v < 128
      BY <1>8, <3>1
    <3>2. CASE ~ (v < 128)
      <4>1. (v - 128) \div 128 \in P
        BY <2>1, <3>2, QuotientShrinks
      <4> QED
        BY <1>8, <3>2, <4>1
    <3> QED
      BY <3>1, <3>2
  <2> HIDE DEF P
  <2>2. Nat \subseteq P
    BY <2>1, Induction
  <2>3. \A v \in Nat : MoreLen[v] \in Nat
    BY <2>2 DEF P
  <2>4. MoreLen = [v \in Nat |-> MoreLen[v]]
    BY <1>7 DEF Is
  <2> HIDE DEF P
  <2> QED
    BY <2>3, <2>4
<1> QED
  BY <1>8, <1>9

\* varintLen is the length of what PutVarint writes, for every number.
LEMMA VarintLenIs ==
    \A n \in Nat : VarintLen(n) \in Nat /\ Len(PutVarint(n)) = VarintLen(n)
<1> DEFINE P == {v \in Nat : MoreLen[v] = 1 + Len(PutRest[v])}
<1>1. ASSUME NEW v \in Nat, \A j \in Nat : j < v => j \in P
      PROVE  v \in P
  <2>1. CASE v < 128
    <3>1. PutRest[v] = <<v>> /\ MoreLen[v] = 2
      BY <2>1, PutRestIs, MoreLenIs, ZenonT(30)
    <3>2. Len(<<v>>) = 1
      OBVIOUS
    <3>3. MoreLen[v] = 1 + Len(PutRest[v])
      BY <3>1, <3>2
    <3> QED
      BY <3>3
  <2>2. CASE ~ (v < 128)
    <3> DEFINE j == (v - 128) \div 128
               x == 128 + (v % 128)
    <3>1. j \in Nat /\ j < v /\ x \in Byte
      BY <2>2, QuotientShrinks
    <3>2. /\ PutRest[v] = <<x>> \o PutRest[j] /\ PutRest[j] \in Seq(Byte)
          /\ MoreLen[v] = 1 + MoreLen[j]
      <4>1. PutRest[v] = IF v < 128 THEN <<v>> ELSE <<x>> \o PutRest[j]
        BY PutRestIs, Zenon
      <4>2. MoreLen[v] = IF v < 128 THEN 2 ELSE 1 + MoreLen[j]
        BY MoreLenIs, Zenon
      <4> HIDE DEF x, j
      <4>3. PutRest[j] \in Seq(Byte)
        BY <3>1, PutRestIs
      <4> QED
        BY <2>2, <4>1, <4>2, <4>3, Zenon
    <3>3. MoreLen[j] = 1 + Len(PutRest[j])
      BY <1>1, <3>1
    <3> HIDE DEF j, x
    <3>4. Len(<<x>> \o PutRest[j]) = 1 + Len(PutRest[j])
      BY <3>1, <3>2, ConcatHead
    <3> QED
      BY <3>2, <3>3, <3>4
  <2> QED
    BY <2>1, <2>2
<1> HIDE DEF P
<1>2. Nat \subseteq P
  BY <1>1, Induction
<1>3. ASSUME NEW n \in Nat
      PROVE  VarintLen(n) \in Nat /\ Len(PutVarint(n)) = VarintLen(n)
  <2>1. CASE n < 240
    <3>1. PutVarint(n) = <<n>> /\ VarintLen(n) = 1
      BY <2>1 DEF PutVarint, VarintLen
    <3> QED
      BY <3>1
  <2>2. CASE ~ (n < 240)
    <3> DEFINE j == (n - 240) \div 16
               x == 240 + (n % 16)
    <3>1. j \in Nat /\ x \in Byte
      BY <2>2 DEF Byte
    <3>2. PutVarint(n) = <<x>> \o PutRest[j] /\ VarintLen(n) = MoreLen[j]
      BY <2>2 DEF PutVarint, VarintLen
    <3> HIDE DEF j, x
    <3>3. j \in P
      BY <1>2, <3>1
    <3>4. MoreLen[j] = 1 + Len(PutRest[j]) /\ PutRest[j] \in Seq(Byte) /\ MoreLen[j] \in Nat
      BY <3>1, <3>3, PutRestIs, MoreLenIs DEF P
    <3>5. Len(<<x>> \o PutRest[j]) = 1 + Len(PutRest[j])
      BY <3>1, <3>4, ConcatHead
    <3> QED
      BY <3>2, <3>4, <3>5
  <2> QED
    BY <2>1, <2>2
<1> QED
  BY <1>3

LEMMA BytesLen ==
    ASSUME NEW v \in Seq(Byte)
    PROVE  /\ PutBytes(v) \in Seq(Byte) /\ PutBytes(v) # <<>>
           /\ Len(PutBytes(v)) = VarintLen(Len(v)) + Len(v)
           /\ VarintLen(Len(v)) \in Nat
<1> DEFINE x == PutVarint(Len(v))
<1>1. Len(v) \in Nat
  OBVIOUS
<1>2. x \in Seq(Byte) /\ Len(x) = VarintLen(Len(v)) /\ VarintLen(Len(v)) \in Nat
  BY <1>1, PutVarintBytes, VarintLenIs
<1>3. PutBytes(v) = x \o v
  BY DEF PutBytes
<1> HIDE DEF x
<1>4. Len(x \o v) = Len(x) + Len(v)
  BY <1>2
<1>5. PutBytes(v) \in Seq(Byte) /\ PutBytes(v) # <<>>
  BY BytesAreRead
<1> QED
  BY <1>2, <1>3, <1>4, <1>5

\* actionHeader's length is the one that is made room for.
LEMMA HeaderLen ==
    ASSUME NEW c \in Setter
    PROVE  /\ Header(c) \in Seq(Byte)
           /\ HeaderSize(c) \in Nat /\ Len(Header(c)) = HeaderSize(c)
<1> DEFINE x == <<c.action, IF c.action = Set THEN 3 ELSE 2, c.scope>>
           y == PutBytes(c.name)
<1>1. c.action \in Byte /\ c.scope \in Byte /\ c.name \in Seq(Byte)
  BY DEF Setter, Byte, Set, Unset
<1>2. x \in Seq(Byte) /\ Len(x) = 3
  <2>1. (IF c.action = Set THEN 3 ELSE 2) \in Byte
    BY DEF Byte
  <2> QED
    BY <1>1, <2>1
<1>3. /\ y \in Seq(Byte) /\ Len(y) = VarintLen(Len(c.name)) + Len(c.name)
      /\ VarintLen(Len(c.name)) \in Nat /\ Len(c.name) \in Nat
  <2>1. Len(c.name) \in Nat
    BY <1>1
  <2>2. /\ y \in Seq(Byte) /\ Len(y) = VarintLen(Len(c.name)) + Len(c.name)
        /\ VarintLen(Len(c.name)) \in Nat
    BY <1>1, BytesLen
  <2> QED
    BY <2>1, <2>2
<1>4. Header(c) = x \o y /\ HeaderSize(c) = 3 + VarintLen(Len(c.name)) + Len(c.name)
  BY DEF Header, HeaderSize
<1> HIDE DEF x, y
<1>5. x \o y \in Seq(Byte) /\ Len(x \o y) = Len(x) + Len(y)
  BY <1>2, <1>3, ConcatBytes
<1> QED
  BY <1>2, <1>3, <1>4, <1>5

\* So is the length of typed data.
LEMMA ValueLen ==
    ASSUME NEW v \in TypedData
    PROVE  /\ PutTyped(v) \in Seq(Byte)
           /\ ValueSize(v) \in Nat /\ Len(PutTyped(v)) = ValueSize(v)
<1> DEFINE f == <<v.type + (IF v.true THEN 16 ELSE 0)>>
           y == CASE v.type \in {Null, Bool} -> <<>>
                  [] v.type \in Numbers -> PutVarint(v.val[1])
                  [] v.type \in {IPV4, IPV6} -> v.val
                  [] v.type \in {String, Binary} -> PutBytes(v.val)
           n == CASE v.type \in {String, Binary} -> VarintLen(Len(v.val)) + Len(v.val)
                  [] v.type \in Numbers -> VarintLen(v.val[1])
                  [] v.type = IPV4 -> 4
                  [] v.type = IPV6 -> 16
                  [] OTHER -> 0
<1> USE DEF Null, Bool, Int32, UInt32, Int64, UInt64, Numbers, IPV4, IPV6, String, Binary
<1>1. PutTyped(v) = f \o y /\ ValueSize(v) = 1 + n
  BY DEF PutTyped, ValueSize
<1>2. f \in Seq(Byte) /\ Len(f) = 1
  <2>1. v.type \in 0 .. 9
    BY DEF TypedData
  <2>2. v.type + (IF v.true THEN 16 ELSE 0) \in Byte
    BY <2>1 DEF Byte
  <2> QED
    BY <2>2
<1>3. y \in Seq(Byte) /\ Len(y) = n /\ n \in Nat
  <2>1. CASE v \in [type : {Null, Bool}, true : BOOLEAN, val : {<<>>}]
    <3>1. y = <<>> /\ n = 0
      BY <2>1
    <3> HIDE DEF y, n
    <3>2. <<>> \in Seq(Byte) /\ Len(<<>>) = 0
      OBVIOUS
    <3> QED
      BY <3>1, <3>2
  <2>2. CASE v \in [type : Numbers, true : BOOLEAN, val : [1 .. 1 -> Nat]]
    <3>1. y = PutVarint(v.val[1]) /\ n = VarintLen(v.val[1]) /\ v.val[1] \in Nat
      BY <2>2
    <3> QED
      BY <3>1, PutVarintBytes, VarintLenIs
  <2>3. CASE v \in [type : {IPV4}, true : BOOLEAN, val : [1 .. 4 -> Byte]]
    <3>1. y = v.val /\ n = 4 /\ v.val \in [1 .. 4 -> Byte]
      BY <2>3
    <3>2. 4 \in Nat
      OBVIOUS
    <3> HIDE DEF y, n
    <3> QED
      BY <3>1, <3>2, SequenceOfLength
  <2>4. CASE v \in [type : {IPV6}, true : BOOLEAN, val : [1 .. 16 -> Byte]]
    <3>1. y = v.val /\ n = 16 /\ v.val \in [1 .. 16 -> Byte]
      BY <2>4
    <3>2. 16 \in Nat
      OBVIOUS
    <3> HIDE DEF y, n
    <3> QED
      BY <3>1, <3>2, SequenceOfLength
  <2>5. CASE v \in [type : {String, Binary}, true : BOOLEAN, val : Seq(Byte)]
    <3>1. /\ y = PutBytes(v.val) /\ n = VarintLen(Len(v.val)) + Len(v.val)
          /\ v.val \in Seq(Byte) /\ Len(v.val) \in Nat
      BY <2>5
    <3>2. /\ PutBytes(v.val) \in Seq(Byte) /\ VarintLen(Len(v.val)) \in Nat
          /\ Len(PutBytes(v.val)) = VarintLen(Len(v.val)) + Len(v.val)
      BY <3>1, BytesLen
    <3> HIDE DEF y, n
    <3> QED
      BY <3>1, <3>2
  <2> QED
    BY <2>1, <2>2, <2>3, <2>4, <2>5 DEF TypedData
<1> HIDE DEF f, y, n
<1>4. f \o y \in Seq(Byte) /\ Len(f \o y) = Len(f) + Len(y)
  BY <1>2, <1>3, ConcatBytes
<1> QED
  BY <1>1, <1>2, <1>3, <1>4

-------------------------------------------------------------------------------
(* The writer *)

\* A writer that has never run past its end.
Writer(w) == /\ w \in [bytes : Seq(Byte), len : Nat, full : {FALSE}]
             /\ Len(w.bytes) <= w.len

LEMMA GrowIs ==
    ASSUME NEW w, Writer(w), NEW n \in Nat
    PROVE  /\ Writer(Grow(w, n)) /\ Grow(w, n).bytes = w.bytes
           /\ Len(w.bytes) + n <= Grow(w, n).len
<1>1. w.bytes \in Seq(Byte) /\ Len(w.bytes) \in Nat /\ w.len \in Nat /\ w.full = FALSE
      /\ Len(w.bytes) <= w.len
  <2>1. w.bytes \in Seq(Byte) /\ w.len \in Nat /\ w.full = FALSE /\ Len(w.bytes) <= w.len
    BY DEF Writer
  <2> QED
    BY <2>1, LenProperties
<1>2. CASE n <= w.len - Len(w.bytes)
  <2>1. Grow(w, n) = w
    BY <1>2 DEF Grow
  <2>2. Len(w.bytes) + n <= w.len
    BY <1>1, <1>2
  <2> QED
    BY <2>1, <2>2
<1>3. CASE ~ (n <= w.len - Len(w.bytes))
  <2> DEFINE least == Len(w.bytes) + n
             l == IF 2 * w.len < least THEN least ELSE 2 * w.len
  <2>1. Grow(w, n) = [w EXCEPT !.len = l]
    BY <1>3 DEF Grow
  <2>2. l \in Nat /\ Len(w.bytes) <= l /\ least <= l
    BY <1>1
  <2> HIDE DEF l
  <2>3. [w EXCEPT !.len = l] \in [bytes : Seq(Byte), len : Nat, full : {FALSE}]
        /\ [w EXCEPT !.len = l].bytes = w.bytes /\ [w EXCEPT !.len = l].len = l
    BY <2>2 DEF Writer
  <2> QED
    BY <2>1, <2>2, <2>3 DEF Writer
<1> QED
  BY <1>2, <1>3

\* A part that is no longer than the room made for it is written after the others.
LEMMA WriteIs ==
    ASSUME NEW w, Writer(w), NEW n \in Nat, NEW part \in Seq(Byte), Len(part) = n
    PROVE  Writer(Write(w, n, part)) /\ Write(w, n, part).bytes = w.bytes \o part
<1> DEFINE g == Grow(w, n)
           b == w.bytes \o part
<1>1. Writer(g) /\ g.bytes = w.bytes /\ Len(w.bytes) + n <= g.len
  BY GrowIs
<1>2. w.bytes \in Seq(Byte) /\ Len(w.bytes) \in Nat
  BY DEF Writer
<1>3. b \in Seq(Byte) /\ Len(b) = Len(w.bytes) + n
  BY <1>2, ConcatBytes
<1>4. Write(w, n, part) = IF Len(g.bytes) + Len(part) > g.len
                          THEN [g EXCEPT !.full = TRUE]
                          ELSE [g EXCEPT !.bytes = @ \o part]
  BY DEF Write
<1> HIDE DEF g
<1>5. g.len \in Nat /\ g \in [bytes : Seq(Byte), len : Nat, full : {FALSE}]
  BY <1>1 DEF Writer
<1>6. Write(w, n, part) = [g EXCEPT !.bytes = b]
  <2>1. ~ (Len(g.bytes) + Len(part) > g.len)
    BY <1>1, <1>2, <1>5
  <2>2. Write(w, n, part) = [g EXCEPT !.bytes = g.bytes \o part]
    BY <1>4, <2>1
  <2> QED
    BY <1>1, <2>2
<1> HIDE DEF b
<1>7. /\ [g EXCEPT !.bytes = b] \in [bytes : Seq(Byte), len : Nat, full : {FALSE}]
      /\ [g EXCEPT !.bytes = b].bytes = b /\ [g EXCEPT !.bytes = b].len = g.len
  BY <1>3, <1>5
<1>8. Len(b) <= g.len
  BY <1>1, <1>3
<1> QED
  BY <1>6, <1>7, <1>8 DEF Writer, b

\* What a call writes when it does not fail.
PutCall(c) == IF c.action = Unset THEN Header(c) ELSE Header(c) \o PutTyped(c.val)

\* What a call writes: a header of its own when it fails.
Written(c) == IF Fails(c) THEN Header(c) ELSE PutCall(c)

\* Whatever it is given, a setter stays in its buffer.
LEMMA ApplyIs ==
    ASSUME NEW w, Writer(w), NEW c \in Setter
    PROVE  /\ Writer(Apply(w, c)) /\ Written(c) \in Seq(Byte)
           /\ Apply(w, c).bytes = w.bytes \o Written(c)
<1> DEFINE headed == Write(w, HeaderSize(c), Header(c))
           hd == Header(c)
           ty == PutTyped(c.val)
<1>1. hd \in Seq(Byte) /\ Writer(headed) /\ headed.bytes = w.bytes \o hd
  BY HeaderLen, WriteIs
<1>2. headed.full = FALSE
  BY <1>1 DEF Writer
<1>3. Apply(w, c) = CASE c.action = Unset \/ headed.full -> headed
                      [] c.action = Set /\ Fails(c) -> Grow(headed, ValueSize(c.val))
                      [] OTHER -> Write(headed, ValueSize(c.val), PutTyped(c.val))
  BY DEF Apply
<1>4. c.action \in {Set, Unset} /\ Set # Unset /\ c.val \in TypedData \cup {NoAddress}
  BY DEF Setter, Set, Unset
<1> HIDE DEF headed
<1>5. CASE c.action = Unset
  <2>1. Written(c) = hd
    BY <1>4, <1>5 DEF Written, PutCall, Fails
  <2>2. Apply(w, c) = headed
    BY <1>2, <1>3, <1>4, <1>5
  <2> QED
    BY <1>1, <2>1, <2>2
<1>6. CASE c.action = Set /\ Fails(c)
  <2>1. Written(c) = hd
    BY <1>6 DEF Written
  <2>2. Apply(w, c) = Grow(headed, ValueSize(c.val))
    BY <1>2, <1>3, <1>4, <1>6
  <2>3. ValueSize(c.val) = 1
    <3>1. c.val.type = 15
      BY <1>6 DEF Fails, Invalid
    <3> QED
      BY <3>1 DEF ValueSize, Numbers, Int32, UInt32, Int64, UInt64, IPV4, IPV6, String, Binary
  <2>4. Writer(Grow(headed, 1)) /\ Grow(headed, 1).bytes = headed.bytes
    BY <1>1, GrowIs
  <2> QED
    BY <1>1, <2>1, <2>2, <2>3, <2>4
<1>7. CASE c.action = Set /\ ~ Fails(c)
  <2>1. Written(c) = hd \o ty
    BY <1>4, <1>7 DEF Written, PutCall
  <2>2. Apply(w, c) = Write(headed, ValueSize(c.val), ty)
    BY <1>2, <1>3, <1>4, <1>7
  <2>3. c.val \in TypedData
    BY <1>4, <1>7 DEF Fails, NoAddress
  <2>4. ty \in Seq(Byte) /\ ValueSize(c.val) \in Nat /\ Len(ty) = ValueSize(c.val)
    BY <2>3, ValueLen
  <2> HIDE DEF hd, ty
  <2>5. Writer(Apply(w, c)) /\ Apply(w, c).bytes = headed.bytes \o ty
    BY <1>1, <2>2, <2>4, WriteIs
  <2>6. w.bytes \in Seq(Byte)
    BY DEF Writer
  <2>7. (w.bytes \o hd) \o ty = w.bytes \o (hd \o ty) /\ hd \o ty \in Seq(Byte)
    BY <1>1, <2>4, <2>6, BytesAssociate, ConcatBytes
  <2> QED
    BY <1>1, <2>1, <2>5, <2>7
<1> QED
  BY <1>4, <1>5, <1>6, <1>7

WriterInv == Writer(aw) /\ calls \in Seq(Setter)

LEMMA WriterInit == AcquireWriter => WriterInv
<1> SUFFICES ASSUME AcquireWriter PROVE WriterInv
  OBVIOUS
<1>1. aw \in [bytes : {<<>>}, len : Rooms, full : {FALSE}] /\ calls = <<>>
  BY DEF AcquireWriter
<1>2. <<>> \in Seq(Byte) /\ <<>> \in Seq(Setter) /\ Len(<<>>) = 0
  OBVIOUS
<1>3. aw.bytes = <<>> /\ aw.len \in Nat
  BY <1>1, WriterAssumption
<1>4. Len(aw.bytes) <= aw.len
  BY <1>2, <1>3
<1>5. aw \in [bytes : Seq(Byte), len : Nat, full : {FALSE}]
  BY <1>1, <1>2, WriterAssumption
<1> QED
  BY <1>1, <1>2, <1>4, <1>5 DEF WriterInv, Writer

LEMMA WriterStep == WriterInv /\ [AnswerNext]_<<vars, struct, answer>> => WriterInv'
<1> SUFFICES ASSUME WriterInv, [AnswerNext]_<<vars, struct, answer>>
             PROVE  WriterInv'
  OBVIOUS
<1>1. CASE CallSetter
  <2>1. PICK c \in Calls : aw' = Apply(aw, c) /\ calls' = Append(calls, c)
    BY <1>1 DEF CallSetter
  <2>2. c \in Setter
    BY CallsAssumption
  <2>3. Writer(aw')
    BY <2>1, <2>2, ApplyIs DEF WriterInv
  <2>4. calls' \in Seq(Setter)
    BY <2>1, <2>2 DEF WriterInv
  <2> QED
    BY <2>3, <2>4 DEF WriterInv
<1>2. CASE UNCHANGED <<aw, calls>>
  BY <1>2 DEF WriterInv
<1> QED
  BY <1>1, <1>2 DEF AnswerNext, HandlerSets, WriteAck, answer

\* No setter runs past the end of its buffer: the length it has made room for is
\* the one it writes, for every name, string and number, and however small the
\* room that the frame has left.
THEOREM SettersHaveRoom == AnswerSpec => []RoomIsMade
<1>1. AnswerInit => WriterInv
  BY WriterInit DEF AnswerInit
<1>2. WriterInv => RoomIsMade
  BY DEF WriterInv, Writer, RoomIsMade
<1> QED
  BY <1>1, <1>2, WriterStep, PTL DEF AnswerSpec

-------------------------------------------------------------------------------
(* HAProxy reads an action *)

LEMMA SuffixIsShorter ==
    ASSUME NEW s \in Seq(Byte), NEW t \in Seq(Byte), Suffix(s, t)
    PROVE  Len(s) <= Len(t)
<1>1. PICK u \in Seq(Byte) : t = u \o s
  BY DEF Suffix
<1>2. Len(t) = Len(u) + Len(s) /\ Len(u) \in Nat /\ Len(s) \in Nat /\ Len(t) \in Nat
  BY <1>1, ConcatBytes, LenProperties
<1> QED
  BY <1>2

\* The conditions of Action exclude each other.
LEMMA ActionIs ==
    ASSUME NEW b \in Seq(Byte)
    PROVE  LET name == Bytes(Drop(b, 3))
               v == Typed(name.rest)
           IN /\ name.is # "ok" => Action(b) = Outcome("error", <<>>, b)
              /\ name.is = "ok" => Len(b) > 3
              /\ name.is = "ok" => Action(b) =
                     IF b[1] = Unset /\ b[2] = 2
                     THEN Outcome("ok", Call(b[1], b[3], name.val, NoValue), name.rest)
                     ELSE IF b[1] = Set /\ b[2] = 3
                     THEN [v EXCEPT !.val = Call(b[1], b[3], name.val, v.val)]
                     ELSE Outcome("error", <<>>, b)
<1> DEFINE name == Bytes(Drop(b, 3))
           v == Typed(name.rest)
<1>1. Len(b) \in Nat
  OBVIOUS
<1>2. ASSUME ~ (Len(b) > 3) PROVE name.is = "error"
  <2>1. Drop(b, 3) = <<>>
    <3>1. Len(Drop(b, 3)) = 0 /\ Drop(b, 3) \in Seq(Byte)
      BY <1>1, <1>2 DEF Drop
    <3> QED
      BY <3>1, EmptySeq
  <2>2. Varint(<<>>) = Outcome("error", 0, <<>>)
    BY DEF Varint
  <2>3. Varint(<<>>).is = "error"
    BY <2>2 DEF Outcome
  <2>4. Bytes(<<>>) = Outcome("error", <<>>, <<>>)
    BY <2>3 DEF Bytes
  <2> QED
    BY <2>1, <2>4 DEF Outcome
<1>3. Action(b) =
          CASE Len(b) < 4 \/ name.is # "ok" -> Outcome("error", <<>>, b)
            [] b[1] = Unset /\ b[2] = 2 /\ name.is = "ok" ->
                   Outcome("ok", Call(b[1], b[3], name.val, NoValue), name.rest)
            [] b[1] = Set /\ b[2] = 3 /\ name.is = "ok" ->
                   [v EXCEPT !.val = Call(b[1], b[3], name.val, v.val)]
            [] OTHER -> Outcome("error", <<>>, b)
  BY DEF Action
<1> HIDE DEF name, v
<1>4. ASSUME name.is # "ok" PROVE Action(b) = Outcome("error", <<>>, b)
  BY <1>3, <1>4
<1>5. ASSUME name.is = "ok"
      PROVE  /\ Len(b) > 3
             /\ Action(b) = IF b[1] = Unset /\ b[2] = 2
                            THEN Outcome("ok", Call(b[1], b[3], name.val, NoValue), name.rest)
                            ELSE IF b[1] = Set /\ b[2] = 3
                            THEN [v EXCEPT !.val = Call(b[1], b[3], name.val, v.val)]
                            ELSE Outcome("error", <<>>, b)
  <2>1. Len(b) > 3 /\ ~ (Len(b) < 4)
    BY <1>1, <1>2, <1>5
  <2>2. Unset # Set
    BY DEF Unset, Set
  <2> QED
    BY <1>3, <1>5, <2>1, <2>2
<1> QED
  BY <1>4, <1>5 DEF name, v

\* An action that is read leaves less.
LEMMA ActionLeaves ==
    ASSUME NEW b \in Seq(Byte), Action(b).is = "ok"
    PROVE  Action(b).rest \in Seq(Byte) /\ Len(Action(b).rest) < Len(b)
<1> DEFINE name == Bytes(Drop(b, 3))
           v == Typed(name.rest)
           a == Action(b)
           d == Drop(b, 3)
           none == Outcome("error", <<>>, b)
           unset == Outcome("ok", Call(b[1], b[3], name.val, NoValue), name.rest)
           set == [v EXCEPT !.val = Call(b[1], b[3], name.val, v.val)]
<1>1. /\ name.is # "ok" => a = none
      /\ name.is = "ok" => Len(b) > 3
      /\ name.is = "ok" => a = IF b[1] = Unset /\ b[2] = 2 THEN unset
                               ELSE IF b[1] = Set /\ b[2] = 3 THEN set ELSE none
  BY ActionIs
<1>2. none.is = "error" /\ unset.rest = name.rest
  BY DEF Outcome
<1> HIDE DEF none, unset
<1>3. name.is = "ok" /\ Len(b) > 3
  BY <1>1, <1>2
<1>4. d \in Seq(Byte) /\ Len(d) < Len(b)
  BY <1>3 DEF Drop
<1> HIDE DEF d
<1>5. Bytes(d).rest \in Seq(Byte) /\ Suffix(Bytes(d).rest, d)
  BY <1>4, BytesLeave DEF Leaves
<1>6. name.rest \in Seq(Byte) /\ Suffix(name.rest, d)
  BY <1>5 DEF d
<1> HIDE DEF name
<1>7. v.rest \in Seq(Byte) /\ Suffix(v.rest, name.rest) /\ "rest" \in DOMAIN v
  BY <1>6, TypedLeaves, OutcomeFields DEF Leaves
<1> HIDE DEF v
<1>8. set.rest = v.rest
  BY <1>7
<1> HIDE DEF set
<1>9. a.rest = name.rest \/ a.rest = v.rest
  BY <1>1, <1>2, <1>3, <1>8
<1>10. Len(name.rest) <= Len(d) /\ Len(v.rest) <= Len(name.rest)
  BY <1>4, <1>6, <1>7, SuffixIsShorter
<1>11. Len(b) \in Nat /\ Len(d) \in Nat /\ Len(name.rest) \in Nat /\ Len(v.rest) \in Nat
  BY <1>4, <1>6, <1>7, LenProperties
<1>12. Len(name.rest) < Len(b) /\ Len(v.rest) < Len(b)
  BY <1>4, <1>10, <1>11
<1> HIDE DEF a
<1>13. a.rest \in Seq(Byte) /\ Len(a.rest) < Len(b)
  BY <1>6, <1>7, <1>9, <1>12
<1> QED
  BY <1>13 DEF a

\* What may be read as a call.
Readings == {Action(b).val : b \in Seq(Byte)}

LEMMA ActionsAre ==
    /\ Actions \in [Seq(Byte) -> Seq(Readings)]
    /\ \A b \in Seq(Byte) :
           Actions[b] = IF Action(b).is = "ok" THEN <<Action(b).val>> \o Actions[Action(b).rest]
                        ELSE <<>>
<1> DEFINE D == Seq(Byte)
           V == Seq(Readings)
           B == {b \in D : Action(b).is # "ok"}
           base == [b \in D |-> <<>>]
           p == [b \in D |-> IF Action(b).is = "ok" THEN Action(b).rest ELSE b]
           m == [b \in D |-> Len(b)]
           h == [x \in D \X V |-> <<Action(x[1]).val>> \o x[2]]
           Is(f) == f = [b \in D |-> IF Action(b).is = "ok"
                                     THEN <<Action(b).val>> \o f[Action(b).rest] ELSE <<>>]
<1>1. \A b \in D : b \notin B => Action(b).rest \in D /\ Len(Action(b).rest) < Len(b)
  BY ActionLeaves
<1>2. p \in [D -> D] /\ m \in [D -> Nat]
  BY <1>1
<1>3. base \in [D -> V]
  <2>1. <<>> \in V
    OBVIOUS
  <2> HIDE DEF D, V
  <2> QED
    BY <2>1
<1>4. h \in [D \X V -> V]
  <2>1. \A b \in D, v \in V : <<Action(b).val>> \o v \in V
    <3> TAKE b \in D, v \in V
    <3>1. Action(b).val \in Readings
      BY DEF Readings
    <3> QED
      BY <3>1, ConcatHead
  <2> HIDE DEF D, V
  <2> QED
    BY <2>1
<1>5. PICK f \in [D -> V] : Meets(f, D, B, base, p, h)
  <2>1. Descends(D, B, p, m)
    BY <1>1 DEF Descends
  <2> HIDE DEF D, V, B, base, p, m, h
  <2> QED
    BY <1>2, <1>3, <1>4, <2>1, Recursion DEF Recursive
<1>6. Is(f)
  <2>1. ASSUME NEW b \in D
        PROVE  f[b] = IF Action(b).is = "ok" THEN <<Action(b).val>> \o f[Action(b).rest] ELSE <<>>
    <3>1. CASE b \in B
      <4>1. f[b] = base[b]
        <5> HIDE DEF D, V, B, base, p, h
        <5> QED
          BY <1>5, <3>1 DEF Meets
      <4> QED
        BY <4>1, <3>1
    <3>2. CASE b \notin B
      <4>1. p[b] = Action(b).rest /\ p[b] \in D /\ Action(b).is = "ok"
        BY <1>1, <3>2
      <4>2. f[p[b]] \in V
        BY <4>1, <1>5
      <4>3. f[b] = h[<<b, f[p[b]]>>]
        <5> HIDE DEF D, V, B, base, p, h
        <5> QED
          BY <1>5, <3>2 DEF Meets
      <4> HIDE DEF V, p, D
      <4>4. h[<<b, f[p[b]]>>] = <<Action(b).val>> \o f[p[b]]
        BY <4>1, <4>2
      <4> HIDE DEF h
      <4> QED
        BY <4>1, <4>3, <4>4
    <3> QED
      BY <3>1, <3>2
  <2>2. f = [b \in D |-> f[b]]
    OBVIOUS
  <2> HIDE DEF D
  <2> QED
    BY <2>1, <2>2
<1> HIDE DEF Is
<1>7. Is(CHOOSE g : Is(g))
  BY <1>6
<1>8. Actions = CHOOSE g : Is(g)
  BY DEF Actions, Is
<1>9. Is(Actions)
  BY <1>7, <1>8
<1>10. \A b \in D : Actions[b] = IF Action(b).is = "ok"
                                 THEN <<Action(b).val>> \o Actions[Action(b).rest] ELSE <<>>
  BY <1>9 DEF Is
<1>11. Actions \in [D -> V]
  <2> DEFINE P == {n \in Nat : \A b \in D : Len(b) = n => Actions[b] \in V}
  <2>1. ASSUME NEW n \in Nat, \A j \in Nat : j < n => j \in P
        PROVE  n \in P
    <3> SUFFICES ASSUME NEW b \in D, Len(b) = n PROVE Actions[b] \in V
      OBVIOUS
    <3>1. CASE Action(b).is = "ok"
      <4>1. Action(b).rest \in D /\ Len(Action(b).rest) < n /\ Len(Action(b).rest) \in Nat
        BY <3>1, ActionLeaves, LenProperties
      <4>2. Actions[Action(b).rest] \in V
        BY <2>1, <4>1
      <4>3. Action(b).val \in Readings
        BY DEF Readings
      <4> HIDE DEF D
      <4>4. <<Action(b).val>> \o Actions[Action(b).rest] \in V
        BY <4>2, <4>3, ConcatHead
      <4> QED
        BY <1>10, <3>1, <4>4
    <3>2. CASE Action(b).is # "ok"
      <4>1. <<>> \in V
        OBVIOUS
      <4> QED
        BY <1>10, <3>2, <4>1
    <3> QED
      BY <3>1, <3>2
  <2> HIDE DEF P
  <2>2. Nat \subseteq P
    BY <2>1, Induction
  <2>3. \A b \in D : Actions[b] \in V
    <3> TAKE b \in D
    <3>1. Len(b) \in P
      BY <2>2, LenProperties
    <3> QED
      BY <3>1 DEF P
  <2>4. Actions = [b \in D |-> Actions[b]]
    BY <1>9 DEF Is
  <2> HIDE DEF D, V
  <2> QED
    BY <2>3, <2>4
<1> QED
  BY <1>10, <1>11

\* What a setter writes is read as the call it was.
LEMMA CallIsRead ==
    ASSUME NEW c \in Setter, ~ Fails(c), NEW r \in Seq(Byte)
    PROVE  /\ PutCall(c) \o r \in Seq(Byte)
           /\ Action(PutCall(c) \o r) = Outcome("ok", c, r)
<1> DEFINE x == <<c.action, IF c.action = Set THEN 3 ELSE 2, c.scope>>
           y == PutBytes(c.name)
           ty == IF c.action = Unset THEN <<>> ELSE PutTyped(c.val)
           t == ty \o r
           b == x \o (y \o t)
           name == Bytes(Drop(b, 3))
           v == Typed(name.rest)
<1>1. /\ c.action \in {Set, Unset} /\ c.scope \in Byte /\ c.name \in Seq(Byte)
      /\ c.val \in TypedData \cup {NoAddress}
      /\ c = [action |-> c.action, scope |-> c.scope, name |-> c.name, val |-> c.val]
      /\ c.action = Unset => c.val = NoValue
      /\ Set # Unset
  BY DEF Setter, Set, Unset
<1>2. x \in Seq(Byte) /\ Len(x) = 3
  <2>1. (IF c.action = Set THEN 3 ELSE 2) \in Byte /\ c.action \in Byte
    BY <1>1 DEF Byte, Set, Unset
  <2> QED
    BY <1>1, <2>1
<1>3. y \in Seq(Byte)
  BY <1>1, BytesLen
<1>4. c.action = Set => c.val \in TypedData
  BY <1>1 DEF Fails, NoAddress
<1>5. ty \in Seq(Byte)
  <2>1. CASE c.action = Unset
    BY <2>1
  <2>2. CASE c.action # Unset
    BY <1>1, <1>4, <2>2, ValueLen
  <2> QED
    BY <2>1, <2>2
<1>6. t \in Seq(Byte)
  <2> HIDE DEF ty
  <2> QED
    BY <1>5, ConcatBytes
<1>7. PutCall(c) \o r = b
  <2>1. Header(c) = x \o y
    BY DEF Header
  <2>2. PutCall(c) = (x \o y) \o ty
    <3>1. CASE c.action = Unset
      <4>1. PutCall(c) = x \o y /\ ty = <<>>
        BY <2>1, <3>1 DEF PutCall
      <4> HIDE DEF x, y, ty
      <4>2. x \o y \in Seq(Byte)
        BY <1>2, <1>3, ConcatBytes
      <4> DEFINE z == x \o y
      <4> HIDE DEF z
      <4>3. z \o <<>> = z
        BY <4>2, ConcatEmpty DEF z
      <4> QED
        BY <4>1, <4>3 DEF z
    <3>2. CASE c.action # Unset
      BY <2>1, <3>2 DEF PutCall
    <3> QED
      BY <3>1, <3>2
  <2> HIDE DEF x, y, ty
  <2>3. x \o y \in Seq(Byte)
    BY <1>2, <1>3, ConcatBytes
  <2>4. ((x \o y) \o ty) \o r = (x \o y) \o (ty \o r)
    BY <1>5, <2>3, BytesAssociate
  <2>5. (x \o y) \o (ty \o r) = x \o (y \o (ty \o r))
    BY <1>2, <1>3, <1>6, BytesAssociate
  <2> QED
    BY <2>2, <2>4, <2>5
<1>8. b \in Seq(Byte) /\ Drop(b, 3) = y \o t
      /\ b[1] = c.action /\ b[2] = (IF c.action = Set THEN 3 ELSE 2) /\ b[3] = c.scope
  <2>1. x[1] = c.action /\ x[2] = (IF c.action = Set THEN 3 ELSE 2) /\ x[3] = c.scope
    OBVIOUS
  <2> DEFINE u == y \o t
  <2>2. u \in Seq(Byte)
    <3> HIDE DEF y, t
    <3> QED
      BY <1>3, <1>6, ConcatBytes
  <2> HIDE DEF x, y, t, u
  <2>3. x \o u \in Seq(Byte) /\ Drop(x \o u, 3) = u
    BY <1>2, <2>2, ConcatBytes
  <2>4. ASSUME NEW i \in 1 .. Len(x) PROVE (x \o u)[i] = x[i]
    BY <1>2, <2>2, ConcatProperties, SMTT(30)
  <2>5. (x \o u)[1] = x[1] /\ (x \o u)[2] = x[2] /\ (x \o u)[3] = x[3]
    <3>1. 1 \in 1 .. Len(x) /\ 2 \in 1 .. Len(x) /\ 3 \in 1 .. Len(x)
      BY <1>2
    <3> QED
      BY <2>4, <3>1, Zenon
  <2> QED
    BY <2>1, <2>3, <2>5 DEF u
<1>9. name = Outcome("ok", c.name, t)
  <2>1. Bytes(y \o t) = Outcome("ok", c.name, t)
    <3> HIDE DEF t
    <3> QED
      BY <1>1, <1>6, BytesAreRead
  <2> QED
    BY <1>8, <2>1
<1>10. name.is = "ok" /\ name.val = c.name /\ name.rest = t
  <2> HIDE DEF name, t
  <2> QED
    BY <1>9 DEF Outcome
<1>11. Action(b) = IF b[1] = Unset /\ b[2] = 2
                   THEN Outcome("ok", Call(b[1], b[3], name.val, NoValue), name.rest)
                   ELSE IF b[1] = Set /\ b[2] = 3
                   THEN [v EXCEPT !.val = Call(b[1], b[3], name.val, v.val)]
                   ELSE Outcome("error", <<>>, b)
  BY <1>8, <1>10, ActionIs
<1>12. CASE c.action = Unset
  <2>1. t = r
    <3>1. ty = <<>>
      BY <1>12
    <3> HIDE DEF ty
    <3> QED
      BY <3>1, ConcatEmpty
  <2> HIDE DEF b, name, v, t
  <2>2. Action(b) = Outcome("ok", Call(c.action, c.scope, c.name, NoValue), r)
    BY <1>1, <1>8, <1>10, <1>11, <1>12, <2>1
  <2>3. Call(c.action, c.scope, c.name, NoValue) = c
    BY <1>1, <1>12 DEF Call
  <2> QED
    BY <1>7, <1>8, <2>2, <2>3
<1>13. CASE c.action = Set
  <2>1. v = Outcome("ok", c.val, r)
    <3>1. name.rest = PutTyped(c.val) \o r
      BY <1>1, <1>10, <1>13
    <3>2. c.val \in TypedData
      BY <1>4, <1>13
    <3>3. c.val = [type |-> c.val.type, true |-> c.val.true, val |-> c.val.val]
      BY <3>2 DEF TypedData
    <3> DEFINE d == c.val
    <3> HIDE DEF name, d
    <3>4. Typed(PutTyped(d) \o r) = Outcome("ok", d, r)
      BY <3>2, <3>3, TypedDataAreRead DEF d
    <3> QED
      BY <3>1, <3>4 DEF d
  <2> HIDE DEF b, name, v, t
  <2>2. Action(b) = [v EXCEPT !.val = Call(c.action, c.scope, c.name, v.val)]
    BY <1>1, <1>8, <1>10, <1>11, <1>13
  <2>3. v.val = c.val
    BY <2>1 DEF Outcome
  <2>4. Call(c.action, c.scope, c.name, c.val) = c
    BY <1>1 DEF Call
  <2>5. [Outcome("ok", c.val, r) EXCEPT !.val = c] = Outcome("ok", c, r)
    BY DEF Outcome
  <2>6. Action(b) = Outcome("ok", c, r)
    BY <2>1, <2>2, <2>3, <2>4, <2>5
  <2> QED
    BY <1>7, <1>8, <2>6
<1> QED
  BY <1>1, <1>12, <1>13

LEMMA FirstCall ==
    ASSUME NEW c \in Setter, ~ Fails(c), NEW r \in Seq(Byte)
    PROVE  Actions[PutCall(c) \o r] = <<c>> \o Actions[r]
<1> DEFINE b == PutCall(c) \o r
<1>1. b \in Seq(Byte) /\ Action(b) = Outcome("ok", c, r)
  BY CallIsRead
<1> HIDE DEF b
<1>2. Action(b).is = "ok" /\ Action(b).val = c /\ Action(b).rest = r
  BY <1>1 DEF Outcome
<1> QED
  BY <1>1, <1>2, ActionsAre DEF b

LEMMA NothingIsRead == Actions[<<>>] = <<>>
<1>1. <<>> \in Seq(Byte)
  OBVIOUS
<1>2. Action(<<>>).is # "ok"
  <2> SUFFICES ASSUME Action(<<>>).is = "ok" PROVE FALSE
    OBVIOUS
  <2>1. Action(<<>>).rest \in Seq(Byte) /\ Len(Action(<<>>).rest) < Len(<<>>)
    BY <1>1, ActionLeaves
  <2>2. Len(Action(<<>>).rest) \in Nat /\ Len(<<>>) = 0
    BY <2>1, LenProperties
  <2> QED
    BY <2>1, <2>2
<1> QED
  BY <1>1, <1>2, ActionsAre

-------------------------------------------------------------------------------
(* The ACK *)

\* The first call that has failed, or 0.
FailedAt(cs) == SelectInSeq(cs, Fails)

LEMMA FailedIs ==
    ASSUME NEW cs \in Seq(Setter), NEW c \in Setter
    PROVE  /\ FailedAt(<<>>) = 0
           /\ FailedAt(cs) \in 0 .. Len(cs)
           /\ FailedAt(Append(cs, c)) = IF FailedAt(cs) # 0 THEN FailedAt(cs)
                                        ELSE IF Fails(c) THEN Len(cs) + 1 ELSE 0
<1> DEFINE n == Len(cs)
           ds == Append(cs, c)
           I == {i \in 1 .. n : Fails(cs[i])}
           J == {i \in 1 .. n + 1 : Fails(ds[i])}
<1>1. n \in Nat /\ Len(ds) = n + 1 /\ ds[n + 1] = c /\ \A i \in 1 .. n : ds[i] = cs[i]
  OBVIOUS
<1>2. FailedAt(<<>>) = 0
  <2>1. {i \in 1 .. Len(<<>>) : Fails(<<>>[i])} = {}
    OBVIOUS
  <2> QED
    BY <2>1 DEF FailedAt, SelectInSeq
<1>3. /\ FailedAt(cs) = IF I # {} THEN Min(I) ELSE 0
      /\ FailedAt(ds) = IF J # {} THEN Min(J) ELSE 0
  BY <1>1 DEF FailedAt, SelectInSeq
<1>4. J = I \cup (IF Fails(c) THEN {n + 1} ELSE {})
  <2> HIDE DEF n, ds
  <2>1. \A i : i \in 1 .. n + 1 <=> i \in 1 .. n \/ i = n + 1
    BY <1>1
  <2>2. n + 1 \notin 1 .. n
    BY <1>1
  <2>3. \A i \in 1 .. n : Fails(ds[i]) <=> Fails(cs[i])
    BY <1>1
  <2> QED
    BY <1>1, <2>1, <2>2, <2>3
<1>5. I \subseteq 1 .. n
  OBVIOUS
<1> HIDE DEF n, ds, I, J
<1>6. ASSUME NEW K, NEW k \in K, K \subseteq Nat, \A j \in K : k <= j
      PROVE  Min(K) = k
  <2>1. \A x \in K : (\A j \in K : x <= j) => x = k
    BY <1>6
  <2> QED
    BY <1>6, <2>1 DEF Min
<1>7. CASE I # {}
  <2>1. I \subseteq Nat
    BY <1>1, <1>5
  <2>2. PICK k \in I : \A j \in I : k <= j
    BY <1>7, <2>1, LeastNumber
  <2>3. Min(I) = k
    BY <1>6, <2>1, <2>2
  <2>4. k \in J /\ J \subseteq Nat /\ \A j \in J : k <= j
    BY <1>1, <1>4, <1>5, <2>1, <2>2
  <2>5. Min(J) = k
    BY <1>6, <2>4
  <2>6. k \in 0 .. n /\ k # 0
    BY <1>1, <1>5, <2>2
  <2>7. FailedAt(cs) = k /\ FailedAt(ds) = k
    BY <1>3, <1>7, <2>3, <2>4, <2>5
  <2> QED
    BY <1>2, <2>6, <2>7 DEF n, ds
<1>8. CASE I = {}
  <2>1. FailedAt(cs) = 0 /\ 0 \in 0 .. n
    BY <1>1, <1>3, <1>8
  <2>2. CASE Fails(c)
    <3>1. J = {n + 1}
      BY <1>4, <1>8, <2>2
    <3>2. Min(J) = n + 1
      <4>1. n + 1 \in Nat
        BY <1>1
      <4>2. n + 1 \in J /\ J \subseteq Nat /\ \A j \in J : n + 1 <= j
        BY <3>1, <4>1
      <4> QED
        BY <1>6, <4>2
    <3>3. FailedAt(ds) = n + 1
      BY <1>3, <3>1, <3>2
    <3> QED
      BY <1>2, <2>1, <2>2, <3>3 DEF n, ds
  <2>3. CASE ~ Fails(c)
    <3>1. J = {}
      BY <1>4, <1>8, <2>3
    <3>2. FailedAt(ds) = 0
      BY <1>3, <3>1
    <3> QED
      BY <1>2, <2>1, <2>3, <3>2 DEF n, ds
  <2> QED
    BY <2>2, <2>3
<1> QED
  BY <1>7, <1>8

LEMMA PrefixOfConcat ==
    ASSUME NEW S, NEW s \in Seq(S), NEW t \in Seq(S)
    PROVE  IsPrefix(s, s \o t)
<1>1. Len(s) <= Len(s \o t) /\ SubSeq(s \o t, 1, Len(s)) = SubSeq(s, 1, Len(s))
      /\ SubSeq(s, 1, Len(s)) = s
  OBVIOUS
<1> QED
  BY <1>1 DEF IsPrefix

LEMMA AppendThenConcat ==
    ASSUME NEW S, NEW s \in Seq(S), NEW t \in Seq(S), NEW x \in S
    PROVE  s \o (<<x>> \o t) = Append(s, x) \o t
<1>1. Append(s, x) = s \o <<x>> /\ <<x>> \in Seq(S)
  OBVIOUS
<1>2. (s \o <<x>>) \o t = s \o (<<x>> \o t)
  BY <1>1, ConcatAssociative
<1> QED
  BY <1>1, <1>2

LEMMA TakeOfAppend ==
    ASSUME NEW S, NEW s \in Seq(S), NEW x \in S, NEW n \in 0 .. Len(s)
    PROVE  Take(Append(s, x), n) = Take(s, n) /\ Take(s, Len(s)) = s
  BY DEF Take

\* Whatever follows the actions written so far, those are read first.
Reads(b, cs) == \A r \in Seq(Byte) : Actions[b \o r] = cs \o Actions[r]

\* The invariant: AckIsWhatWasSet with any bytes after those written, because a
\* setter adds to what is there; after one that has failed nothing is known of them.
AckInv == /\ WriterInv
          /\ FailedAt(calls) = 0 => Reads(aw.bytes, calls)
          /\ FailedAt(calls) # 0 =>
                 \A r \in Seq(Byte) :
                     IsPrefix(Take(calls, FailedAt(calls) - 1), Actions[aw.bytes \o r])

LEMMA AckInit == AcquireWriter => AckInv
<1> SUFFICES ASSUME AcquireWriter PROVE AckInv
  OBVIOUS
<1>1. WriterInv /\ aw.bytes = <<>> /\ calls = <<>>
  BY WriterInit DEF AcquireWriter
<1>2. FailedAt(<<>>) = 0
  BY DEF FailedAt, SelectInSeq
<1>3. \A r \in Seq(Byte) : Actions[<<>> \o r] = <<>> \o Actions[r]
  <2> TAKE r \in Seq(Byte)
  <2>1. Actions[r] \in Seq(Readings)
    BY ActionsAre
  <2> DEFINE u == Actions[r]
  <2> HIDE DEF u
  <2>2. <<>> \o r = r /\ <<>> \o u = u
    BY <2>1, ConcatEmpty DEF u
  <2> QED
    BY <2>2 DEF u
<1> QED
  BY <1>1, <1>2, <1>3 DEF AckInv, Reads

LEMMA AckStep == AckInv /\ [AnswerNext]_<<vars, struct, answer>> => AckInv'
<1> SUFFICES ASSUME AckInv, [AnswerNext]_<<vars, struct, answer>>
             PROVE  AckInv'
  OBVIOUS
<1>1. CASE CallSetter
  <2>1. PICK c \in Calls : aw' = Apply(aw, c) /\ calls' = Append(calls, c)
    BY <1>1 DEF CallSetter
  <2>2. c \in Setter /\ Writer(aw) /\ calls \in Seq(Setter)
    BY CallsAssumption DEF AckInv, WriterInv
  <2> DEFINE w == Written(c)
             k == FailedAt(calls)
             b == aw.bytes
             cs == calls
  <2>3. WriterInv'
    BY <1>1, WriterStep DEF AckInv, AnswerNext, HandlerSets
  <2>4. aw'.bytes = b \o w /\ w \in Seq(Byte) /\ b \in Seq(Byte)
    <3>1. b \in Seq(Byte)
      BY <2>2 DEF Writer
    <3> QED
      BY <2>1, <2>2, <3>1, ApplyIs
  <2>5. /\ k \in 0 .. Len(cs)
        /\ FailedAt(calls') = IF k # 0 THEN k ELSE IF Fails(c) THEN Len(cs) + 1 ELSE 0
    BY <2>1, <2>2, FailedIs
  <2>6. \A r \in Seq(Byte) : w \o r \in Seq(Byte) /\ (b \o w) \o r = b \o (w \o r)
    <3> HIDE DEF w, b
    <3> QED
      BY <2>4, BytesAssociate, ConcatBytes
  <2>7. Len(cs) \in Nat
    BY <2>2, LenProperties
  <2> DEFINE S == Setter \cup Readings
  <2>8. cs \in Seq(S) /\ c \in S /\ \A r \in Seq(Byte) : Actions[r] \in Seq(S)
    <3>1. Seq(Setter) \subseteq Seq(S) /\ Seq(Readings) \subseteq Seq(S)
      OBVIOUS
    <3>2. \A r \in Seq(Byte) : Actions[r] \in Seq(Readings)
      BY ActionsAre
    <3> QED
      BY <2>2, <3>1, <3>2
  <2> HIDE DEF w, k, b, cs, S
  <2>9. CASE k # 0
    <3>1. FailedAt(calls') = k /\ k - 1 \in 0 .. Len(cs)
      BY <2>5, <2>7, <2>9
    <3>2. Take(calls', k - 1) = Take(cs, k - 1)
      BY <2>1, <2>8, <3>1, TakeOfAppend DEF cs
    <3>3. \A r \in Seq(Byte) : IsPrefix(Take(cs, k - 1), Actions[b \o r])
      BY <2>9 DEF AckInv, cs, k, b
    <3>4. \A r \in Seq(Byte) : IsPrefix(Take(cs, k - 1), Actions[(b \o w) \o r])
      BY <2>6, <3>3
    <3> QED
      BY <2>3, <2>4, <2>9, <3>1, <3>2, <3>4 DEF AckInv
  <2>10. ASSUME k = 0
         PROVE  \A r \in Seq(Byte) : Actions[(b \o w) \o r] = cs \o Actions[w \o r]
    BY <2>6, <2>10 DEF AckInv, Reads, cs, k, b
  <2>11. CASE k = 0 /\ Fails(c)
    <3>1. FailedAt(calls') = Len(cs) + 1 /\ Len(cs) + 1 # 0 /\ Len(cs) + 1 - 1 = Len(cs)
          /\ Len(cs) \in 0 .. Len(cs)
      BY <2>5, <2>7, <2>11
    <3>2. Take(calls', Len(cs)) = cs
      BY <2>1, <2>8, <3>1, TakeOfAppend DEF cs
    <3>3. \A r \in Seq(Byte) : IsPrefix(cs, Actions[(b \o w) \o r])
      <4> TAKE r \in Seq(Byte)
      <4>1. Actions[w \o r] \in Seq(S)
        BY <2>6, <2>8
      <4>2. IsPrefix(cs, cs \o Actions[w \o r])
        BY <2>8, <4>1, PrefixOfConcat
      <4>3. Actions[(b \o w) \o r] = cs \o Actions[w \o r]
        BY <2>10, <2>11
      <4> QED
        BY <4>2, <4>3
    <3>4. Take(calls', FailedAt(calls') - 1) = cs
      BY <3>1, <3>2
    <3> QED
      BY <2>3, <2>4, <3>1, <3>3, <3>4 DEF AckInv
  <2>12. CASE k = 0 /\ ~ Fails(c)
    <3>1. FailedAt(calls') = 0
      BY <2>5, <2>12
    <3>2. ASSUME NEW r \in Seq(Byte)
          PROVE  Actions[(b \o w) \o r] = calls' \o Actions[r]
      <4>1. Actions[w \o r] = <<c>> \o Actions[r]
        BY <2>2, <2>12, FirstCall DEF w, Written
      <4>2. Actions[(b \o w) \o r] = cs \o (<<c>> \o Actions[r])
        BY <2>10, <2>12, <4>1
      <4>3. cs \o (<<c>> \o Actions[r]) = Append(cs, c) \o Actions[r]
        BY <2>8, AppendThenConcat
      <4> QED
        BY <2>1, <4>2, <4>3 DEF cs
    <3> QED
      BY <2>3, <2>4, <3>1, <3>2 DEF AckInv, Reads
  <2> QED
    BY <2>9, <2>11, <2>12
<1>2. CASE UNCHANGED <<aw, calls>>
  BY <1>2 DEF AckInv, WriterInv, Reads
<1> QED
  BY <1>1, <1>2 DEF AnswerNext, HandlerSets, WriteAck, answer

\* HAProxy reads from the ACK the actions the handler has asked for, in the order
\* of its calls and through every growth of the buffer; when a setter has failed
\* half way, at least those asked for before it.
THEOREM AckHasWhatWasSet == AnswerSpec => []AckIsWhatWasSet
<1>1. AnswerInit => AckInv
  BY AckInit DEF AnswerInit
<1>2. AckInv => AckIsWhatWasSet
  <2> SUFFICES ASSUME AckInv PROVE AckIsWhatWasSet
    OBVIOUS
  <2> DEFINE k == FailedAt(calls)
             got == Actions[aw.bytes]
             cs == calls
             b == aw.bytes
  <2>1. b \in Seq(Byte) /\ cs \in Seq(Setter) /\ <<>> \in Seq(Byte)
    BY DEF AckInv, WriterInv, Writer
  <2> HIDE DEF cs, b
  <2>2. b \o <<>> = b /\ cs \o <<>> = cs
    BY <2>1, ConcatEmpty
  <2>3. k = 0 => got = cs
    BY <2>1, <2>2, NothingIsRead DEF AckInv, Reads, b, cs
  <2>4. k # 0 => IsPrefix(Take(cs, k - 1), got)
    BY <2>1, <2>2 DEF AckInv, b, cs
  <2> QED
    BY <2>3, <2>4 DEF AckIsWhatWasSet, FailedAt, cs
<1> QED
  BY <1>1, <1>2, AckStep, PTL DEF AnswerSpec
===============================================================================

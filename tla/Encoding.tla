------------------------------- MODULE Encoding -------------------------------
(****************************************************************************)
(* What package encoding puts into a buffer and reads from it: varints,     *)
(* byte strings and typed data (pkg/encoding/varint.go, encoding.go; the    *)
(* typed data as KVWriter, ActionWriter and KVScanner have them).           *)
(*                                                                          *)
(* A buffer is a sequence of bytes.  Writing is the sequence that is        *)
(* written; whether there is room for it is left to who writes.  Numbers    *)
(* are naturals: below 2^64 their width plays no role.                      *)
(****************************************************************************)
EXTENDS Naturals, Sequences, SequencesExt

Byte == 0 .. 255

Null == 0
Bool == 1
Int32 == 2
UInt32 == 3
Int64 == 4
UInt64 == 5
Numbers == {Int32, UInt32, Int64, UInt64}
IPV4 == 6
IPV6 == 7
String == 8
Binary == 9

\* Typed data: a type, the true flag, and a value; a number is a sequence of one.
\* The flag is a bit of its own, whatever the type is.
TypedData ==
    [type : {Null, Bool}, true : BOOLEAN, val : {<<>>}]
    \cup [type : Numbers, true : BOOLEAN, val : [1 .. 1 -> Nat]]
    \cup [type : {IPV4}, true : BOOLEAN, val : [1 .. 4 -> Byte]]
    \cup [type : {IPV6}, true : BOOLEAN, val : [1 .. 16 -> Byte]]
    \cup [type : {String, Binary}, true : BOOLEAN, val : Seq(Byte)]

Drop(b, n) == SubSeq(b, n + 1, Len(b))
Take(b, n) == SubSeq(b, 1, n)

-------------------------------------------------------------------------------
(* Writing *)

\* PutVarint after the first byte.
PutRest[i \in Nat] ==
    IF i < 128 THEN <<i>> ELSE <<128 + (i % 128)>> \o PutRest[(i - 128) \div 128]

PutVarint(i) == IF i < 240 THEN <<i>>
                ELSE <<240 + (i % 16)>> \o PutRest[(i - 240) \div 16]

PutBytes(v) == PutVarint(Len(v)) \o v

\* A type with its true flag, and the value.
PutTyped(v) ==
    <<v.type + (IF v.true THEN 16 ELSE 0)>> \o
        CASE v.type \in {Null, Bool} -> <<>>
          [] v.type \in Numbers -> PutVarint(v.val[1])
          [] v.type \in {IPV4, IPV6} -> v.val
          [] v.type \in {String, Binary} -> PutBytes(v.val)

-------------------------------------------------------------------------------
(* Reading: an outcome "ok", "error" or "panic" (an index out of range), the   *)
(* value read and the rest of the buffer                                       *)

Outcome(o, val, rest) == [is |-> o, val |-> val, rest |-> rest]

\* Mutant: seven bits from the start.
FirstUnitSeven == 128

\* The first byte of a number counts up to this: the next is shifted by four bits,
\* and each one after it by seven more.
FirstUnit == 16

\* The bytes after the first, up to the first below 128, lowest first.
VarintRest[b \in Seq(Byte)] ==
    IF b = <<>> THEN Outcome("error", 0, b)
    ELSE IF Head(b) < 128 THEN Outcome("ok", Head(b), Tail(b))
    ELSE [VarintRest[Tail(b)] EXCEPT !.val = Head(b) + 128 * @]

\* Varint: the first byte counts as it is; below 240 it is all.
Varint(b) ==
    IF b = <<>> THEN Outcome("error", 0, b)
    ELSE IF Head(b) < 240 THEN Outcome("ok", Head(b), Tail(b))
    ELSE LET more == VarintRest[Tail(b)]
         IN IF more.is = "ok" THEN Outcome("ok", Head(b) + FirstUnit * more.val, more.rest)
            ELSE Outcome("error", 0, b)

\* n bytes as they are.
Fixed(b, n) == IF n > Len(b) THEN Outcome("panic", <<>>, b)
               ELSE Outcome("ok", Take(b, n), Drop(b, n))

\* A length and as many bytes.
Bytes(b) == LET l == Varint(b)
            IN IF l.is = "ok" THEN Fixed(l.rest, l.val) ELSE Outcome(l.is, <<>>, b)

\* The value of typed data of type t.
Value(t, b) ==
    LET l == Varint(b)
    IN CASE t \in {Null, Bool} -> Outcome("ok", <<>>, b)
         [] t \in Numbers -> Outcome(l.is, <<l.val>>, l.rest)
         [] t = IPV4 -> Fixed(b, 4)
         [] t = IPV6 -> Fixed(b, 16)
         [] t \in {String, Binary} -> Bytes(b)
         [] OTHER -> Outcome("error", <<>>, b)

\* Typed data: the byte of type and flag, and the value.
Typed(b) ==
    IF b = <<>> THEN Outcome("panic", [type |-> Null, true |-> FALSE, val |-> <<>>], b)
    ELSE LET t == Head(b) % 16
         IN [Value(t, Tail(b)) EXCEPT
                !.val = [type |-> t, true |-> (Head(b) \div 16) % 2 = 1, val |-> @]]
===============================================================================

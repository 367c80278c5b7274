----------------------------- MODULE ActionWriter -----------------------------
(****************************************************************************)
(* The writer a handler answers a NOTIFY with (pkg/encoding/actionwriter.go)*)
(*                                                                          *)
(* A setter writes an action in one or two parts.  For each it computes the *)
(* length, grows the buffer to it and then writes without looking; so the   *)
(* length functions must agree with the writing ones.  A setter that fails  *)
(* half way leaves the action's first part behind.                          *)
(*                                                                          *)
(* The setters for strings and for integers are each one: they hand over to *)
(* SetStringBytes and SetInt64.                                             *)
(****************************************************************************)
EXTENDS Encoding

CONSTANTS
    Calls,      \* the setter calls a handler may make
    MaxCalls,   \* how many it makes (bound)
    Rooms       \* the sizes of the buffer a writer may start with (bound)

ASSUME WriterAssumption == MaxCalls \in Nat /\ Rooms \subseteq Nat

VARIABLES
    aw,         \* the ActionWriter: data[:off], len(data), and whether data was too short
    calls       \* the setters called on it so far

Unset == 2      \* the action types
Set == 1
Invalid == 15   \* a netip.Addr that is none, as the type of its typed data

Call(action, scope, name, v) == [action |-> action, scope |-> scope, name |-> name, val |-> v]
NoValue == [type |-> Null, true |-> FALSE, val |-> <<>>]
NoAddress == [type |-> Invalid, true |-> FALSE, val |-> <<>>]

\* What a setter is called with: an address may be none.
Setter == {c \in [action : {Set, Unset}, scope : Byte, name : Seq(Byte),
                  val : TypedData \cup {NoAddress}] : c.action = Unset => c.val = NoValue}

ASSUME CallsAssumption == Calls \subseteq Setter

-------------------------------------------------------------------------------
(* Lengths *)

\* Mutant: off by one where the third byte starts.
MoreLenLate[v \in Nat] == IF v <= 128 THEN 2 ELSE 1 + MoreLenLate[(v - 128) \div 128]
VarintLenLate(v) == IF v < 240 THEN 1 ELSE MoreLenLate[(v - 240) \div 16]

\* varintLen, after the first byte.
MoreLen[v \in Nat] == IF v < 128 THEN 2 ELSE 1 + MoreLen[(v - 128) \div 128]

VarintLen(v) == IF v < 240 THEN 1 ELSE MoreLen[(v - 240) \div 16]

HeaderSize(c) == 3 + VarintLen(Len(c.name)) + Len(c.name)

\* An invalid address has no bits.
ValueSize(v) ==
    1 + CASE v.type \in {String, Binary} -> VarintLen(Len(v.val)) + Len(v.val)
          [] v.type \in Numbers -> VarintLen(v.val[1])
          [] v.type = IPV4 -> 4
          [] v.type = IPV6 -> 16
          [] OTHER -> 0

-------------------------------------------------------------------------------
(* Writing *)

\* actionHeader: type, number of arguments, scope and name.
Header(c) == <<c.action, IF c.action = Set THEN 3 ELSE 2, c.scope>> \o PutBytes(c.name)

\* Mutant: the new slice starts empty and the offset stays.
GrowAnew(w, n) ==
    IF n <= w.len - Len(w.bytes) THEN w
    ELSE [w EXCEPT !.len = LET least == Len(w.bytes) + n
                           IN IF 2 * @ < least THEN least ELSE 2 * @,
                   !.bytes = [i \in DOMAIN @ |-> 0]]

\* grow: the buffer is doubled, or made just long enough, and keeps its bytes.
Grow(w, n) ==
    IF n <= w.len - Len(w.bytes) THEN w
    ELSE [w EXCEPT !.len = LET least == Len(w.bytes) + n
                           IN IF 2 * @ < least THEN least ELSE 2 * @]

\* A part of an action: room for the n bytes it is thought to have, and the part.
\* Past the end of data there is a panic or ErrInsufficientSpace.
Write(w, n, part) ==
    LET grown == Grow(w, n)
    IN IF Len(grown.bytes) + Len(part) > grown.len
       THEN [grown EXCEPT !.full = TRUE]
       ELSE [grown EXCEPT !.bytes = @ \o part]

Fails(c) == c.action = Set /\ c.val.type = Invalid

\* Unset is a header; SetNull, SetBool, SetInt64, SetAddr, SetStringBytes and
\* SetBinary are a header and typed data.  SetAddr finds an invalid address
\* after the header, and takes nothing back.
Apply(w, c) ==
    LET headed == Write(w, HeaderSize(c), Header(c))
    IN CASE c.action = Unset \/ headed.full -> headed
         [] c.action = Set /\ Fails(c) -> Grow(headed, ValueSize(c.val))
         [] OTHER -> Write(headed, ValueSize(c.val), PutTyped(c.val))

-------------------------------------------------------------------------------

\* AcquireActionWriter, on what the frame has left.
AcquireWriter == /\ aw \in [bytes : {<<>>}, len : Rooms, full : {FALSE}]
                 /\ calls = <<>>

\* The handler calls a setter.  It has no way to report an error and may go on
\* after one.
CallSetter == /\ Len(calls) < MaxCalls
              /\ \E c \in Calls : aw' = Apply(aw, c) /\ calls' = Append(calls, c)

-------------------------------------------------------------------------------
(* HAProxy *)

\* An action is read: its type, two or three arguments, of which the last of
\* three is typed data.
Action(b) ==
    LET name == Bytes(Drop(b, 3))
        v == Typed(name.rest)
        call(x) == Call(b[1], b[3], name.val, x)
    IN CASE Len(b) < 4 \/ name.is # "ok" -> Outcome("error", <<>>, b)
         [] b[1] = Unset /\ b[2] = 2 /\ name.is = "ok" -> Outcome("ok", call(NoValue), name.rest)
         [] b[1] = Set /\ b[2] = 3 /\ name.is = "ok" -> [v EXCEPT !.val = call(@)]
         [] OTHER -> Outcome("error", <<>>, b)

\* The actions up to the end, or to what is none.
Actions[b \in Seq(Byte)] ==
    LET a == Action(b)
    IN IF a.is = "ok" THEN <<a.val>> \o Actions[a.rest] ELSE <<>>
===============================================================================

----------------------------- MODULE MessageScan -----------------------------
(****************************************************************************)
(* How a NOTIFY is taken apart: MessageScanner.Next, the handler's reads    *)
(* with KVScanner.Next, and KVScanner.Discard share one cursor into the     *)
(* frame's buffer (pkg/encoding/messagescanner.go, kvscanner.go; the loop   *)
(* is fn in protocolClient.onNotify, spop/protocol.go).                     *)
(*                                                                          *)
(* The payload is made of bytes, because the scanners of messages and of    *)
(* entries may disagree about what a byte is.  It is built with the rules   *)
(* of KVWriter in a buffer that is large enough.                            *)
(****************************************************************************)
EXTENDS Encoding

CONSTANTS
    Notifies,   \* the NOTIFYs HAProxy may send: sequences of messages
    Nil         \* Go's nil

\* An entry has a name and typed data; a message a name and entries, whose number
\* is one byte.
Data(e) == [type |-> e.type, true |-> e.true, val |-> e.val]
EntryData == {e \in [name : Seq(Byte), type : 0 .. 9, true : BOOLEAN, val : Seq(Nat)] :
                 Data(e) \in TypedData}
Message == {m \in [name : Seq(Byte), entries : Seq(EntryData)] : Len(m.entries) \in Byte}

\* An entry scanner.
Scanner == [buf : Seq(Byte), failed : BOOLEAN]

ASSUME NotifiesAssumption == Notifies \subseteq Seq(Message)
ASSUME NilAssumption == Nil \notin Scanner

VARIABLES
    notify,     \* the NOTIFY being handled
    at,         \* where fn, the loop in onNotify, is ("unmarshal", "panicked": see
                \* KVUnmarshal)
    buf,        \* MessageScanner.buf
    kv,         \* Message.KV: the entry scanner's buf and lastErr, or Nil
    seen        \* what the handler has been given: a message and its entries each

vars == <<notify, at, buf, kv, seen>>

\* KVWriter.SetNull, SetBool, SetInt32 and its like, SetAddr, SetString, SetBinary.
PutEntry(e) == PutBytes(e.name) \o PutTyped(e)

PutEntries(es) == FlattenSeq([i \in DOMAIN es |-> PutEntry(es[i])])

PutMessage(m) == PutBytes(m.name) \o <<Len(m.entries)>> \o PutEntries(m.entries)

Payload(n) == FlattenSeq([i \in DOMAIN n |-> PutMessage(n[i])])

\* KVScanner.Next on a buffer that is not empty.  left is counted and never read.
Entry(b) ==
    LET name == Bytes(b)
        v == Typed(name.rest)
    IN IF name.is # "ok" THEN name
       ELSE [v EXCEPT !.val = [name |-> name.val, type |-> v.val.type,
                               true |-> v.val.true, val |-> v.val.val]]

-------------------------------------------------------------------------------
(* The loop in onNotify *)

Init == /\ notify \in Notifies
        /\ at = "next"
        /\ buf = Payload(notify)
        /\ kv = Nil
        /\ seen = <<>>

\* What MessageScanner.Next starts from: it first skips what the entries of the
\* message before have used.
Forward == IF kv = Nil THEN buf ELSE kv.buf

\* Mutant: the last message's scanner is not given back.
LastMessageKeeps ==
    /\ at = "next" /\ Forward = <<>>
    /\ buf' = <<>>
    /\ at' = "done"
    /\ UNCHANGED <<notify, seen, kv>>

\* No message is left: the entry scanner goes back to its pool and fn returns.
LastMessage ==
    /\ at = "next" /\ Forward = <<>>
    /\ buf' = <<>>
    /\ kv' = Nil
    /\ at' = "done"
    /\ UNCHANGED <<notify, seen>>

\* A message's name and number of entries are read, and a scanner for its
\* entries is set up on the rest; what cannot be read ends the NOTIFY.
NextMessage ==
    /\ at = "next" /\ Forward # <<>>
    /\ LET name == Bytes(Forward)
           more == name.is = "ok" /\ name.rest # <<>>
       IN /\ at' = IF more THEN "handler" ELSE "failed"
          /\ buf' = IF more THEN Tail(name.rest) ELSE Forward
          /\ kv' = IF more THEN [buf |-> Tail(name.rest), failed |-> FALSE] ELSE Nil
          /\ seen' = IF more THEN Append(seen, [name |-> name.val, entries |-> <<>>]) ELSE seen
    /\ UNCHANGED notify

\* KVScanner.lastErr after an entry: a number sets it either way, an error sets
\* it, and everything else leaves it alone.
Failed(e) == CASE e.is = "error" -> TRUE
               [] e.is = "ok" /\ e.val.type \in Numbers -> FALSE
               [] OTHER -> kv.failed

\* What an entry that has been read leaves behind.
Read(e) ==
    /\ kv' = [buf |-> e.rest, failed |-> Failed(e)]
    /\ seen' = IF e.is = "ok" THEN [seen EXCEPT ![Len(seen)].entries = Append(@, e.val)]
                              ELSE seen

\* The handler reads an entry, if there is one.
HandlerReads ==
    /\ at = "handler" /\ kv.buf # <<>>
    /\ LET e == Entry(kv.buf)
       IN /\ Read(e)
          /\ at' = IF e.is = "panic" THEN "failed" ELSE at
    /\ UNCHANGED <<notify, buf>>

\* HandleSPOE returns, whatever it has read.  Discard has nothing to do at the
\* end of the buffer, even after an error.
HandlerReturns ==
    /\ at = "handler"
    /\ at' = IF kv.buf = <<>> THEN "next" ELSE "discard"
    /\ UNCHANGED <<notify, buf, kv, seen>>

\* Mutant: Discard reads one entry only.
DiscardOne ==
    /\ at = "discard"
    /\ kv' = [buf |-> Entry(kv.buf).rest, failed |-> FALSE]
    /\ at' = "next"
    /\ UNCHANGED <<notify, buf, seen>>

\* KVScanner.Discard, one entry at a time until Next says there is none.
Discard ==
    /\ at = "discard"
    /\ IF kv.buf = <<>>
       THEN /\ at' = IF kv.failed THEN "failed" ELSE "next"
            /\ UNCHANGED kv
       ELSE LET e == Entry(kv.buf)
            IN /\ kv' = [buf |-> e.rest, failed |-> Failed(e)]
               /\ at' = IF e.is = "ok" THEN at ELSE "failed"
    /\ UNCHANGED <<notify, buf, seen>>

Next == NextMessage \/ LastMessage \/ HandlerReads \/ HandlerReturns \/ Discard

Spec == Init /\ [][Next]_vars

-------------------------------------------------------------------------------
(* Properties *)

\* The scanners are where the arithmetic of MessageScanner.Next wants them: the
\* entry scanner's buffer is a suffix of the message scanner's, so that the
\* remaining length names a place in it, and it is given back at the end.
TypeOK ==
    /\ at \in {"next", "handler", "unmarshal", "discard", "done", "failed", "panicked"}
    /\ \A i \in DOMAIN buf : buf[i] \in Byte
    /\ kv # Nil => IsSuffix(kv.buf, buf)
    /\ at \in {"handler", "unmarshal", "discard"} => kv # Nil
    /\ at = "done" => kv = Nil /\ buf = <<>>

\* What the handler is given is what HAProxy has sent: message by message, entry
\* by entry, with every type and on both sides of each length of a varint.
SeenIsSent ==
    /\ Len(seen) <= Len(notify)
    /\ \A i \in DOMAIN seen : /\ seen[i].name = notify[i].name
                              /\ IsPrefix(seen[i].entries, notify[i].entries)

\* pkg/encoding/messagescanner.go:70, Next will "forward the current slice to the
\* correct position": a well-formed NOTIFY is answered after every message has
\* been given to the handler, whether it has read all, some or none of the
\* entries of those before, unless the handler panics.
EveryMessageIsHandled ==
    /\ at # "failed"
    /\ at = "done" => Len(seen) = Len(notify)
===============================================================================

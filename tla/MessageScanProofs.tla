--------------------------- MODULE MessageScanProofs ---------------------------
(****************************************************************************)
(* Theorems about the reading of a NOTIFY: MessageScan and KVUnmarshal, as  *)
(* NotifyAnswer has them.  The places of the two scanners are right for     *)
(* every NOTIFY; that what is read is what was sent holds for NOTIFYs of    *)
(* one message (notify_two shows what becomes of two).                      *)
(****************************************************************************)
EXTENDS NotifyAnswer, EncodingProofs

-------------------------------------------------------------------------------
(* What HAProxy writes *)

LEMMA EntryIsRead ==
    ASSUME NEW e \in EntryData
    PROVE  /\ PutEntry(e) \in Seq(Byte) /\ PutEntry(e) # <<>>
           /\ \A r \in Seq(Byte) : Entry(PutEntry(e) \o r) = Outcome("ok", e, r)
<1> DEFINE x == PutBytes(e.name)
           y == PutTyped(e)
<1>1. /\ e.name \in Seq(Byte) /\ Data(e) \in TypedData
      /\ e = [name |-> e.name, type |-> e.type, true |-> e.true, val |-> e.val]
  BY DEF EntryData
<1>2. y = PutTyped(Data(e))
  BY DEF PutTyped, Data
<1>3. /\ x \in Seq(Byte) /\ x # <<>> /\ y \in Seq(Byte)
      /\ \A r \in Seq(Byte) :
             /\ Bytes(x \o r) = Outcome("ok", e.name, r)
             /\ Typed(y \o r) = Outcome("ok", Data(e), r)
  <2>1. Data(e) = [type |-> Data(e).type, true |-> Data(e).true, val |-> Data(e).val]
    BY DEF Data
  <2>2. \A r \in Seq(Byte) : Typed(PutTyped(Data(e)) \o r) = Outcome("ok", Data(e), r)
    BY <1>1, <2>1, TypedDataAreRead
  <2>3. x \in Seq(Byte) /\ x # <<>>
        /\ \A r \in Seq(Byte) : Bytes(x \o r) = Outcome("ok", e.name, r)
    BY <1>1, BytesAreRead
  <2>4. PutTyped(Data(e)) \in Seq(Byte)
    <3>1. <<>> \in Seq(Byte)
      OBVIOUS
    <3> QED
      BY <1>1, <3>1, TypedDataAreRead
  <2> HIDE DEF x, y
  <2> QED
    BY <1>2, <2>2, <2>3, <2>4
<1>4. PutEntry(e) = x \o y
  BY DEF PutEntry
<1> HIDE DEF x, y
<1>5. ASSUME NEW r \in Seq(Byte)
      PROVE  Entry(PutEntry(e) \o r) = Outcome("ok", e, r)
  <2> DEFINE b == PutEntry(e) \o r
             name == Bytes(b)
             v == Typed(name.rest)
  <2>1. b = x \o (y \o r) /\ y \o r \in Seq(Byte)
    BY <1>3, <1>4, BytesAssociate
  <2>2. name = Outcome("ok", e.name, y \o r)
    BY <1>3, <2>1
  <2>3. v = Outcome("ok", Data(e), r)
    <3>1. name.rest = y \o r
      BY <2>2 DEF Outcome
    <3> QED
      BY <1>3, <3>1
  <2>4. Entry(b) = IF name.is # "ok" THEN name
                   ELSE [v EXCEPT !.val = [name |-> name.val, type |-> v.val.type,
                                           true |-> v.val.true, val |-> v.val.val]]
    BY DEF Entry
  <2> HIDE DEF b, name, v
  <2>5. name.is = "ok" /\ name.val = e.name
    BY <2>2 DEF Outcome
  <2>6. v.val.type = e.type /\ v.val.true = e.true /\ v.val.val = e.val
    BY <2>3 DEF Outcome, Data
  <2>7. Entry(b) = [v EXCEPT !.val = e]
    BY <2>4, <2>5, <2>6, <1>1
  <2>8. [Outcome("ok", Data(e), r) EXCEPT !.val = e] = Outcome("ok", e, r)
    BY DEF Outcome
  <2> QED
    BY <2>3, <2>7, <2>8 DEF b
<1>6. PutEntry(e) \in Seq(Byte) /\ PutEntry(e) # <<>>
  BY <1>3, <1>4
<1> QED
  BY <1>5, <1>6

\* A message's entries are written one after the other.
LEMMA EntriesAreWritten ==
    /\ PutEntries(<<>>) = <<>>
    /\ \A es \in Seq(EntryData) :
           es # <<>> => PutEntries(es) = PutEntry(Head(es)) \o PutEntries(Tail(es))
<1>1. PutEntries(<<>>) = <<>>
  BY DEF PutEntries, FlattenSeq
<1>2. ASSUME NEW es \in Seq(EntryData), es # <<>>
      PROVE  PutEntries(es) = PutEntry(Head(es)) \o PutEntries(Tail(es))
  <2> DEFINE n == Len(es)
             ss == [i \in 1 .. n |-> PutEntry(es[i])]
             ts == [i \in 1 .. n - 1 |-> PutEntry(Tail(es)[i])]
  <2>1. n \in Nat /\ n # 0 /\ n - 1 \in Nat /\ 1 \in 1 .. n
        /\ Tail(es) \in Seq(EntryData) /\ Len(Tail(es)) = n - 1
        /\ Head(es) = es[1] /\ \A i \in 1 .. n - 1 : Tail(es)[i] = es[i + 1]
    BY <1>2
  <2>2. \A i \in 1 .. n : PutEntry(es[i]) \in Seq(Byte)
    <3>1. \A i \in 1 .. n : es[i] \in EntryData
      OBVIOUS
    <3> QED
      BY <3>1, EntryIsRead
  <2>3. ss \in [1 .. n -> Seq(Byte)]
    BY <2>2
  <2>4. ss \in Seq(Seq(Byte)) /\ Len(ss) = n /\ ss # <<>>
    <3> HIDE DEF ss, n
    <3>1. ss \in Seq(Seq(Byte)) /\ Len(ss) = n
      BY <2>1, <2>3, SequenceOfLength
    <3> QED
      BY <2>1, <3>1
  <2>5. Head(ss) = PutEntry(Head(es))
    <3>1. ss[1] = PutEntry(es[1])
      BY <2>1
    <3> HIDE DEF ss
    <3> QED
      BY <2>1, <2>4, <3>1
  <2>6. Tail(ss) = ts
    <3>1. Tail(ss) \in Seq(Seq(Byte)) /\ Len(Tail(ss)) = n - 1
          /\ \A i \in 1 .. n - 1 : Tail(ss)[i] = ss[i + 1]
      <4> HIDE DEF ss, n
      <4> QED
        BY <2>1, <2>4
    <3>2. \A i \in 1 .. n - 1 : ss[i + 1] = PutEntry(Tail(es)[i])
      <4>1. \A i \in 1 .. n - 1 : i + 1 \in 1 .. n
        BY <2>1
      <4>2. \A i \in 1 .. n - 1 : ss[i + 1] = PutEntry(es[i + 1])
        BY <4>1
      <4> HIDE DEF ss
      <4> QED
        BY <2>1, <4>2
    <3>3. Tail(ss) = [i \in 1 .. n - 1 |-> Tail(ss)[i]]
      <4> DEFINE t == Tail(ss)
      <4> HIDE DEF ss, n, t
      <4>1. t \in Seq(Seq(Byte)) /\ Len(t) = n - 1
        BY <3>1 DEF t
      <4>2. t \in [1 .. n - 1 -> Seq(Byte)]
        BY <4>1, LenProperties
      <4> QED
        BY <4>2 DEF t
    <3> HIDE DEF ss, n
    <3> QED
      BY <3>1, <3>2, <3>3
  <2>7. PutEntries(es) = FlattenSeq(ss)
    BY DEF PutEntries
  <2>8. PutEntries(Tail(es)) = FlattenSeq(ts)
    <3>1. DOMAIN Tail(es) = 1 .. n - 1
      BY <2>1
    <3> QED
      BY <3>1 DEF PutEntries
  <2> HIDE DEF ss, ts, n
  <2> QED
    BY <2>4, <2>5, <2>6, <2>7, <2>8, FlattenHead
<1> QED
  BY <1>1, <1>2

LEMMA EntriesAreBytes ==
    \A es \in Seq(EntryData) : /\ PutEntries(es) \in Seq(Byte)
                               /\ PutEntries(es) = <<>> <=> es = <<>>
<1> DEFINE P == {n \in Nat : \A es \in Seq(EntryData) :
                     Len(es) = n => /\ PutEntries(es) \in Seq(Byte)
                                    /\ PutEntries(es) = <<>> <=> es = <<>>}
<1>1. ASSUME NEW n \in Nat, \A k \in Nat : k < n => k \in P
      PROVE  n \in P
  <2> SUFFICES ASSUME NEW es \in Seq(EntryData), Len(es) = n
               PROVE  /\ PutEntries(es) \in Seq(Byte)
                      /\ PutEntries(es) = <<>> <=> es = <<>>
    OBVIOUS
  <2>1. CASE es = <<>>
    <3>1. PutEntries(es) = <<>>
      BY <2>1, EntriesAreWritten
    <3>2. <<>> \in Seq(Byte)
      OBVIOUS
    <3> QED
      BY <2>1, <3>1, <3>2
  <2>2. CASE es # <<>>
    <3>1. Head(es) \in EntryData /\ Tail(es) \in Seq(EntryData)
          /\ Len(Tail(es)) \in Nat /\ Len(Tail(es)) < n
      BY <2>2, TailShrinks
    <3>2. PutEntries(Tail(es)) \in Seq(Byte)
      BY <3>1, <1>1
    <3>3. PutEntry(Head(es)) \in Seq(Byte) /\ PutEntry(Head(es)) # <<>>
      BY <3>1, EntryIsRead
    <3>4. PutEntries(es) = PutEntry(Head(es)) \o PutEntries(Tail(es))
      BY <2>2, EntriesAreWritten
    <3> DEFINE x == PutEntry(Head(es))
               y == PutEntries(Tail(es))
    <3> HIDE DEF x, y
    <3>5. x \o y \in Seq(Byte) /\ x \o y # <<>>
      BY <3>2, <3>3 DEF x, y
    <3> QED
      BY <2>2, <3>4, <3>5 DEF x, y
  <2> QED
    BY <2>1, <2>2
<1> HIDE DEF P
<1>2. Nat \subseteq P
  BY <1>1, Induction
<1>3. ASSUME NEW es \in Seq(EntryData)
      PROVE  /\ PutEntries(es) \in Seq(Byte)
             /\ PutEntries(es) = <<>> <=> es = <<>>
  <2>1. Len(es) \in P
    BY <1>2
  <2> QED
    BY <2>1 DEF P
<1> QED
  BY <1>3

\* The first entry that is left is read, and leaves the others.
LEMMA FirstIsRead ==
    ASSUME NEW es \in Seq(EntryData), NEW k \in 0 .. Len(es), Drop(es, k) # <<>>
    PROVE  /\ k + 1 \in 0 .. Len(es)
           /\ es[k + 1] \in EntryData
           /\ Entry(PutEntries(Drop(es, k))) = Outcome("ok", es[k + 1], PutEntries(Drop(es, k + 1)))
<1> DEFINE d == Drop(es, k)
<1>1. k < Len(es) /\ d \in Seq(EntryData) /\ Head(d) = es[k + 1] /\ Tail(d) = Drop(es, k + 1)
  BY DEF Drop
<1>2. d # <<>>
  OBVIOUS
<1> HIDE DEF d
<1>3. PutEntries(d) = PutEntry(Head(d)) \o PutEntries(Tail(d))
  BY <1>1, <1>2, EntriesAreWritten
<1>4. Head(d) \in EntryData /\ Tail(d) \in Seq(EntryData)
  BY <1>1, <1>2, TailShrinks
<1>5. PutEntries(Tail(d)) \in Seq(Byte)
  BY <1>4, EntriesAreBytes
<1>6. Entry(PutEntries(d)) = Outcome("ok", Head(d), PutEntries(Tail(d)))
  BY <1>3, <1>4, <1>5, EntryIsRead
<1>7. k + 1 \in 0 .. Len(es) /\ es[k + 1] \in EntryData
  BY <1>1
<1> QED
  BY <1>1, <1>6, <1>7 DEF d

LEMMA MessageIsWritten ==
    ASSUME NEW m \in Message
    PROVE  /\ m.name \in Seq(Byte) /\ m.entries \in Seq(EntryData)
           /\ PutMessage(m) \in Seq(Byte) /\ PutMessage(m) # <<>>
           /\ Bytes(PutMessage(m)) =
                  Outcome("ok", m.name, <<Len(m.entries)>> \o PutEntries(m.entries))
<1> DEFINE x == PutBytes(m.name)
           c == <<Len(m.entries)>>
           y == PutEntries(m.entries)
<1>1. m.name \in Seq(Byte) /\ m.entries \in Seq(EntryData) /\ Len(m.entries) \in Byte
  BY DEF Message
<1>2. c \in Seq(Byte) /\ y \in Seq(Byte)
  BY <1>1, EntriesAreBytes
<1> HIDE DEF c, y
<1>3. c \o y \in Seq(Byte)
  BY <1>2
<1>4. x \in Seq(Byte) /\ x # <<>> /\ Bytes(x \o (c \o y)) = Outcome("ok", m.name, c \o y)
  BY <1>1, <1>3, BytesAreRead
<1>5. PutMessage(m) = (x \o c) \o y
  BY DEF PutMessage, c, y
<1> HIDE DEF x
<1>6. (x \o c) \o y = x \o (c \o y)
  BY <1>2, <1>4, BytesAssociate
<1>7. x \o (c \o y) \in Seq(Byte) /\ x \o (c \o y) # <<>>
  BY <1>3, <1>4
<1> QED
  BY <1>1, <1>4, <1>5, <1>6, <1>7 DEF c, y

LEMMA PayloadIsWritten ==
    ASSUME NEW n \in Seq(Message)
    PROVE  /\ Payload(n) \in Seq(Byte)
           /\ Len(n) = 0 => Payload(n) = <<>>
           /\ Len(n) = 1 => n[1] \in Message /\ Payload(n) = PutMessage(n[1])
<1> DEFINE k == Len(n)
           ss == [i \in 1 .. k |-> PutMessage(n[i])]
<1>1. k \in Nat /\ \A i \in 1 .. k : n[i] \in Message
  OBVIOUS
<1>2. ss \in [1 .. k -> Seq(Byte)]
  BY <1>1, MessageIsWritten
<1>3. Payload(n) = FlattenSeq(ss)
  BY DEF Payload
<1>4. ss \in Seq(Seq(Byte)) /\ Len(ss) = k
  <2> HIDE DEF ss, k
  <2> QED
    BY <1>1, <1>2, SequenceOfLength
<1>5. CASE k = 0
  <2>1. ss = <<>>
    <3> HIDE DEF ss, k
    <3> QED
      BY <1>4, <1>5, EmptySeq
  <2> HIDE DEF ss
  <2>2. Payload(n) = <<>> /\ <<>> \in Seq(Byte)
    BY <1>3, <2>1 DEF FlattenSeq
  <2> QED
    BY <1>5, <2>2
<1>6. CASE k # 0
  <2> HIDE DEF ss, k
  <2>1. ss # <<>> /\ ss[1] = Head(ss) /\ Head(ss) \in Seq(Byte)
    BY <1>1, <1>4, <1>6
  <2>2. /\ FlattenSeq(Tail(ss)) \in Seq(Byte)
        /\ FlattenSeq(ss) = Head(ss) \o FlattenSeq(Tail(ss))
    BY <1>4, <2>1, FlattenHead
  <2>3. Payload(n) \in Seq(Byte)
    BY <1>3, <2>1, <2>2, ConcatBytes
  <2>4. ASSUME k = 1
        PROVE  n[1] \in Message /\ Payload(n) = PutMessage(n[1])
    <3>1. Tail(ss) = <<>>
      BY <1>4, <2>1, <2>4, OneLeft
    <3>2. FlattenSeq(Tail(ss)) = <<>>
      BY <3>1 DEF FlattenSeq
    <3>3. 1 \in 1 .. k
      BY <2>4
    <3>4. n[1] \in Message /\ ss[1] = PutMessage(n[1])
      BY <1>1, <3>3 DEF ss
    <3>5. Head(ss) \o <<>> = Head(ss)
      BY <2>1, ConcatEmpty
    <3> QED
      BY <1>3, <2>1, <2>2, <3>2, <3>4, <3>5
  <2> QED
    BY <1>6, <2>3, <2>4 DEF k
<1> QED
  BY <1>5, <1>6

-------------------------------------------------------------------------------
(* The scanners, for every NOTIFY *)

\* An entry of any buffer leaves a part of its end.
LEMMA EntryLeaves ==
    ASSUME NEW b \in Seq(Byte)
    PROVE  Entry(b).is \in Ways /\ Leaves(Entry(b), b)
<1> DEFINE name == Bytes(b)
           v == Typed(name.rest)
<1>1. name.is \in Ways /\ Leaves(name, b)
  BY BytesLeave
<1>2. name.rest \in Seq(Byte) /\ Suffix(name.rest, b)
  BY <1>1 DEF Leaves
<1>3. v.is \in Ways /\ v.rest \in Seq(Byte) /\ Suffix(v.rest, b)
  <2>1. v.is \in Ways /\ v.rest \in Seq(Byte) /\ Suffix(v.rest, name.rest)
    BY <1>2, TypedLeaves DEF Leaves
  <2> HIDE DEF name, v
  <2> QED
    BY <1>2, <2>1, SuffixOfSuffix
<1>4. Entry(b) = IF name.is # "ok" THEN name
                 ELSE [v EXCEPT !.val = [name |-> name.val, type |-> v.val.type,
                                         true |-> v.val.true, val |-> v.val.val]]
  BY DEF Entry
<1>5. "is" \in DOMAIN v /\ "rest" \in DOMAIN v
  BY <1>2, OutcomeFields
<1> HIDE DEF name, v
<1> QED
  BY <1>1, <1>3, <1>4, <1>5 DEF Leaves

\* The invariant of the places: everything of TypeOK, with the types it rests on.
ScanTypes ==
    /\ notify \in Seq(Message)
    /\ at \in {"next", "handler", "unmarshal", "discard", "done", "failed", "panicked"}
    /\ buf \in Seq(Byte)
    /\ kv \in Scanner \cup {Nil}
    /\ kv # Nil => Suffix(kv.buf, buf)
    /\ at \in {"handler", "unmarshal", "discard"} => kv # Nil
    /\ at = "done" => kv = Nil /\ buf = <<>>

LEMMA ScanTypesInit == Init => ScanTypes
<1> SUFFICES ASSUME Init PROVE ScanTypes
  OBVIOUS
<1>1. notify \in Seq(Message)
  BY NotifiesAssumption DEF Init
<1>2. buf \in Seq(Byte)
  BY <1>1, PayloadIsWritten DEF Init
<1> QED
  BY <1>1, <1>2 DEF Init, ScanTypes

LEMMA FailedIsBoolean ==
    ASSUME NEW e, kv.failed \in BOOLEAN PROVE Failed(e) \in BOOLEAN
  BY DEF Failed

\* A step that reads an entry.
LEMMA ReadKeepsTypes ==
    ASSUME ScanTypes, kv # Nil, NEW e, e = Entry(kv.buf),
           kv' = [buf |-> e.rest, failed |-> Failed(e)], buf' = buf
    PROVE  /\ e.is \in Ways
           /\ kv' \in Scanner /\ kv' # Nil
           /\ Suffix(kv'.buf, buf')
<1>1. kv.buf \in Seq(Byte) /\ kv.failed \in BOOLEAN /\ Suffix(kv.buf, buf) /\ buf \in Seq(Byte)
  BY DEF ScanTypes, Scanner
<1>2. e.is \in Ways /\ e.rest \in Seq(Byte) /\ Suffix(e.rest, kv.buf)
  BY <1>1, EntryLeaves DEF Leaves
<1>3. kv' \in Scanner /\ kv'.buf = e.rest
  BY <1>1, <1>2, FailedIsBoolean DEF Scanner
<1>4. Suffix(e.rest, buf)
  BY <1>1, <1>2, SuffixOfSuffix
<1> QED
  BY <1>2, <1>3, <1>4, NilAssumption

LEMMA ScanTypesStep == ScanTypes /\ [AnswerNext]_<<vars, struct, answer>> => ScanTypes'
<1> SUFFICES ASSUME ScanTypes, [AnswerNext]_<<vars, struct, answer>>
             PROVE  ScanTypes'
  OBVIOUS
<1>1. CASE NextMessage
  <2> DEFINE name == Bytes(Forward)
             more == name.is = "ok" /\ name.rest # <<>>
  <2>1. Forward \in Seq(Byte)
    BY DEF ScanTypes, Scanner, Forward
  <2>2. name.is \in Ways /\ name.rest \in Seq(Byte)
    BY <2>1, BytesLeave DEF Leaves
  <2>3. /\ at' = IF more THEN "handler" ELSE "failed"
        /\ buf' = IF more THEN Tail(name.rest) ELSE Forward
        /\ kv' = IF more THEN [buf |-> Tail(name.rest), failed |-> FALSE] ELSE Nil
        /\ notify' = notify
    BY <1>1 DEF NextMessage
  <2> HIDE DEF name
  <2>4. CASE more
    <3>1. Tail(name.rest) \in Seq(Byte)
      BY <2>2, <2>4
    <3>2. kv' \in Scanner /\ kv'.buf = buf' /\ buf' \in Seq(Byte)
      BY <2>3, <2>4, <3>1 DEF Scanner
    <3> QED
      BY <2>3, <2>4, <3>2, SuffixItself, NilAssumption DEF ScanTypes
  <2>5. CASE ~ more
    BY <2>1, <2>3, <2>5 DEF ScanTypes
  <2> QED
    BY <2>4, <2>5
<1>2. CASE LastMessage
  BY <1>2 DEF LastMessage, ScanTypes
<1>3. CASE HandlerReads
  <2> DEFINE e == Entry(kv.buf)
  <2>1. kv # Nil /\ kv' = [buf |-> e.rest, failed |-> Failed(e)] /\ buf' = buf
        /\ notify' = notify /\ at' \in {"handler", "failed"}
    BY <1>3 DEF HandlerReads, Read, ScanTypes
  <2>2. kv' \in Scanner /\ kv' # Nil /\ Suffix(kv'.buf, buf')
    BY <2>1, ReadKeepsTypes
  <2> QED
    BY <2>1, <2>2 DEF ScanTypes
<1>4. CASE HandlerReturns
  BY <1>4 DEF HandlerReturns, ScanTypes
<1>5. CASE Discard
  <2>1. CASE kv.buf = <<>>
    BY <1>5, <2>1 DEF Discard, ScanTypes
  <2>2. CASE kv.buf # <<>>
    <3> DEFINE e == Entry(kv.buf)
    <3>1. kv # Nil /\ kv' = [buf |-> e.rest, failed |-> Failed(e)] /\ buf' = buf
          /\ notify' = notify /\ at' \in {"discard", "failed"}
      BY <1>5, <2>2 DEF Discard, ScanTypes
    <3>2. kv' \in Scanner /\ kv' # Nil /\ Suffix(kv'.buf, buf')
      BY <3>1, ReadKeepsTypes
    <3> QED
      BY <3>1, <3>2 DEF ScanTypes
  <2> QED
    BY <2>1, <2>2
<1>6. CASE HandlerUnmarshals
  BY <1>6 DEF HandlerUnmarshals, ScanTypes
<1>7. CASE UnmarshalNext
  <2> DEFINE e == Entry(kv.buf)
  <2>1. kv # Nil /\ kv' = [buf |-> e.rest, failed |-> Failed(e)] /\ buf' = buf
        /\ notify' = notify /\ at' \in {"handler", "unmarshal", "failed"}
    BY <1>7 DEF UnmarshalNext, Read, ScanTypes
  <2>2. kv' \in Scanner /\ kv' # Nil /\ Suffix(kv'.buf, buf')
    BY <2>1, ReadKeepsTypes
  <2> QED
    BY <2>1, <2>2 DEF ScanTypes
<1>8. CASE UnmarshalEnds
  BY <1>8 DEF UnmarshalEnds, ScanTypes
<1>9. CASE UNCHANGED vars
  BY <1>9 DEF vars, ScanTypes
<1> QED
  BY <1>1, <1>2, <1>3, <1>4, <1>5, <1>6, <1>7, <1>8, <1>9
     DEF AnswerNext, HandlerNext, Next, HandlerSets, WriteAck

\* The scanners of messages and of entries keep their places in one buffer: the
\* remaining length of the one names a place in the other's (messagescanner.go:72),
\* for every NOTIFY, well read or not, and the entry scanner is given back.
THEOREM ScannersKeepTheirPlaces == AnswerSpec => []TypeOK
<1>1. AnswerInit => ScanTypes
  BY ScanTypesInit DEF AnswerInit
<1>2. ScanTypes => TypeOK
  <2> SUFFICES ASSUME ScanTypes PROVE TypeOK
    OBVIOUS
  <2>1. kv # Nil => IsSuffix(kv.buf, buf)
    BY SuffixIs DEF ScanTypes, Scanner
  <2>2. \A i \in DOMAIN buf : buf[i] \in Byte
    BY DEF ScanTypes
  <2> QED
    BY <2>1, <2>2 DEF ScanTypes, TypeOK
<1> QED
  BY <1>1, <1>2, ScanTypesStep, PTL DEF AnswerSpec

-------------------------------------------------------------------------------
(* A NOTIFY of at most one message *)

Sent == notify[1].entries

\* The handler has been given the message and its first r entries.
Given1(r) == seen = <<[name |-> notify[1].name, entries |-> Take(Sent, r)]>>

\* The entry scanner is before entry k + 1, and has not failed.
Before(k) == kv = [buf |-> PutEntries(Drop(Sent, k)), failed |-> FALSE]

\* The message is being handled: its scanner is where the handler has read to,
\* or beyond while the rest is discarded, and at the end for the next message; it
\* goes no further when the handler has panicked.
Handled ==
    \E r, k \in 0 .. Len(Sent) :
        /\ Given1(r) /\ Before(k)
        /\ at \in {"handler", "unmarshal", "discard", "next", "panicked"}
        /\ at \in {"handler", "unmarshal"} => k = r
        /\ at = "next" => k = Len(Sent)

Waiting == at = "next" /\ kv = Nil /\ seen = <<>> /\ buf = Payload(notify)

Done == /\ at = "done"
        /\ IF notify = <<>> THEN seen = <<>>
           ELSE \E r \in 0 .. Len(Sent) : Given1(r)

\* The invariant: SeenIsSent and EveryMessageIsHandled do not say where the
\* scanner is, and the next entry that is read is the next one of the message
\* only because it is where the last one ended.
OneInv == /\ notify \in Seq(Message) /\ Len(notify) <= 1
          /\ Waiting \/ (notify # <<>> /\ Handled) \/ Done

LEMMA OneInvInit == Init /\ Len(notify) <= 1 => OneInv
  BY NotifiesAssumption DEF Init, OneInv, Waiting

LEMMA OnlyMessage ==
    ASSUME OneInv, notify # <<>>
    PROVE  /\ Len(notify) = 1 /\ notify[1] \in Message
           /\ Sent \in Seq(EntryData) /\ Len(Sent) \in Nat
           /\ Payload(notify) = PutMessage(notify[1])
<1>1. notify \in Seq(Message) /\ Len(notify) <= 1
  BY DEF OneInv
<1>2. Len(notify) = 1
  <2>1. Len(notify) \in Nat
    BY <1>1
  <2>2. Len(notify) # 0
    BY <1>1, EmptySeq, Zenon
  <2>3. \A n \in Nat : n <= 1 /\ n # 0 => n = 1
    OBVIOUS
  <2> QED
    BY <1>1, <2>1, <2>2, <2>3, Zenon
<1>3. notify[1] \in Message /\ Payload(notify) = PutMessage(notify[1])
  BY <1>1, <1>2, PayloadIsWritten
<1>4. notify[1].entries \in Seq(EntryData)
  BY <1>3, MessageIsWritten
<1>5. Sent \in Seq(EntryData)
  BY <1>4 DEF Sent
<1> QED
  BY <1>2, <1>3, <1>5

\* No entry is left where the scanner's buffer ends.
LEMMA NoneIsLeft ==
    ASSUME OneInv, notify # <<>>, NEW k \in 0 .. Len(Sent), Before(k)
    PROVE  /\ kv.buf = <<>> <=> k = Len(Sent)
           /\ kv.failed = FALSE /\ kv # Nil
           /\ kv.buf # <<>> => Drop(Sent, k) # <<>>
<1>1. Sent \in Seq(EntryData) /\ Len(Sent) \in Nat
  BY OnlyMessage
<1> DEFINE d == Drop(Sent, k)
<1>2. d \in Seq(EntryData) /\ (d = <<>> <=> k = Len(Sent))
  <2>1. d \in Seq(EntryData) /\ Len(d) = Len(Sent) - k
    BY <1>1 DEF Drop
  <2> HIDE DEF d
  <2>2. d = <<>> <=> Len(d) = 0
    BY <2>1, EmptySeq
  <2> QED
    BY <1>1, <2>1, <2>2
<1>3. kv.buf = PutEntries(d) /\ kv.failed = FALSE
  BY DEF Before
<1> HIDE DEF d
<1>4. PutEntries(d) \in Seq(Byte) /\ (PutEntries(d) = <<>> <=> d = <<>>)
  BY <1>2, EntriesAreBytes
<1>5. kv \in Scanner
  BY <1>3, <1>4 DEF Before, Scanner, d
<1> QED
  BY <1>2, <1>3, <1>4, <1>5, NilAssumption DEF d

LEMMA NextIsRead ==
    ASSUME OneInv, notify # <<>>, NEW k \in 0 .. Len(Sent), Before(k), kv.buf # <<>>
    PROVE  /\ k + 1 \in 0 .. Len(Sent) /\ Sent[k + 1] \in EntryData
           /\ Entry(kv.buf).is = "ok" /\ Entry(kv.buf).val = Sent[k + 1]
           /\ Entry(kv.buf).rest = PutEntries(Drop(Sent, k + 1))
           /\ Failed(Entry(kv.buf)) = FALSE
<1>1. Sent \in Seq(EntryData) /\ Drop(Sent, k) # <<>> /\ kv.failed = FALSE
  BY OnlyMessage, NoneIsLeft
<1>2. kv.buf = PutEntries(Drop(Sent, k))
  BY DEF Before
<1> DEFINE e == Entry(kv.buf)
<1>3. /\ k + 1 \in 0 .. Len(Sent) /\ Sent[k + 1] \in EntryData
      /\ e = Outcome("ok", Sent[k + 1], PutEntries(Drop(Sent, k + 1)))
  BY <1>1, <1>2, FirstIsRead
<1> HIDE DEF e
<1>4. e.is = "ok" /\ e.val = Sent[k + 1] /\ e.rest = PutEntries(Drop(Sent, k + 1))
  BY <1>3 DEF Outcome
<1>5. Failed(e) = FALSE
  BY <1>1, <1>4 DEF Failed
<1> QED
  BY <1>3, <1>4, <1>5 DEF e

\* What HandlerReads and UnmarshalNext have in common.
LEMMA OneIsRead ==
    ASSUME OneInv, notify # <<>>, NEW r \in 0 .. Len(Sent), Given1(r), Before(r),
           kv.buf # <<>>, Read(Entry(kv.buf)), notify' = notify
    PROVE  r + 1 \in 0 .. Len(Sent) /\ Given1(r + 1)' /\ Before(r + 1)'
<1> DEFINE e == Entry(kv.buf)
           es == Sent
           t == Take(Sent, r)
<1>1. /\ r + 1 \in 0 .. Len(Sent) /\ Sent[r + 1] \in EntryData
      /\ e.is = "ok" /\ e.val = Sent[r + 1]
      /\ e.rest = PutEntries(Drop(Sent, r + 1)) /\ Failed(e) = FALSE
  BY NextIsRead
<1>2. Sent' = Sent
  BY DEF Sent
<1>3. Before(r + 1)'
  BY <1>1, <1>2 DEF Read, Before
<1>4. Append(t, Sent[r + 1]) = Take(Sent, r + 1)
  <2>1. es \in Seq(EntryData)
    BY OnlyMessage
  <2>2. r + 1 \in 1 .. Len(es) /\ r \in Nat
    BY <1>1
  <2> HIDE DEF es
  <2>3. Append(SubSeq(es, 1, r), es[r + 1]) = SubSeq(es, 1, r + 1)
    BY <2>1, <2>2
  <2> QED
    BY <2>3 DEF es, Take
<1>5. seen = <<[name |-> notify[1].name, entries |-> t]>>
  BY DEF Given1
<1>6. seen' = [seen EXCEPT ![Len(seen)].entries = Append(@, e.val)]
  BY <1>1 DEF Read
<1> HIDE DEF e, t
<1>7. seen' = <<[name |-> notify[1].name, entries |-> Append(t, e.val)]>>
  <2> DEFINE m == [name |-> notify[1].name, entries |-> t]
             x == [m EXCEPT !.entries = Append(t, e.val)]
  <2>1. Len(seen) = 1 /\ seen[1] = m /\ m.entries = t
    BY <1>5
  <2>2. seen' = [<<m>> EXCEPT ![1] = x]
    BY <1>5, <1>6, <2>1
  <2>3. x = [name |-> notify[1].name, entries |-> Append(t, e.val)]
    <3>1. ASSUME NEW n, NEW a, NEW b
          PROVE  [[name |-> n, entries |-> a] EXCEPT !.entries = b] =
                     [name |-> n, entries |-> b]
      OBVIOUS
    <3> QED
      BY <3>1, Zenon
  <2> HIDE DEF m, x
  <2>4. [<<m>> EXCEPT ![1] = x] = <<x>>
    OBVIOUS
  <2> QED
    BY <2>2, <2>3, <2>4
<1>8. Given1(r + 1)'
  BY <1>1, <1>2, <1>4, <1>7 DEF Given1
<1> QED
  BY <1>1, <1>3, <1>8

\* The message and its number of entries are read from what HAProxy has sent.
LEMMA MessageIsRead ==
    ASSUME OneInv, notify # <<>>
    PROVE  LET name == Bytes(Payload(notify))
           IN /\ name.is = "ok" /\ name.val = notify[1].name
              /\ name.rest # <<>> /\ Tail(name.rest) = PutEntries(Drop(Sent, 0))
              /\ Payload(notify) # <<>>
<1> DEFINE name == Bytes(Payload(notify))
           c == Len(Sent)
           y == PutEntries(Sent)
<1>1. /\ notify[1] \in Message /\ Sent \in Seq(EntryData)
      /\ Payload(notify) = PutMessage(notify[1])
  BY OnlyMessage
<1>2. name = Outcome("ok", notify[1].name, <<c>> \o y) /\ Payload(notify) # <<>>
  BY <1>1, MessageIsWritten DEF Sent
<1>3. y \in Seq(Byte) /\ c \in Byte
  BY <1>1, EntriesAreBytes DEF Message, Sent
<1>4. y = PutEntries(Drop(Sent, 0))
  <2>1. Drop(Sent, 0) = Sent
    <3> DEFINE es == Sent
    <3>1. es \in Seq(EntryData)
      BY <1>1
    <3> HIDE DEF es
    <3>2. SubSeq(es, 0 + 1, Len(es)) = es
      BY <3>1
    <3> QED
      BY <3>2 DEF Drop, es
  <2> QED
    BY <2>1
<1> HIDE DEF name, c, y
<1>5. name.is = "ok" /\ name.val = notify[1].name /\ name.rest = <<c>> \o y
  BY <1>2 DEF Outcome
<1>6. <<c>> \o y # <<>> /\ Tail(<<c>> \o y) = y
  BY <1>3, ConcatHead
<1> QED
  BY <1>2, <1>4, <1>5, <1>6 DEF name

LEMMA OneInvStep == OneInv /\ [AnswerNext]_<<vars, struct, answer>> => OneInv'
<1> SUFFICES ASSUME OneInv, [AnswerNext]_<<vars, struct, answer>>
             PROVE  OneInv'
  OBVIOUS
<1>0. /\ notify \in Seq(Message) /\ Len(notify) <= 1
      /\ Waiting \/ (notify # <<>> /\ Handled) \/ Done
  BY DEF OneInv
<1>a. notify = <<>> => Payload(notify) = <<>>
  <2>1. notify = <<>> => Len(notify) = 0
    OBVIOUS
  <2> QED
    BY <1>0, <2>1, PayloadIsWritten, Zenon
<1>b. ASSUME notify' = notify, notify # <<>>, Handled' \/ Done' PROVE OneInv'
  BY <1>0, <1>b DEF OneInv
<1>1. CASE NextMessage
  <2> DEFINE name == Bytes(Forward)
             more == name.is = "ok" /\ name.rest # <<>>
  <2>1. /\ at = "next" /\ Forward # <<>> /\ notify' = notify
        /\ at' = IF more THEN "handler" ELSE "failed"
        /\ kv' = IF more THEN [buf |-> Tail(name.rest), failed |-> FALSE] ELSE Nil
        /\ seen' = IF more THEN Append(seen, [name |-> name.val, entries |-> <<>>]) ELSE seen
    BY <1>1 DEF NextMessage
  <2>2. Waiting
    <3>1. ~ (notify # <<>> /\ Handled)
      <4> SUFFICES ASSUME notify # <<>>, Handled PROVE FALSE
        OBVIOUS
      <4>1. PICK r \in 0 .. Len(Sent), k \in 0 .. Len(Sent) : Before(k) /\ k = Len(Sent)
        BY <2>1 DEF Handled
      <4>2. kv.buf = <<>> /\ kv # Nil
        BY <4>1, NoneIsLeft
      <4> QED
        BY <2>1, <4>2 DEF Forward
    <3>2. ~ Done
      BY <2>1 DEF Done
    <3> QED
      BY <1>0, <3>1, <3>2
  <2>3. Forward = Payload(notify) /\ seen = <<>> /\ notify # <<>>
    BY <1>a, <2>1, <2>2 DEF Forward, Waiting
  <2>4. /\ name.is = "ok" /\ name.val = notify[1].name
        /\ name.rest # <<>> /\ Tail(name.rest) = PutEntries(Drop(Sent, 0))
    BY <2>3, MessageIsRead
  <2>5. /\ at' = "handler"
        /\ kv' = [buf |-> PutEntries(Drop(Sent, 0)), failed |-> FALSE]
        /\ seen' = Append(seen, [name |-> notify[1].name, entries |-> <<>>])
    BY <2>1, <2>4
  <2> HIDE DEF name
  <2>6. Take(Sent, 0) = <<>> /\ 0 \in 0 .. Len(Sent)
    <3> DEFINE es == Sent
    <3>1. es \in Seq(EntryData)
      BY <2>3, OnlyMessage
    <3> HIDE DEF es
    <3>2. SubSeq(es, 1, 0) = <<>> /\ 0 \in 0 .. Len(es)
      BY <3>1
    <3> QED
      BY <3>2 DEF Take, es
  <2>7. Sent' = Sent
    BY <2>1 DEF Sent
  <2>8. Given1(0)' /\ Before(0)'
    <3>1. seen' = <<[name |-> notify[1].name, entries |-> Take(Sent, 0)]>>
      BY <2>3, <2>5, <2>6
    <3>2. Given1(0)'
      BY <2>1, <2>7, <3>1 DEF Given1
    <3>3. Before(0)'
      BY <2>5, <2>7 DEF Before
    <3> QED
      BY <3>2, <3>3
  <2>9. Handled'
    BY <2>5, <2>6, <2>7, <2>8 DEF Handled
  <2> QED
    BY <1>b, <2>1, <2>3, <2>9
<1>2. CASE LastMessage
  <2>1. at = "next" /\ Forward = <<>> /\ at' = "done" /\ UNCHANGED <<notify, seen>>
    BY <1>2 DEF LastMessage
  <2>2. CASE notify = <<>>
    <3>1. ~ Done
      BY <2>1 DEF Done
    <3>2. seen = <<>>
      BY <1>0, <2>2, <3>1 DEF Waiting
    <3>3. Done'
      BY <2>1, <2>2, <3>2 DEF Done
    <3> QED
      BY <1>0, <2>1, <3>3 DEF OneInv
  <2>3. CASE notify # <<>>
    <3>1. ~ Waiting
      BY <2>1, <2>3, MessageIsRead DEF Waiting, Forward
    <3>2. Handled
      BY <1>0, <2>1, <3>1 DEF Done
    <3>3. PICK r \in 0 .. Len(Sent) : Given1(r)
      BY <3>2 DEF Handled
    <3>4. Sent' = Sent /\ Given1(r)'
      BY <2>1, <3>3 DEF Sent, Given1
    <3>5. Done'
      BY <2>1, <2>3, <3>4 DEF Done
    <3> QED
      BY <1>b, <2>1, <2>3, <3>5
  <2> QED
    BY <2>2, <2>3
<1>3. ASSUME at \in {"handler", "unmarshal", "discard"}
      PROVE  notify # <<>> /\ Handled
  BY <1>0, <1>3 DEF Waiting, Done
<1>4. ASSUME at \in {"handler", "unmarshal"}, notify' = notify, kv.buf # <<>>,
             Read(Entry(kv.buf)), at' \in {"handler", "unmarshal"}
      PROVE  OneInv'
  <2>1. PICK r \in 0 .. Len(Sent) : Given1(r) /\ Before(r)
    BY <1>3, <1>4 DEF Handled
  <2>2. r + 1 \in 0 .. Len(Sent) /\ Given1(r + 1)' /\ Before(r + 1)'
    BY <1>3, <1>4, <2>1, OneIsRead
  <2>3. Sent' = Sent
    BY <1>4 DEF Sent
  <2> DEFINE q == r + 1
  <2> HIDE DEF q
  <2>4. q \in 0 .. Len(Sent') /\ Given1(q)' /\ Before(q)'
    BY <2>2, <2>3 DEF q
  <2>5. Handled'
    BY <1>4, <2>4 DEF Handled
  <2> QED
    BY <1>3, <1>4, <1>b, <2>5
<1>5. ASSUME at \in {"handler", "unmarshal"}, kv.buf # <<>>
      PROVE  Entry(kv.buf).is = "ok"
  <2>1. PICK r \in 0 .. Len(Sent) : Before(r)
    BY <1>3, <1>5 DEF Handled
  <2> QED
    BY <1>3, <1>5, <2>1, NextIsRead
<1>6. CASE HandlerReads
  <2>1. /\ at = "handler" /\ kv.buf # <<>> /\ notify' = notify /\ Read(Entry(kv.buf))
        /\ at' = IF Entry(kv.buf).is = "panic" THEN "failed" ELSE at
    BY <1>6 DEF HandlerReads
  <2>2. at' = "handler"
    BY <1>5, <2>1
  <2> QED
    BY <1>4, <2>1, <2>2
<1>7. CASE UnmarshalNext
  <2>1. /\ at = "unmarshal" /\ kv.buf # <<>> /\ notify' = notify /\ Read(Entry(kv.buf))
        /\ at' \in {"handler", "unmarshal"} \/ Entry(kv.buf).is = "panic"
    BY <1>7 DEF UnmarshalNext
  <2>2. at' \in {"handler", "unmarshal"}
    BY <1>5, <2>1
  <2> QED
    BY <1>4, <2>1, <2>2
<1>8. ASSUME at \in {"handler", "unmarshal"}, UNCHANGED <<notify, kv, seen>>,
             \/ at' \in {"handler", "unmarshal", "panicked"}
             \/ at' = IF kv.buf = <<>> THEN "next" ELSE "discard"
      PROVE  OneInv'
  <2>1. PICK r \in 0 .. Len(Sent) : Given1(r) /\ Before(r)
    BY <1>3, <1>8 DEF Handled
  <2>2. Sent' = Sent /\ Given1(r)' /\ Before(r)'
    BY <1>8, <2>1 DEF Sent, Given1, Before
  <2>3. ASSUME kv.buf = <<>> PROVE r = Len(Sent)
    BY <1>3, <1>8, <2>1, <2>3, NoneIsLeft
  <2>4. Handled'
    BY <1>8, <2>2, <2>3 DEF Handled
  <2> QED
    BY <1>3, <1>8, <1>b, <2>4
<1>9. CASE HandlerReturns
  BY <1>8, <1>9 DEF HandlerReturns
<1>10. CASE HandlerUnmarshals
  BY <1>8, <1>10 DEF HandlerUnmarshals
<1>11. CASE UnmarshalEnds
  BY <1>8, <1>11 DEF UnmarshalEnds
<1>12. CASE Discard
  <2>1. at = "discard" /\ UNCHANGED <<notify, seen>>
    BY <1>12 DEF Discard
  <2>2. PICK r \in 0 .. Len(Sent), k \in 0 .. Len(Sent) : Given1(r) /\ Before(k)
    BY <1>3, <2>1 DEF Handled
  <2>3. Sent' = Sent /\ Given1(r)'
    BY <2>1, <2>2 DEF Sent, Given1
  <2>4. CASE kv.buf = <<>>
    <3>1. k = Len(Sent) /\ kv.failed = FALSE
      BY <1>3, <2>1, <2>2, <2>4, NoneIsLeft
    <3>2. at' = "next" /\ kv' = kv
      BY <1>12, <2>4, <3>1 DEF Discard
    <3>3. Before(k)'
      BY <2>2, <2>3, <3>2 DEF Before
    <3>4. Handled'
      BY <2>3, <3>1, <3>2, <3>3 DEF Handled
    <3> QED
      BY <1>3, <1>b, <2>1, <3>4
  <2>5. CASE kv.buf # <<>>
    <3> DEFINE e == Entry(kv.buf)
    <3>1. /\ k + 1 \in 0 .. Len(Sent)
          /\ e.is = "ok" /\ e.rest = PutEntries(Drop(Sent, k + 1)) /\ Failed(e) = FALSE
      BY <1>3, <2>1, <2>2, <2>5, NextIsRead
    <3>2. kv' = [buf |-> e.rest, failed |-> Failed(e)] /\ at' = IF e.is = "ok" THEN at ELSE "failed"
      BY <1>12, <2>5 DEF Discard
    <3> HIDE DEF e
    <3>3. at' = "discard" /\ Before(k + 1)'
      BY <2>1, <2>3, <3>1, <3>2 DEF Before
    <3> DEFINE q == k + 1
    <3> HIDE DEF q
    <3>4. q \in 0 .. Len(Sent') /\ Before(q)'
      BY <2>3, <3>1, <3>3 DEF q
    <3>5. Handled'
      BY <2>3, <3>3, <3>4 DEF Handled
    <3> QED
      BY <1>3, <1>b, <2>1, <3>5
  <2> QED
    BY <2>4, <2>5
<1>13. CASE UNCHANGED vars
  <2>1. UNCHANGED <<notify, at, buf, kv, seen>>
    BY <1>13 DEF vars
  <2> QED
    BY <2>1 DEF OneInv, Waiting, Handled, Done, Given1, Before, Sent
<1> QED
  BY <1>1, <1>2, <1>6, <1>7, <1>9, <1>10, <1>11, <1>12, <1>13
     DEF AnswerNext, HandlerNext, Next, HandlerSets, WriteAck

\* What the handler is given of a message is what HAProxy has sent, whatever the
\* type and the length of its entries: with MessageIsRead and EntryIsRead, for
\* every name, string and number a varint can carry.
THEOREM MessageSeenIsSent == AnswerSpec /\ Len(notify) <= 1 => []SeenIsSent
<1>1. AnswerInit /\ Len(notify) <= 1 => OneInv
  BY OneInvInit DEF AnswerInit
<1>2. OneInv => SeenIsSent
  <2> SUFFICES ASSUME OneInv PROVE SeenIsSent
    OBVIOUS
  <2>1. CASE seen = <<>>
    <3>1. Len(notify) \in Nat
      BY DEF OneInv
    <3>2. Len(seen) <= Len(notify) /\ DOMAIN seen = {}
      BY <2>1, <3>1
    <3> QED
      BY <3>2 DEF SeenIsSent
  <2>2. CASE notify # <<>> /\ \E r \in 0 .. Len(Sent) : Given1(r)
    <3>1. PICK r \in 0 .. Len(Sent) : Given1(r)
      BY <2>2
    <3>2. Len(notify) = 1 /\ Sent \in Seq(EntryData)
      BY <2>2, OnlyMessage
    <3>3. IsPrefix(Take(Sent, r), Sent)
      <4> DEFINE es == Sent
      <4>1. es \in Seq(EntryData) /\ r \in 0 .. Len(es)
        BY <3>2
      <4> HIDE DEF es
      <4>2. /\ Len(SubSeq(es, 1, r)) = r /\ r <= Len(es)
            /\ SubSeq(SubSeq(es, 1, r), 1, r) = SubSeq(es, 1, r)
        BY <4>1
      <4> QED
        BY <4>1, <4>2 DEF IsPrefix, Take, es
    <3>4. seen = <<[name |-> notify[1].name, entries |-> Take(Sent, r)]>>
      BY <3>1 DEF Given1
    <3>5. Len(seen) = 1 /\ DOMAIN seen = {1} /\ seen[1].name = notify[1].name
          /\ seen[1].entries = Take(Sent, r)
      BY <3>4
    <3>6. IsPrefix(seen[1].entries, notify[1].entries)
      BY <3>3, <3>5 DEF Sent
    <3> QED
      BY <3>2, <3>5, <3>6 DEF SeenIsSent
  <2> QED
    BY <2>1, <2>2 DEF OneInv, Waiting, Handled, Done
<1> QED
  BY <1>1, <1>2, OneInvStep, PTL DEF AnswerSpec

\* Whatever the handler has read of it, a message does not make the NOTIFY fail,
\* and fn returns only when it has been handled (messagescanner.go:70).
THEOREM MessageIsHandled == AnswerSpec /\ Len(notify) <= 1 => []EveryMessageIsHandled
<1>1. AnswerInit /\ Len(notify) <= 1 => OneInv
  BY OneInvInit DEF AnswerInit
<1>2. OneInv => EveryMessageIsHandled
  <2> SUFFICES ASSUME OneInv PROVE EveryMessageIsHandled
    OBVIOUS
  <2>1. at # "failed"
    BY DEF OneInv, Waiting, Handled, Done
  <2>2. ASSUME at = "done" PROVE Len(seen) = Len(notify)
    <3>1. Done
      BY <2>2 DEF OneInv, Waiting, Handled
    <3>2. CASE notify = <<>>
      BY <3>1, <3>2 DEF Done
    <3>3. CASE notify # <<>>
      <4>1. Len(notify) = 1
        BY <3>3, OnlyMessage
      <4>2. Len(seen) = 1
        BY <3>1, <3>3 DEF Done, Given1
      <4> QED
        BY <4>1, <4>2
    <3> QED
      BY <3>2, <3>3
  <2> QED
    BY <2>1, <2>2 DEF EveryMessageIsHandled
<1> QED
  BY <1>1, <1>2, OneInvStep, PTL DEF AnswerSpec

-------------------------------------------------------------------------------
(* Unmarshal on a NOTIFY of at most one message *)

LEMMA MaxOfMore ==
    ASSUME NEW S, S \subseteq Nat, NEW n \in Nat, \A j \in S : j <= n
    PROVE  Max(S \cup {n}) = n
<1>1. n \in S \cup {n} /\ \A j \in S \cup {n} : n >= j
  OBVIOUS
<1>2. ASSUME NEW x \in S \cup {n}, \A j \in S \cup {n} : x >= j
      PROVE  x = n
  <2>1. x \in Nat /\ x <= n /\ x >= n
    BY <1>2
  <2> QED
    BY <2>1
<1> QED
  BY <1>1, <1>2 DEF Max

LEMMA FieldIsFound ==
    ASSUME NEW T, NEW t \in Seq(T), NEW key
    PROVE  FieldOf(t, key) \in Nat /\ (FieldOf(t, key) # 0 => FieldOf(t, key) \in DOMAIN t)
<1> DEFINE I == {i \in 1 .. Len(t) : t[i].key = key}
<1>1. FieldOf(t, key) = IF I # {} THEN Min(I) ELSE 0
  BY DEF FieldOf, SelectInSeq
<1>2. ASSUME I # {} PROVE Min(I) \in I
  <2>1. I \subseteq Nat
    OBVIOUS
  <2> HIDE DEF I
  <2>2. PICK n \in I : \A m \in I : n <= m
    BY <1>2, <2>1, LeastNumber
  <2> QED
    BY <2>2 DEF Min
<1>3. I \subseteq Nat /\ I \subseteq DOMAIN t /\ 0 \notin I
  OBVIOUS
<1> HIDE DEF I
<1>4. CASE I = {}
  BY <1>1, <1>4
<1>5. CASE I # {}
  BY <1>1, <1>2, <1>3, <1>5
<1> QED
  BY <1>4, <1>5

\* The entries among the first n that are for field i.
Until(n, i) == {j \in For(i) : j <= n}

\* Of the entries Unmarshal was given, the first n are in the struct.
Filled(n) ==
    /\ DOMAIN fields = DOMAIN target
    /\ \A i \in DOMAIN target :
           /\ i \in assigned <=> Until(n, i) # {}
           /\ fields[i] = IF Until(n, i) = {} THEN Old ELSE ValueOf(Given[Max(Until(n, i))])

Filling ==
    /\ result = "none" /\ target \in Targets
    /\ \E q, n \in 0 .. Len(Sent) :
           /\ from = [message |-> 1, read |-> q]
           /\ q + n \in 0 .. Len(Sent) /\ Given1(q + n) /\ Before(q + n)
           /\ Filled(n)

\* The invariant: what FieldsAreFresh says at the end is built entry by entry, and
\* no field is marked as set from before (setPointerFields is empty at the start).
FieldsInv == /\ at = "unmarshal" => Filling
             /\ result = "none" /\ at # "unmarshal" => assigned = {}
             /\ FieldsAreFresh

LEMMA GivenIs ==
    ASSUME OneInv, notify # <<>>, NEW q \in 0 .. Len(Sent),
           from = [message |-> 1, read |-> q]
    PROVE  /\ DOMAIN Given = 1 .. Len(Sent) - q
           /\ \A j \in 1 .. Len(Sent) - q : Given[j] = Sent[q + j]
           /\ \A i : For(i) \subseteq 1 .. Len(Sent) - q
           /\ \A i : For(i) = {j \in 1 .. Len(Sent) - q : FieldOf(target, Sent[q + j].name) = i}
<1> DEFINE es == Sent
<1>1. es \in Seq(EntryData)
  BY OnlyMessage
<1>2. Given = Drop(es, q)
  BY DEF Given, Sent
<1> HIDE DEF es
<1>3. /\ DOMAIN SubSeq(es, q + 1, Len(es)) = 1 .. Len(es) - q
      /\ \A j \in 1 .. Len(es) - q : SubSeq(es, q + 1, Len(es))[j] = es[q + j]
  <2>1. q \in 0 .. Len(es) /\ Len(es) \in Nat
    BY <1>1 DEF es
  <2> QED
    BY <1>1, <2>1
<1>4. /\ DOMAIN Given = 1 .. Len(es) - q
      /\ \A j \in 1 .. Len(es) - q : Given[j] = es[q + j]
  BY <1>2, <1>3 DEF Drop
<1>5. \A i : For(i) = {j \in 1 .. Len(es) - q : FieldOf(target, es[q + j].name) = i}
  BY <1>4 DEF For
<1> QED
  BY <1>4, <1>5 DEF es

\* An entry more: it is the last one of its field, and no other field's.
LEMMA OneMore ==
    ASSUME OneInv, notify # <<>>, NEW q \in 0 .. Len(Sent), NEW n \in 0 .. Len(Sent),
           from = [message |-> 1, read |-> q], q + n + 1 \in 0 .. Len(Sent)
    PROVE  /\ Given[n + 1] = Sent[q + n + 1]
           /\ n + 1 \in For(FieldOf(target, Sent[q + n + 1].name))
           /\ \A i : Until(n + 1, i) = IF i = FieldOf(target, Sent[q + n + 1].name)
                                       THEN Until(n, i) \cup {n + 1} ELSE Until(n, i)
           /\ \A i : Until(n, i) \subseteq Nat /\ \A j \in Until(n, i) : j <= n + 1
<1> DEFINE c == Len(Sent) - q
           f(j) == FieldOf(target, Sent[q + j].name)
<1>1. /\ \A j \in 1 .. c : Given[j] = Sent[q + j]
      /\ \A i : For(i) = {j \in 1 .. c : f(j) = i}
  BY GivenIs
<1>2. c \in Nat /\ n + 1 \in 1 .. c /\ q + (n + 1) = q + n + 1 /\ Len(Sent) \in Nat
  BY OnlyMessage
<1>3. f(n + 1) = FieldOf(target, Sent[q + n + 1].name) /\ Given[n + 1] = Sent[q + n + 1]
  BY <1>1, <1>2
<1> HIDE DEF f, c
<1>4. n + 1 \in For(f(n + 1))
  BY <1>1, <1>2
<1>5. \A i : Until(n, i) = {j \in 1 .. c : f(j) = i /\ j <= n}
             /\ Until(n + 1, i) = {j \in 1 .. c : f(j) = i /\ j <= n + 1}
  BY <1>1 DEF Until
<1>6. \A j \in 1 .. c : j <= n + 1 <=> j <= n \/ j = n + 1
  BY <1>2
<1>7. \A i : Until(n + 1, i) = IF i = f(n + 1) THEN Until(n, i) \cup {n + 1} ELSE Until(n, i)
  <2> TAKE i
  <2>1. CASE i = f(n + 1)
    BY <1>2, <1>5, <1>6, <2>1
  <2>2. CASE i # f(n + 1)
    <3>1. \A j \in 1 .. c : f(j) = i => j # n + 1
      BY <2>2
    <3>2. \A j \in 1 .. c : f(j) = i /\ j <= n + 1 <=> f(j) = i /\ j <= n
      BY <1>6, <3>1
    <3>3. Until(n, i) = Until(n + 1, i)
      BY <1>5, <3>2
    <3> QED
      BY <2>2, <3>3
  <2> QED
    BY <2>1, <2>2
<1>8. \A i : Until(n, i) \subseteq Nat /\ \A j \in Until(n, i) : j <= n + 1
  BY <1>2, <1>5
<1> QED
  BY <1>3, <1>4, <1>7, <1>8

LEMMA FieldsStep ==
    OneInv /\ FieldsInv /\ [AnswerNext]_<<vars, struct, answer>> => FieldsInv'
<1> SUFFICES ASSUME OneInv, FieldsInv, [AnswerNext]_<<vars, struct, answer>>
             PROVE  FieldsInv'
  OBVIOUS
<1>a. ASSUME at \in {"handler", "unmarshal"} PROVE notify # <<>> /\ Handled
  BY <1>a DEF OneInv, Waiting, Done
<1>b. ASSUME UNCHANGED <<notify, target, from>>
      PROVE  /\ Given' = Given /\ Sent' = Sent
             /\ \A i : For(i)' = For(i)
             /\ \A n, i : Until(n, i)' = Until(n, i)
  BY <1>b DEF Given, Sent, For, Until
<1>1. CASE /\ UNCHANGED <<notify, struct>>
           /\ \/ at # "unmarshal" /\ at' # "unmarshal"
              \/ UNCHANGED vars
  <2>1. UNCHANGED <<notify, target, fields, assigned, result, from>>
    BY <1>1 DEF struct
  <2>2. FieldsAreFresh'
    BY <1>b, <2>1 DEF FieldsInv, FieldsAreFresh
  <2>3. CASE at # "unmarshal" /\ at' # "unmarshal"
    BY <2>1, <2>2, <2>3 DEF FieldsInv
  <2>4. CASE UNCHANGED vars
    <3>1. UNCHANGED <<notify, at, buf, kv, seen>>
      BY <2>4 DEF vars
    <3>2. /\ Given' = Given /\ Sent' = Sent
          /\ \A n, i : Until(n, i)' = Until(n, i)
          /\ \A r : Given1(r)' = Given1(r) /\ Before(r)' = Before(r)
      BY <1>b, <2>1, <3>1 DEF Given1, Before, Sent
    <3>3. \A n : Filled(n)' = Filled(n)
      BY <2>1, <3>2 DEF Filled
    <3>4. Filling' = Filling
      BY <2>1, <3>2, <3>3 DEF Filling
    <3> QED
      BY <2>1, <2>2, <3>1, <3>4 DEF FieldsInv
  <2> QED
    BY <1>1, <2>3, <2>4
<1>2. CASE HandlerUnmarshals
  <2>1. /\ at = "handler" /\ result = "none" /\ at' = "unmarshal" /\ target' \in Targets
        /\ fields' = [i \in DOMAIN target' |-> Old]
        /\ from' = [message |-> Len(seen), read |-> Len(Last(seen).entries)]
        /\ UNCHANGED <<notify, kv, seen, assigned, result>>
    BY <1>2 DEF HandlerUnmarshals
  <2>2. PICK r \in 0 .. Len(Sent) : Given1(r) /\ Before(r)
    BY <1>a, <2>1 DEF Handled
  <2>3. notify # <<>> /\ Sent \in Seq(EntryData) /\ Len(Sent) \in Nat /\ Sent' = Sent
    BY <1>a, <2>1, OnlyMessage DEF Sent
  <2>4. from' = [message |-> 1, read |-> r]
    <3>1. Len(seen) = 1 /\ Last(seen).entries = Take(Sent, r)
      BY <2>2 DEF Given1, Last
    <3>2. Len(Take(Sent, r)) = r
      <4> DEFINE es == Sent
      <4>1. es \in Seq(EntryData) /\ r \in 0 .. Len(es)
        BY <2>3
      <4> HIDE DEF es
      <4>2. Len(SubSeq(es, 1, r)) = r
        BY <4>1
      <4> QED
        BY <4>2 DEF Take, es
    <3> QED
      BY <2>1, <3>1, <3>2
  <2>5. \A i : Until(0, i)' = {}
    <3>1. Given' = Drop(Sent, r)
      BY <2>1, <2>4 DEF Given, Sent
    <3>2. \A j \in DOMAIN Drop(Sent, r) : ~ (j <= 0)
      <4> DEFINE es == Sent
      <4>1. es \in Seq(EntryData) /\ r \in 0 .. Len(es)
        BY <2>3
      <4> HIDE DEF es
      <4>2. DOMAIN SubSeq(es, r + 1, Len(es)) = 1 .. Len(es) - r
        BY <4>1
      <4>3. \A j \in DOMAIN SubSeq(es, r + 1, Len(es)) : ~ (j <= 0)
        BY <4>1, <4>2
      <4> QED
        BY <4>3 DEF Drop, es
    <3>3. \A j \in DOMAIN Given' : ~ (j <= 0)
      BY <3>1, <3>2
    <3> QED
      BY <3>3 DEF Until, For
  <2>6. Filled(0)'
    <3>1. assigned' = {}
      BY <2>1 DEF FieldsInv
    <3>2. \A i \in DOMAIN target' :
              (i \in assigned' <=> Until(0, i)' # {}) /\ fields'[i] = Old
      BY <2>1, <2>5, <3>1
    <3> QED
      BY <2>1, <2>5, <3>2 DEF Filled
  <2>7. Filling'
    <3>1. /\ r + 0 = r /\ 0 \in 0 .. Len(Sent') /\ r \in 0 .. Len(Sent')
          /\ Given1(r)' /\ Before(r)'
      BY <2>1, <2>2, <2>3 DEF Given1, Before
    <3>2. Given1(r + 0)' /\ Before(r + 0)'
      BY <3>1
    <3> QED
      BY <2>1, <2>4, <2>6, <3>1, <3>2 DEF Filling
  <2> QED
    BY <2>1, <2>7 DEF FieldsInv, FieldsAreFresh
<1>3. CASE UnmarshalNext
  <2> DEFINE e == Entry(kv.buf)
             i0 == IF e.is = "ok" THEN FieldOf(target, e.val.name) ELSE 0
             fits0 == i0 # 0 /\ Takes(target[i0], e.val)
             wrong0 == e.is = "error" \/ (i0 # 0 /\ ~ fits0)
  <2>1. /\ at = "unmarshal" /\ kv.buf # <<>> /\ Read(e)
        /\ fields' = IF fits0 THEN [fields EXCEPT ![i0] = ValueOf(e.val)] ELSE fields
        /\ assigned' = IF fits0 THEN assigned \cup {i0} ELSE assigned
        /\ result' = IF wrong0 THEN "error" ELSE result
        /\ at' = CASE e.is = "panic" -> "failed" [] wrong0 -> "handler" [] OTHER -> at
        /\ UNCHANGED <<notify, target, from>>
    BY <1>3 DEF UnmarshalNext
  <2>2. notify # <<>> /\ Filling /\ FieldsInv
    BY <1>a, <2>1 DEF FieldsInv
  <2>3. PICK q \in 0 .. Len(Sent), n \in 0 .. Len(Sent) :
            /\ from = [message |-> 1, read |-> q]
            /\ q + n \in 0 .. Len(Sent) /\ Given1(q + n) /\ Before(q + n)
            /\ Filled(n)
    BY <2>2 DEF Filling
  <2>4. /\ q + n + 1 \in 0 .. Len(Sent) /\ e.is = "ok" /\ e.val = Sent[q + n + 1]
        /\ Given1(q + n + 1)' /\ Before(q + n + 1)'
    <3> DEFINE r == q + n
    <3>1. r \in 0 .. Len(Sent) /\ Given1(r) /\ Before(r)
      BY <2>3
    <3> HIDE DEF r, e
    <3>2. r + 1 \in 0 .. Len(Sent) /\ Given1(r + 1)' /\ Before(r + 1)'
      BY <2>1, <2>2, <3>1, OneIsRead DEF e
    <3>3. e.is = "ok" /\ e.val = Sent[r + 1]
      BY <2>1, <2>2, <3>1, NextIsRead DEF e
    <3> QED
      BY <3>2, <3>3 DEF r
  <2>a. PICK g : g = FieldOf(target, e.val.name)
    OBVIOUS
  <2>b. e.val = Sent[q + n + 1] /\ g = FieldOf(target, Sent[q + n + 1].name)
    <3> HIDE DEF e
    <3> QED
      BY <2>4, <2>a
  <2>5. /\ Given[n + 1] = e.val /\ n + 1 \in For(g)
        /\ \A i : Until(n + 1, i) = IF i = g THEN Until(n, i) \cup {n + 1} ELSE Until(n, i)
        /\ \A i : Until(n, i) \subseteq Nat /\ \A j \in Until(n, i) : j <= n + 1
    <3> DEFINE k == Sent[q + n + 1]
    <3>1. /\ Given[n + 1] = k
          /\ n + 1 \in For(FieldOf(target, k.name))
          /\ \A i : Until(n + 1, i) = IF i = FieldOf(target, k.name)
                                      THEN Until(n, i) \cup {n + 1} ELSE Until(n, i)
          /\ \A i : Until(n, i) \subseteq Nat /\ \A j \in Until(n, i) : j <= n + 1
      BY <2>2, <2>3, <2>4, OneMore
    <3>2. e.val = k /\ g = FieldOf(target, k.name)
      BY <2>b
    <3> HIDE DEF e, k
    <3> QED
      BY <3>1, <3>2
  <2>6. g \in Nat /\ (g # 0 => g \in DOMAIN target)
    <3>1. target \in Seq([key : Seq(Byte), kind : Kinds, pointer : BOOLEAN])
      BY <2>2, TargetsAssumption DEF Filling
    <3> QED
      BY <2>a, <3>1, FieldIsFound
  <2>7. n + 1 \in Nat /\ n + 1 \in 0 .. Len(Sent) /\ q + n + 1 = q + (n + 1)
    <3>1. Len(Sent) \in Nat
      BY <2>2, OnlyMessage
    <3> QED
      BY <2>4, <3>1
  <2>8. i0 = g /\ result = "none"
    BY <2>2, <2>4, <2>a DEF Filling
  <2> DEFINE fits == g # 0 /\ Takes(target[g], e.val)
             wrong == g # 0 /\ ~ fits
  <2>9. /\ fields' = IF fits THEN [fields EXCEPT ![g] = ValueOf(e.val)] ELSE fields
        /\ assigned' = IF fits THEN assigned \cup {g} ELSE assigned
        /\ result' = IF wrong THEN "error" ELSE "none"
        /\ at' = IF wrong THEN "handler" ELSE "unmarshal"
    BY <2>1, <2>4, <2>8
  <2> HIDE DEF e, i0, fits0, wrong0
  <2>10. CASE wrong
    <3>1. n + 1 \in For(g)' /\ Given'[n + 1] = e.val /\ g \in DOMAIN target'
      <4>1. For(g)' = For(g) /\ Given' = Given /\ target' = target
        BY <1>b, <2>1
      <4> QED
        BY <2>5, <2>6, <2>10, <4>1
    <3>2. ~ Takes(target'[g], Given'[n + 1])
      BY <2>1, <2>10, <3>1
    <3>3. result' = "error" /\ at' = "handler"
      BY <2>9, <2>10
    <3>4. FieldsAreFresh'
      BY <3>1, <3>2, <3>3 DEF FieldsAreFresh
    <3> QED
      BY <3>3, <3>4 DEF FieldsInv
  <2>11. CASE ~ wrong
    <3>1. g = 0 \/ fits
      BY <2>11
    <3>2. DOMAIN fields' = DOMAIN target'
      BY <2>1, <2>3, <2>9 DEF Filled
    <3>3. ASSUME NEW i \in DOMAIN target
          PROVE  /\ i \in assigned' <=> Until(n + 1, i) # {}
                 /\ fields'[i] = IF Until(n + 1, i) = {} THEN Old
                                 ELSE ValueOf(Given[Max(Until(n + 1, i))])
      <4>1. /\ i \in assigned <=> Until(n, i) # {}
            /\ fields[i] = IF Until(n, i) = {} THEN Old
                           ELSE ValueOf(Given[Max(Until(n, i))])
            /\ DOMAIN fields = DOMAIN target
        BY <2>3 DEF Filled
      <4>2. CASE i = g
        <5>1. i # 0
          <6>1. target \in Seq([key : Seq(Byte), kind : Kinds, pointer : BOOLEAN])
            BY <2>2, TargetsAssumption DEF Filling
          <6> QED
            BY <6>1
        <5>2. fits
          BY <3>1, <4>2, <5>1
        <5>3. Until(n + 1, i) = Until(n, i) \cup {n + 1}
          BY <2>5, <4>2
        <5>4. Max(Until(n + 1, i)) = n + 1 /\ Until(n + 1, i) # {}
          <6>1. Max(Until(n, i) \cup {n + 1}) = n + 1
            BY <2>5, <2>7, MaxOfMore
          <6> QED
            BY <5>3, <6>1
        <5>5. fields'[i] = ValueOf(e.val) /\ i \in assigned'
          BY <2>9, <4>1, <4>2, <5>2
        <5> QED
          BY <2>5, <5>4, <5>5
      <4>3. CASE i # g
        <5>1. Until(n + 1, i) = Until(n, i)
          BY <2>5, <4>3
        <5>2. fields'[i] = fields[i] /\ (i \in assigned' <=> i \in assigned)
          BY <2>9, <4>1, <4>3
        <5> QED
          BY <4>1, <5>1, <5>2
      <4> QED
        BY <4>2, <4>3
    <3>4. Filled(n + 1)'
      BY <1>b, <2>1, <3>2, <3>3 DEF Filled
    <3>5. result' = "none" /\ at' = "unmarshal"
      BY <2>9, <2>11
    <3>6. Filling'
      <4> DEFINE m == n + 1
      <4> HIDE DEF m
      <4>1. /\ q \in 0 .. Len(Sent') /\ m \in 0 .. Len(Sent') /\ q + m \in 0 .. Len(Sent')
            /\ Given1(q + m)' /\ Before(q + m)' /\ Filled(m)'
        BY <1>b, <2>1, <2>4, <2>7, <3>4 DEF m
      <4>2. from' = [message |-> 1, read |-> q] /\ target' \in Targets
        BY <2>1, <2>2, <2>3 DEF Filling
      <4> QED
        BY <3>5, <4>1, <4>2 DEF Filling
    <3> QED
      BY <3>5, <3>6 DEF FieldsInv, FieldsAreFresh
  <2> QED
    BY <2>10, <2>11
<1>4. CASE UnmarshalEnds
  <2> DEFINE cleared == {i \in DOMAIN target : target[i].pointer /\ i \notin assigned
                                                               /\ ~ kv.failed}
             stuck == {i \in cleared : target[i].kind = "unsettable"}
  <2>1. /\ at = "unmarshal" /\ kv.buf = <<>> /\ at' \in {"handler", "panicked"}
        /\ result' = CASE kv.failed -> "error" [] stuck # {} -> "panic" [] OTHER -> "ok"
        /\ fields' = [i \in DOMAIN target |->
                         IF i \in cleared /\ (\A j \in stuck : i < j) THEN Nil ELSE fields[i]]
        /\ UNCHANGED <<notify, target, from>>
    BY <1>4 DEF UnmarshalEnds
  <2>2. notify # <<>> /\ Filling
    BY <1>a, <2>1 DEF FieldsInv
  <2>3. PICK q \in 0 .. Len(Sent), n \in 0 .. Len(Sent) :
            /\ from = [message |-> 1, read |-> q]
            /\ q + n \in 0 .. Len(Sent) /\ Before(q + n)
            /\ Filled(n)
    BY <2>2 DEF Filling
  <2>4. q + n = Len(Sent) /\ kv.failed = FALSE
    BY <2>1, <2>2, <2>3, NoneIsLeft
  <2>5. \A i : Until(n, i) = For(i)
    <3>1. \A i : For(i) \subseteq 1 .. Len(Sent) - q
      BY <2>2, <2>3, GivenIs
    <3>2. Len(Sent) \in Nat
      BY <2>2, OnlyMessage
    <3>3. \A j \in 1 .. Len(Sent) - q : j <= n
      BY <2>4, <3>2
    <3>4. \A i : \A j \in For(i) : j <= n
      BY <3>1, <3>3
    <3> QED
      BY <3>4 DEF Until
  <2>6. result' = IF stuck # {} THEN "panic" ELSE "ok"
    BY <2>1, <2>4
  <2>7. ASSUME NEW i \in DOMAIN target
        PROVE  /\ i \in cleared <=> target[i].pointer /\ For(i) = {}
               /\ fields[i] = IF For(i) = {} THEN Old ELSE ValueOf(Given[Max(For(i))])
    BY <2>3, <2>4, <2>5 DEF Filled
  <2>8. ASSUME stuck = {} PROVE FieldsAreFresh'
    <3>1. ASSUME NEW i \in DOMAIN target
          PROVE  fields'[i] = IF For(i) # {} THEN ValueOf(Given[Max(For(i))])
                              ELSE IF target[i].pointer THEN Nil ELSE Old
      <4>1. fields'[i] = IF i \in cleared THEN Nil ELSE fields[i]
        BY <2>1, <2>8
      <4> HIDE DEF cleared, stuck
      <4> QED
        BY <2>7, <4>1
    <3> QED
      BY <1>b, <2>1, <2>6, <2>8, <3>1 DEF FieldsAreFresh
  <2>9. ASSUME stuck # {} PROVE FieldsAreFresh'
    <3>1. PICK i \in stuck : TRUE
      BY <2>9
    <3>2. i \in DOMAIN target /\ target[i].kind = "unsettable" /\ i \in cleared
      BY <3>1
    <3> HIDE DEF cleared, stuck
    <3>3. target[i].pointer /\ For(i) = {}
      BY <2>7, <3>2
    <3> QED
      BY <1>b, <2>1, <2>6, <2>9, <3>2, <3>3 DEF FieldsAreFresh
  <2>10. FieldsAreFresh' /\ result' # "none"
    BY <2>6, <2>8, <2>9
  <2> QED
    BY <2>1, <2>10 DEF FieldsInv
<1>5. CASE Next /\ UNCHANGED struct
  <2>1. notify' = notify /\ at # "unmarshal" /\ at' # "unmarshal"
    BY <1>5 DEF Next, NextMessage, LastMessage, HandlerReads, HandlerReturns, Discard
  <2> QED
    BY <1>1, <1>5, <2>1
<1>6. CASE UNCHANGED <<vars, struct>>
  BY <1>1, <1>6 DEF vars
<1> QED
  BY <1>2, <1>3, <1>4, <1>5, <1>6 DEF AnswerNext, HandlerNext, HandlerSets, WriteAck

\* After Unmarshal a field holds what the message last said of its key, an optional
\* one nothing of an older message, and Unmarshal fails only for an entry that its
\* field does not take, and panics only on an optional field that it cannot clear: for every struct type and every message, wherever the
\* handler had read to (kvunmarshal.go:21 and :125).
THEOREM UnmarshalIsFresh == AnswerSpec /\ Len(notify) <= 1 => []FieldsAreFresh
<1>1. AnswerInit /\ Len(notify) <= 1 => OneInv /\ FieldsInv
  <2>1. AnswerInit /\ Len(notify) <= 1 => OneInv
    BY OneInvInit DEF AnswerInit
  <2>2. AnswerInit => FieldsInv
    BY DEF AnswerInit, Init, StructInit, FieldsInv, FieldsAreFresh
  <2> QED
    BY <2>1, <2>2
<1>2. FieldsInv => FieldsAreFresh
  BY DEF FieldsInv
<1> QED
  BY <1>1, <1>2, OneInvStep, FieldsStep, PTL DEF AnswerSpec
===============================================================================

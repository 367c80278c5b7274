-------------------------- MODULE PeersSessionProofs --------------------------
(****************************************************************************)
(* Proofs about PeersSession for every number of pushers and every bound.   *)
(****************************************************************************)
EXTENDS PeersSession, SequenceTheorems, TLAPS

-------------------------------------------------------------------------------
(* Arithmetic modulo the number of update IDs *)

\* A number is so many turns and a rest, and % is the rest.
LEMMA TurnsAndRest == ASSUME NEW n \in Nat \ {0}, NEW a \in Nat
                      PROVE  \E q \in Int : \E r \in 0 .. n - 1 : a = n * q + r /\ a % n = r
  OBVIOUS

LEMMA RestOfNext == ASSUME NEW n \in Nat \ {0}, NEW q \in Int, NEW r \in 0 .. n - 1
                    PROVE  (n * q + r + 1) % n = (r + 1) % n
<1>1. CASE r + 1 < n
  BY <1>1
<1>2. CASE r + 1 = n
  BY <1>2
<1> QED
  BY <1>1, <1>2

\* One more, before or after %.
LEMMA ModNext == ASSUME NEW n \in Nat \ {0}, NEW a \in Nat
                 PROVE  ((a % n) + 1) % n = (a + 1) % n
<1>1. PICK q \in Int : \E r \in 0 .. n - 1 : a = n * q + r /\ a % n = r
  BY TurnsAndRest
<1>2. PICK r \in 0 .. n - 1 : a = n * q + r /\ a % n = r
  BY <1>1
<1> QED
  BY <1>2, RestOfNext

\* Two numbers with the same rest are a turn apart.
LEMMA TurnApart == ASSUME NEW n \in Nat \ {0}, NEW p \in Int, NEW q \in Int, NEW r \in Nat,
                          n * p + r < n * q + r
                   PROVE  n * q - n * p >= n
<1>1. CASE p < q
  BY <1>1
<1>2. CASE p >= q
  BY <1>2
<1> QED
  BY <1>1, <1>2

LEMMA ModRepeats == ASSUME NEW n \in Nat \ {0}, NEW a \in Nat, NEW b \in Nat,
                           a < b, a % n = b % n
                    PROVE  b - a >= n
<1>1. PICK p \in Int : \E r \in 0 .. n - 1 : a = n * p + r /\ a % n = r
  BY TurnsAndRest
<1>2. PICK r \in 0 .. n - 1 : a = n * p + r /\ a % n = r
  BY <1>1
<1>3. PICK q \in Int : \E t \in 0 .. n - 1 : b = n * q + t /\ b % n = t
  BY TurnsAndRest
<1>4. b = n * q + r
  BY <1>2, <1>3
<1>5. n * q - n * p >= n
  BY <1>2, <1>4, TurnApart
<1> QED
  BY <1>2, <1>4, <1>5

-------------------------------------------------------------------------------
(* What is written *)

\* Each kind of message has the fields of its kind.
LEMMA EntryIsMessage ==
  ASSUME NEW p \in Pushers, NEW id \in 0 .. IDs - 1, NEW nth \in Nat
  PROVE  /\ Entry(p, id, nth) \in Message /\ Entry(p, id, nth).type = "entry"
         /\ Entry(p, id, nth).id = id /\ Entry(p, id, nth).nth = nth
  BY DEF Entry, Message

LEMMA TableIsMessage == ASSUME NEW p \in Pushers, NEW type \in {"definition", "switch"}
                        PROVE  Table(type, p) \in Message /\ Table(type, p).type # "entry"
  BY DEF Table, Message

LEMMA StatusIsMessage == Status \in Message /\ Status.type # "entry" /\ <<Status>> \in Seq(Message)
  BY DEF Status, Message

LEMMA EntryHasNumber == ASSUME NEW m \in Message, m.type = "entry"
                        PROVE  m.nth \in Nat
  BY DEF Message, Status, Table

\* The entries in a sequence of messages are in the order in which their IDs were
\* taken; they are among the m-th to the n-th, and an ID is the rest of its number.
InOrder(s) == \A i, j \in 1 .. Len(s) :
    i < j /\ s[i].type = "entry" /\ s[j].type = "entry" => s[i].nth < s[j].nth
Taken(s, m, n) == \A i \in 1 .. Len(s) :
    s[i].type = "entry" => m <= s[i].nth /\ s[i].nth < n /\ s[i].id = s[i].nth % IDs

\* Messages with IDs taken later may follow.
LEMMA InOrderOn ==
  ASSUME NEW s \in Seq(Message), NEW t \in Seq(Message), NEW n \in Nat, NEW m \in Nat, n <= m,
         InOrder(s), Taken(s, 0, n), InOrder(t), Taken(t, n, m)
  PROVE  InOrder(s \o t) /\ Taken(s \o t, 0, m)
<1> DEFINE u == s \o t
<1>1. /\ u \in Seq(Message) /\ Len(u) = Len(s) + Len(t)
      /\ \A i \in 1 .. Len(u) : u[i] = IF i <= Len(s) THEN s[i] ELSE t[i - Len(s)]
  BY ConcatProperties
<1>2. Len(s) \in Nat /\ Len(t) \in Nat
  OBVIOUS
<1>3. \A i \in 1 .. Len(u) : u[i].type = "entry" => u[i].nth \in Nat
  BY <1>1, EntryHasNumber, ElementOfSeq
<1>4. ASSUME NEW i \in 1 .. Len(u), u[i].type = "entry"
      PROVE  IF i <= Len(s) THEN i \in 1 .. Len(s) /\ s[i] = u[i] /\ 0 <= u[i].nth /\ u[i].nth < n
             ELSE i - Len(s) \in 1 .. Len(t) /\ t[i - Len(s)] = u[i] /\ n <= u[i].nth /\ u[i].nth < m
  <2>1. CASE i <= Len(s)
    BY <1>1, <1>2, <1>4, <2>1 DEF Taken
  <2>2. CASE ~ (i <= Len(s))
    <3>1. i - Len(s) \in 1 .. Len(t) /\ t[i - Len(s)] = u[i]
      BY <1>1, <1>2, <2>2
    <3> QED
      BY <3>1, <1>4, <2>2 DEF Taken
  <2> QED
    BY <2>1, <2>2
<1>5. Taken(u, 0, m)
  BY <1>3, <1>4 DEF Taken
<1>6. ASSUME NEW i \in 1 .. Len(u), NEW j \in 1 .. Len(u),
             i < j, u[i].type = "entry", u[j].type = "entry"
      PROVE  u[i].nth < u[j].nth
  <2>1. CASE j <= Len(s)
    <3>1. i \in 1 .. Len(s) /\ j \in 1 .. Len(s) /\ s[i] = u[i] /\ s[j] = u[j]
      BY <1>1, <1>2, <1>6, <2>1
    <3> QED
      BY <3>1, <1>6 DEF InOrder
  <2>2. CASE i <= Len(s) /\ ~ (j <= Len(s))
    BY <1>3, <1>4, <1>6, <2>2
  <2>3. CASE ~ (i <= Len(s))
    <3> DEFINE k == i - Len(s)
               l == j - Len(s)
    <3>1. k \in 1 .. Len(t) /\ l \in 1 .. Len(t) /\ t[k] = u[i] /\ t[l] = u[j] /\ k < l
      BY <1>1, <1>2, <1>6, <2>3
    <3> HIDE DEF k, l
    <3> QED
      BY <3>1, <1>6 DEF InOrder
  <2> QED
    BY <2>1, <2>2, <2>3
<1>7. InOrder(u)
  BY <1>6 DEF InOrder
<1> QED
  BY <1>5, <1>7

-------------------------------------------------------------------------------
(* Types, and Close from three goroutines *)

\* A call of Buffer or Flush adds its messages to what has been written, or fails and
\* adds nothing.
LEMMA OutputStep ==
  ASSUME TypeOK,
         NEW msgs \in Seq(Message), NEW ok \in BOOLEAN,
         Buffer(msgs, ok) \/ Flush(msgs, ok)
  PROVE  /\ bw' \in Seq(Message) /\ wire' \in Seq(Message) /\ broken' \in BOOLEAN
         /\ Output' \in {Output, Output \o msgs}
<1> USE DEF TypeOK
<1>1. /\ wire \o bw \in Seq(Message) /\ (wire \o bw) \o msgs \in Seq(Message)
      /\ (wire \o bw) \o msgs = wire \o (bw \o msgs) /\ bw \o msgs \in Seq(Message)
      /\ ((wire \o bw) \o msgs) \o <<>> = (wire \o bw) \o msgs
  BY ConcatProperties, ConcatAssociative, ConcatEmptySeq, SMTT(30)
<1>2. CASE bw' = bw \o msgs /\ wire' = wire /\ broken' = broken
  BY <1>1, <1>2 DEF Output
<1>3. CASE bw' = msgs /\ wire' = wire \o bw /\ broken' = broken
  BY <1>1, <1>3 DEF Output
<1>4. CASE bw' = <<>> /\ wire' = (wire \o bw) \o msgs /\ broken' = broken
  BY <1>1, <1>4 DEF Output
<1>5. CASE WriteFails
  BY <1>5 DEF WriteFails, Output
<1> QED
  BY <1>2, <1>3, <1>4, <1>5 DEF Buffer, Flush

\* A flush of nothing may find the buffer empty.
LEMMA BufferedStep == ASSUME NEW ok \in BOOLEAN, FlushBuffered(ok)
                      PROVE  UNCHANGED output \/ Flush(<<>>, ok)
  BY DEF FlushBuffered

\* The IDs that may be taken next.
LEMMA NextIsID == TypeOK => /\ nextUpdateID \in 0 .. IDs - 1 /\ (nextUpdateID + 1) % IDs \in 0 .. IDs - 1
                            /\ drawn \in Nat /\ drawn + 1 \in Nat
  BY BoundsAssumption DEF TypeOK

LEMMA BothAreMessages ==
  ASSUME TypeOK, NEW p \in Pushers
  PROVE  FirstEntry(p) \in Message /\ SecondEntry(p) \in Message
  BY NextIsID, EntryIsMessage DEF FirstEntry, SecondEntry

LEMMA DrawKeepsType ==
  ASSUME TypeOK, Draw(1) \/ Draw(2)
  PROVE  nextUpdateID' \in 0 .. IDs - 1 /\ drawn' \in 0 .. MaxDraws
  BY BoundsAssumption DEF TypeOK, Draw

\* The goroutines that have been in handler.Close, or have found it unnecessary,
\* bound the number of its calls; the first to end has cancelled the context, and
\* nobody cancels it before the handler has been told or BaseContext is done.
Entered(g) == IF goroutine[g] \in {"inHandlerClose", "ended"} THEN 1 ELSE 0

CloseInv ==
    /\ at \in {"handshake", "handleHandshake"} =>
           goroutine["heartbeat"] = "none" /\ goroutine["lastMessage"] = "none"
    /\ closes <= Entered("serve") + Entered("heartbeat") + Entered("lastMessage")
    /\ \A g \in Goroutines : goroutine[g] = "ended" => cancelled
    /\ \A g \in Goroutines : goroutine[g] = "inHandlerClose" => closes > 0
    /\ cancelled => closes > 0 \/ baseDone
    /\ at = "closed" => goroutine["serve"] = "ended"

SessionInv == TypeOK /\ CloseInv

LEMMA SessionInit == Init => SessionInv
<1> SUFFICES ASSUME Init PROVE SessionInv
  OBVIOUS
<1> USE BoundsAssumption DEF Init
<1>1. bw \in Seq(Message) /\ wire \in Seq(Message)
  BY EmptySeq
<1>2. TypeOK
  <2>1. /\ goroutine \in [Goroutines -> {"none", "running", "close", "inHandlerClose", "ended"}]
        /\ goroutine["serve"] = "running" <=> at \notin {"return", "closed"}
    BY DEF Goroutines
  <2>2. pushing \in [Pushers -> {"no", "flush", "defined", "failed"}]
    OBVIOUS
  <2>3. sent \in 0 .. MaxIn /\ unread \in 0 .. sent
        /\ nextUpdateID \in 0 .. IDs - 1 /\ drawn \in 0 .. MaxDraws
        /\ switches \in 0 .. MaxSwitch /\ closes \in 0 .. 3
    OBVIOUS
  <2> QED
    BY <1>1, <2>1, <2>2, <2>3 DEF TypeOK
<1>3. CloseInv
  BY DEF CloseInv, Entered, Goroutines
<1> QED
  BY <1>2, <1>3 DEF SessionInv

\* A step that leaves the session's control alone.
LEMMA CloseInvKept == ASSUME CloseInv, UNCHANGED session, baseDone => baseDone'
                      PROVE  CloseInv'
  BY DEF CloseInv, session, Entered

LEMMA SessionStep == SessionInv /\ [Next]_vars => SessionInv'
<1> SUFFICES ASSUME SessionInv, [Next]_vars PROVE SessionInv'
  OBVIOUS
<1> USE BoundsAssumption DEF SessionInv
<1>1. CASE CancelBase
  <2>1. TypeOK'
    BY <1>1 DEF CancelBase, TypeOK, session, remote, output, pusher
  <2>2. CloseInv'
    BY <1>1, CloseInvKept DEF CancelBase
  <2> QED
    BY <2>1, <2>2
<1>2. CASE ReadHandshake
  <2>1. TypeOK'
    BY <1>2 DEF ReadHandshake, Take, Return, TypeOK, output, pusher, Goroutines
  <2>2. CloseInv'
    BY <1>2 DEF ReadHandshake, Return, TypeOK, CloseInv, Entered, Goroutines
  <2> QED
    BY <2>1, <2>2
<1>3. CASE WriteStatus
  <2>1. PICK ok \in BOOLEAN :
            /\ Flush(<<Status>>, ok)
            /\ \/ /\ ok /\ at' = "read"
                  /\ goroutine' = [g \in Goroutines |-> "running"]
               \/ ~ ok /\ Return
    BY <1>3 DEF WriteStatus, LockedWrite
  <2>2. bw' \in Seq(Message) /\ wire' \in Seq(Message) /\ broken' \in BOOLEAN
    BY <2>1, OutputStep, StatusIsMessage
  <2>3. TypeOK'
    BY <1>3, <2>1, <2>2 DEF WriteStatus, Return, TypeOK, remote, pusher, Goroutines
  <2>4. CloseInv'
    BY <1>3, <2>1 DEF WriteStatus, Return, TypeOK, CloseInv, Entered, Goroutines
  <2> QED
    BY <2>3, <2>4
<1>4. ASSUME NEW k \in Kinds, ReadMessage(k) PROVE SessionInv'
  <2>1. TypeOK'
    BY <1>4 DEF ReadMessage, Take, Return, TypeOK, output, pusher, Goroutines
  <2>2. CloseInv'
    BY <1>4 DEF ReadMessage, Return, TypeOK, CloseInv, Entered, Goroutines
  <2> QED
    BY <2>1, <2>2
<1>5. CASE ReadSyncRequest
  <2>1. bw' \in Seq(Message) /\ wire' \in Seq(Message) /\ broken' \in BOOLEAN
    <3>1. PICK ok \in BOOLEAN : Flush(<<>>, ok)
      BY <1>5 DEF ReadSyncRequest, LockedWrite
    <3>2. <<>> \in Seq(Message)
      BY EmptySeq
    <3> QED
      BY <3>1, <3>2, OutputStep
  <2>2. TypeOK'
    BY <1>5, <2>1 DEF ReadSyncRequest, Take, TypeOK, session, pusher
  <2>3. CloseInv'
    BY <1>5, CloseInvKept DEF ReadSyncRequest
  <2> QED
    BY <2>2, <2>3
<1>6. CASE ReadFails
  <2>1. TypeOK'
    BY <1>6 DEF ReadFails, Return, TypeOK, output, pusher, Goroutines
  <2>2. CloseInv'
    BY <1>6 DEF ReadFails, Return, TypeOK, CloseInv, Entered, Goroutines
  <2> QED
    BY <2>1, <2>2
<1>7. CASE CloseConn
  <2>1. TypeOK'
    BY <1>7 DEF CloseConn, TypeOK, remote, output, pusher
  <2>2. CloseInv'
    BY <1>7 DEF CloseConn, CloseInv, Entered
  <2> QED
    BY <2>1, <2>2
<1>8. ASSUME NEW g \in Goroutines, Close(g) PROVE SessionInv'
  <2>1. CloseInv'
    BY <1>8 DEF Close, Done, TypeOK, CloseInv, Entered, Goroutines
  <2>2. closes' \in 0 .. 3
    BY <1>8, <2>1 DEF Close, TypeOK, CloseInv, Entered
  <2>3. /\ goroutine' \in [Goroutines -> {"none", "running", "close", "inHandlerClose", "ended"}]
        /\ goroutine'["serve"] = "running" <=> goroutine["serve"] = "running"
        /\ \A h \in Goroutines : goroutine'[h] # "none" <=> goroutine[h] # "none"
        /\ cancelled' \in BOOLEAN
    BY <1>8, ZenonT(30) DEF Close, TypeOK, Goroutines
  <2>4. TypeOK'
    BY <1>8, <2>2, <2>3 DEF Close, TypeOK, remote, output, pusher
  <2> QED
    BY <2>1, <2>4
<1>9. ASSUME NEW g \in Goroutines, HandlerClosed(g) PROVE SessionInv'
  <2>1. TypeOK'
    BY <1>9 DEF HandlerClosed, TypeOK, remote, output, pusher
  <2>2. CloseInv'
    BY <1>9 DEF HandlerClosed, TypeOK, CloseInv, Entered, Goroutines
  <2> QED
    BY <2>1, <2>2
<1>10. CASE Heartbeat
  <2>1. PICK ok \in BOOLEAN :
            /\ Flush(<<>>, ok)
            /\ IF ok THEN UNCHANGED goroutine
                     ELSE goroutine' = [goroutine EXCEPT !["heartbeat"] = "close"]
    BY <1>10 DEF Heartbeat, LockedWrite
  <2>2. bw' \in Seq(Message) /\ wire' \in Seq(Message) /\ broken' \in BOOLEAN
    <3>1. <<>> \in Seq(Message)
      BY EmptySeq
    <3> QED
      BY <2>1, <3>1, OutputStep
  <2>3. TypeOK'
    BY <1>10, <2>1, <2>2 DEF Heartbeat, TypeOK, remote, pusher, Goroutines
  <2>4. CloseInv'
    BY <1>10, <2>1 DEF Heartbeat, TypeOK, CloseInv, Entered, Goroutines
  <2> QED
    BY <2>3, <2>4
<1>11. CASE LastMessage
  <2>1. TypeOK'
    BY <1>11 DEF LastMessage, TypeOK, remote, output, pusher, Goroutines
  <2>2. CloseInv'
    BY <1>11 DEF LastMessage, TypeOK, CloseInv, Entered, Goroutines
  <2> QED
    BY <2>1, <2>2
<1>12. ASSUME NEW p \in Pushers, Push(p) PROVE SessionInv'
  <2>1. /\ UNCHANGED <<baseDone, session, remote>>
        /\ pushing' \in [Pushers -> {"no", "flush", "defined", "failed"}]
        /\ nextUpdateID' \in 0 .. IDs - 1 /\ drawn' \in 0 .. MaxDraws
        /\ switches' \in 0 .. MaxSwitch
    <3>1. CASE SendTableDefinition(p) \/ SendTableSwitch(p) \/ FlushTable(p)
      BY <3>1 DEF SendTableDefinition, SendTableSwitch, FlushTable, TypeOK
    <3>2. CASE SendEntry(p) \/ SendEntries(p)
      BY <3>2, DrawKeepsType DEF SendEntry, SendEntries, TypeOK
    <3> QED
      BY <1>12, <3>1, <3>2 DEF Push
  <2>2. \/ UNCHANGED output
        \/ \E msgs \in Seq(Message), ok \in BOOLEAN : Buffer(msgs, ok) \/ Flush(msgs, ok)
    <3>1. /\ \A type \in {"definition", "switch"} : <<Table(type, p)>> \in Seq(Message)
          /\ <<>> \in Seq(Message)
      BY TableIsMessage
    <3>2. <<FirstEntry(p)>> \in Seq(Message) /\ <<FirstEntry(p), SecondEntry(p)>> \in Seq(Message)
      BY BothAreMessages
    <3>3. CASE SendTableDefinition(p) \/ SendTableSwitch(p)
      BY <3>1, <3>3 DEF SendTableDefinition, SendTableSwitch
    <3>4. CASE FlushTable(p)
      BY <3>1, <3>4, BufferedStep DEF FlushTable
    <3>5. CASE SendEntry(p) \/ SendEntries(p)
      BY <3>2, <3>5 DEF SendEntry, SendEntries
    <3> QED
      BY <1>12, <3>3, <3>4, <3>5 DEF Push
  <2>3. bw' \in Seq(Message) /\ wire' \in Seq(Message) /\ broken' \in BOOLEAN
    BY <2>2, OutputStep DEF TypeOK, output
  <2>4. TypeOK'
    BY <2>1, <2>3 DEF TypeOK, session, remote
  <2>5. CloseInv'
    BY <2>1, CloseInvKept
  <2> QED
    BY <2>4, <2>5
<1>13. CASE PeerSends \/ PeerCloses
  <2>1. TypeOK'
    BY <1>13, SMTT(30) DEF PeerSends, PeerCloses, TypeOK, session, output, pusher
  <2>2. CloseInv'
    BY <1>13, CloseInvKept DEF PeerSends, PeerCloses
  <2> QED
    BY <2>1, <2>2
<1>14. CASE UNCHANGED vars
  <2>1. TypeOK'
    BY <1>14 DEF vars, TypeOK, session, remote, output, pusher
  <2>2. CloseInv'
    BY <1>14, CloseInvKept DEF vars
  <2> QED
    BY <2>1, <2>2
<1> QED
  BY <1>1, <1>2, <1>3, <1>4, <1>5, <1>6, <1>7, <1>8, <1>9, <1>10, <1>11, <1>12, <1>13, <1>14
     DEF Next, Serve, Timers, Goroutines

LEMMA SessionInvariant == Spec => []SessionInv
  BY SessionInit, SessionStep, PTL DEF Spec

\* All variables keep their types: handler.Close is called at most once by each of
\* the three goroutines, and the timers' goroutines exist once messages are read.
THEOREM TypeCorrect == Spec => []TypeOK
  BY SessionInvariant, PTL DEF SessionInv

\* When the connection is closed the context is done and the handler has been
\* told, unless BaseContext had ended it, however the tests of the context and
\* the calls of handler.Close of three goroutines (protocol.go:46) interleave.
THEOREM HandlerHasBeenTold == Spec => []HandlerIsTold
<1>1. SessionInv => HandlerIsTold
  BY DEF SessionInv, CloseInv, HandlerIsTold, Goroutines
<1> QED
  BY <1>1, SessionInvariant, PTL
-------------------------------------------------------------------------------
(* Update IDs *)

\* What has been written is in order, with IDs that have been taken; the next ID is
\* the rest of the number of IDs taken so far.
UpdateInv == InOrder(Output) /\ Taken(Output, 0, drawn) /\ nextUpdateID = drawn % IDs

\* Entries with IDs taken in this step keep it.
LEMMA UpdateInvKept ==
  ASSUME TypeOK, UpdateInv, NEW msgs \in Seq(Message), NEW ok \in BOOLEAN,
         Buffer(msgs, ok) \/ Flush(msgs, ok),
         drawn' \in Nat, drawn <= drawn', InOrder(msgs), Taken(msgs, drawn, drawn')
  PROVE  InOrder(Output)' /\ Taken(Output, 0, drawn)'
<1>1. /\ Output \in Seq(Message) /\ drawn \in Nat /\ <<>> \in Seq(Message)
      /\ Output \o <<>> = Output
  BY ConcatProperties, ConcatEmptySeq DEF TypeOK, Output
<1>2. InOrder(<<>>) /\ Taken(<<>>, drawn, drawn')
  BY DEF InOrder, Taken
<1>3. CASE Output' = Output
  <2>1. InOrder(Output \o <<>>) /\ Taken(Output \o <<>>, 0, drawn')
    BY <1>1, <1>2, InOrderOn DEF UpdateInv
  <2> QED
    BY <1>1, <1>3, <2>1 DEF InOrder, Taken
<1>4. CASE Output' = Output \o msgs
  <2>1. InOrder(Output \o msgs) /\ Taken(Output \o msgs, 0, drawn')
    BY <1>1, InOrderOn DEF UpdateInv
  <2> QED
    BY <1>4, <2>1 DEF InOrder, Taken
<1> QED
  BY <1>3, <1>4, OutputStep

\* Messages that are no entries have no IDs.
LEMMA NoIDs ==
  ASSUME NEW s \in Seq(Message), NEW m, NEW n,
         \A i \in 1 .. Len(s) : s[i].type # "entry"
  PROVE  InOrder(s) /\ Taken(s, m, n)
  BY DEF InOrder, Taken

\* A step that writes no entry.
LEMMA UpdateInvUntouched ==
  ASSUME TypeOK, UpdateInv, UNCHANGED <<nextUpdateID, drawn>>,
         \/ UNCHANGED output
         \/ \E ok \in BOOLEAN : Flush(<<>>, ok) \/ Flush(<<Status>>, ok)
         \/ \E p \in Pushers, type \in {"definition", "switch"}, ok \in BOOLEAN :
               Buffer(<<Table(type, p)>>, ok)
  PROVE  UpdateInv'
<1>1. drawn \in Nat /\ drawn' \in Nat /\ drawn <= drawn'
  BY DEF TypeOK
<1>2. CASE UNCHANGED output
  BY <1>2 DEF output, Output, UpdateInv, InOrder, Taken
<1>3. ASSUME NEW s \in Seq(Message), NEW ok \in BOOLEAN, Buffer(s, ok) \/ Flush(s, ok),
             \A i \in 1 .. Len(s) : s[i].type # "entry"
      PROVE  UpdateInv'
  <2>1. InOrder(s) /\ Taken(s, drawn, drawn')
    BY <1>3, NoIDs
  <2>2. InOrder(Output)' /\ Taken(Output, 0, drawn)'
    BY <1>1, <1>3, <2>1, UpdateInvKept
  <2> QED
    BY <2>2 DEF UpdateInv
<1>4. ASSUME NEW ok \in BOOLEAN, Flush(<<>>, ok) PROVE UpdateInv'
  <2>1. <<>> \in Seq(Message) /\ \A i \in 1 .. Len(<<>>) : <<>>[i].type # "entry"
    BY EmptySeq
  <2> QED
    BY <1>3, <1>4, <2>1
<1>5. ASSUME NEW ok \in BOOLEAN, Flush(<<Status>>, ok) PROVE UpdateInv'
  <2>1. \A i \in 1 .. Len(<<Status>>) : <<Status>>[i].type # "entry"
    BY StatusIsMessage
  <2> QED
    BY <1>3, <1>5, <2>1, StatusIsMessage
<1>6. ASSUME NEW p \in Pushers, NEW type \in {"definition", "switch"}, NEW ok \in BOOLEAN,
             Buffer(<<Table(type, p)>>, ok)
      PROVE  UpdateInv'
  <2> DEFINE s == <<Table(type, p)>>
  <2>1. s \in Seq(Message) /\ \A i \in 1 .. Len(s) : s[i].type # "entry"
    BY TableIsMessage
  <2>2. Buffer(s, ok)
    BY <1>6
  <2> HIDE DEF s
  <2> QED
    BY <1>3, <2>1, <2>2
<1> QED
  BY <1>2, <1>4, <1>5, <1>6

\* The next ID after one or two have been taken.
LEMMA NextAfterDraw ==
  ASSUME TypeOK, UpdateInv, NEW n \in {1, 2}, Draw(n)
  PROVE  nextUpdateID' = drawn' % IDs /\ drawn' = drawn + n /\ drawn \in Nat /\ drawn' \in Nat
<1>1. IDs \in Nat \ {0} /\ drawn \in Nat /\ drawn' = drawn + n /\ drawn' \in Nat
  BY BoundsAssumption DEF TypeOK, Draw
<1>2. ((drawn % IDs) + 1) % IDs = (drawn + 1) % IDs
  BY <1>1, ModNext
<1>3. CASE n = 1
  BY <1>1, <1>2, <1>3 DEF Draw, UpdateInv
<1>4. CASE n = 2
  <2> DEFINE a == drawn + 1
             b == (drawn % IDs) + 1
  <2>1. a \in Nat /\ b \in Nat /\ a + 1 = drawn + 2 /\ b + 1 = (drawn % IDs) + 2
    BY <1>1
  <2>2. a % IDs = b % IDs
    BY <1>2
  <2> HIDE DEF a, b
  <2>3. ((a % IDs) + 1) % IDs = (a + 1) % IDs /\ ((b % IDs) + 1) % IDs = (b + 1) % IDs
    BY <1>1, <2>1, ModNext
  <2> QED
    BY <1>1, <1>4, <2>1, <2>2, <2>3 DEF Draw, UpdateInv
<1> QED
  BY <1>1, <1>3, <1>4

\* One or two entries take the next IDs.
LEMMA EntriesTakeNext ==
  ASSUME TypeOK, UpdateInv, NEW p \in Pushers, NEW m \in Nat
  PROVE  /\ LET s == <<FirstEntry(p)>>
            IN /\ s \in Seq(Message) /\ InOrder(s)
               /\ drawn + 1 <= m => Taken(s, drawn, m)
         /\ LET s == <<FirstEntry(p), SecondEntry(p)>>
            IN /\ s \in Seq(Message) /\ InOrder(s)
               /\ drawn + 2 <= m => Taken(s, drawn, m)
<1> DEFINE e == FirstEntry(p)
           f == SecondEntry(p)
<1>1. IDs \in Nat \ {0} /\ drawn \in Nat
  BY BoundsAssumption DEF TypeOK
<1>2. (nextUpdateID + 1) % IDs = (drawn + 1) % IDs
  BY <1>1, ModNext DEF UpdateInv
<1>3. /\ e \in Message /\ e.nth = drawn /\ e.id = drawn % IDs
      /\ f \in Message /\ f.nth = drawn + 1 /\ f.id = (drawn + 1) % IDs
  BY <1>2, NextIsID, EntryIsMessage DEF FirstEntry, SecondEntry, UpdateInv
<1> HIDE DEF e, f
<1>4. <<e>> \in Seq(Message) /\ InOrder(<<e>>) /\ (drawn + 1 <= m => Taken(<<e>>, drawn, m))
  BY <1>1, <1>3 DEF InOrder, Taken
<1>5. <<e, f>> \in Seq(Message) /\ InOrder(<<e, f>>) /\ (drawn + 2 <= m => Taken(<<e, f>>, drawn, m))
  BY <1>1, <1>3 DEF InOrder, Taken
<1> QED
  BY <1>4, <1>5 DEF e, f

\* A step of SendEntry or SendEntries.
LEMMA UpdateInvDrawn ==
  ASSUME TypeOK, UpdateInv, NEW p \in Pushers, NEW n \in {1, 2}, Draw(n),
         \/ UNCHANGED output
         \/ \E ok \in BOOLEAN : Buffer(<<FirstEntry(p)>>, ok) \/ Flush(<<FirstEntry(p)>>, ok)
         \/ n = 2 /\ \E ok \in BOOLEAN : Flush(<<FirstEntry(p), SecondEntry(p)>>, ok)
  PROVE  UpdateInv'
<1> DEFINE s == <<FirstEntry(p)>>
           t == <<FirstEntry(p), SecondEntry(p)>>
<1>1. /\ nextUpdateID' = drawn' % IDs /\ drawn \in Nat /\ drawn' \in Nat
      /\ drawn + 1 <= drawn' /\ drawn <= drawn' /\ (n = 2 => drawn + 2 <= drawn')
  BY NextAfterDraw
<1>2. /\ s \in Seq(Message) /\ InOrder(s) /\ Taken(s, drawn, drawn')
      /\ t \in Seq(Message) /\ InOrder(t) /\ (n = 2 => Taken(t, drawn, drawn'))
  BY <1>1, EntriesTakeNext
<1>3. \/ UNCHANGED output
      \/ \E ok \in BOOLEAN : Buffer(s, ok) \/ Flush(s, ok)
      \/ n = 2 /\ \E ok \in BOOLEAN : Flush(t, ok)
  OBVIOUS
<1> HIDE DEF s, t
<1>4. CASE UNCHANGED output
  <2>1. Output \in Seq(Message)
    BY ConcatProperties DEF TypeOK, Output
  <2>2. \A i \in 1 .. Len(Output) : Output[i].type = "entry" => Output[i].nth \in Nat
    BY <2>1, EntryHasNumber, ElementOfSeq
  <2>3. Output' = Output
    BY <1>4 DEF Output, output
  <2>4. InOrder(Output)'
    BY <2>3 DEF UpdateInv, InOrder
  <2>5. Taken(Output, 0, drawn)'
    BY <1>1, <2>2, <2>3 DEF UpdateInv, Taken
  <2> QED
    BY <1>1, <2>4, <2>5 DEF UpdateInv
<1>5. ASSUME NEW ok \in BOOLEAN, Buffer(s, ok) \/ Flush(s, ok) PROVE UpdateInv'
  <2>1. InOrder(Output)' /\ Taken(Output, 0, drawn)'
    BY <1>1, <1>2, <1>5, UpdateInvKept
  <2> QED
    BY <1>1, <2>1 DEF UpdateInv
<1>6. ASSUME n = 2, NEW ok \in BOOLEAN, Flush(t, ok) PROVE UpdateInv'
  <2>1. InOrder(Output)' /\ Taken(Output, 0, drawn)'
    BY <1>1, <1>2, <1>6, UpdateInvKept
  <2> QED
    BY <1>1, <2>1 DEF UpdateInv
<1> QED
  BY <1>3, <1>4, <1>5, <1>6

LEMMA UpdateStep == TypeOK /\ UpdateInv /\ [Next]_vars => UpdateInv'
<1> SUFFICES ASSUME TypeOK, UpdateInv, [Next]_vars PROVE UpdateInv'
  OBVIOUS
<1>1. CASE \/ CancelBase \/ Serve \/ Timers \/ PeerSends \/ PeerCloses \/ UNCHANGED vars
           \/ \E p \in Pushers : SendTableDefinition(p) \/ SendTableSwitch(p) \/ FlushTable(p)
  <2>1. /\ UNCHANGED <<nextUpdateID, drawn>>
        /\ \/ UNCHANGED output
           \/ \E ok \in BOOLEAN : Flush(<<>>, ok) \/ Flush(<<Status>>, ok)
           \/ \E p \in Pushers, type \in {"definition", "switch"}, ok \in BOOLEAN :
                 Buffer(<<Table(type, p)>>, ok)
    <3>1. CASE CancelBase \/ PeerSends \/ PeerCloses \/ UNCHANGED vars
      BY <3>1 DEF CancelBase, PeerSends, PeerCloses, vars, pusher
    <3>2. CASE Serve
      BY <3>2 DEF Serve, ReadHandshake, WriteStatus, ReadMessage, ReadSyncRequest, ReadFails,
                  CloseConn, Close, HandlerClosed, LockedWrite, pusher
    <3>3. CASE Timers
      BY <3>3 DEF Timers, Heartbeat, LastMessage, Close, HandlerClosed, LockedWrite, pusher
    <3>4. ASSUME NEW p \in Pushers,
                 SendTableDefinition(p) \/ SendTableSwitch(p) \/ FlushTable(p)
          PROVE  /\ UNCHANGED <<nextUpdateID, drawn>>
                 /\ \/ UNCHANGED output
                    \/ \E ok \in BOOLEAN : Flush(<<>>, ok)
                    \/ \E type \in {"definition", "switch"}, ok \in BOOLEAN :
                          Buffer(<<Table(type, p)>>, ok)
      BY <3>4, BufferedStep DEF SendTableDefinition, SendTableSwitch, FlushTable
    <3> QED
      BY <1>1, <3>1, <3>2, <3>3, <3>4
  <2> QED
    BY <2>1, UpdateInvUntouched
<1>2. ASSUME NEW p \in Pushers, SendEntry(p) PROVE UpdateInv'
  BY <1>2, UpdateInvDrawn DEF SendEntry
<1>3. ASSUME NEW p \in Pushers, SendEntries(p) PROVE UpdateInv'
  BY <1>3, UpdateInvDrawn DEF SendEntries
<1> QED
  BY <1>1, <1>2, <1>3 DEF Next, Push

\* On the wire and in the shared buffer the entries are in the order of their update
\* IDs, and an ID comes back only after a turn through all of them, although SendEntry
\* and SendEntries use IDs up before they can fail (writer.go:171), may leave entries
\* behind for another goroutine's flush, and count in a uint32 that wraps.
THEOREM UpdateIDsKeepOrder == Spec => []UpdateIDsInOrder
<1>1. Init => UpdateInv
  <2> SUFFICES ASSUME Init PROVE UpdateInv
    OBVIOUS
  <2>1. Output = <<>> /\ drawn = 0 /\ nextUpdateID = 0
    BY DEF Init, Output
  <2>2. 0 % IDs = 0
    BY BoundsAssumption
  <2> QED
    BY <2>1, <2>2 DEF UpdateInv, InOrder, Taken
<1>2. TypeOK /\ UpdateInv => UpdateIDsInOrder
  <2> SUFFICES ASSUME TypeOK, UpdateInv, NEW i \in DOMAIN Output, NEW j \in DOMAIN Output,
                      i < j, Output[i].type = "entry", Output[j].type = "entry"
               PROVE  /\ Output[i].nth < Output[j].nth
                      /\ Output[i].id = Output[j].id => Output[j].nth - Output[i].nth >= IDs
    BY DEF UpdateIDsInOrder
  <2>1. Output \in Seq(Message) /\ i \in 1 .. Len(Output) /\ j \in 1 .. Len(Output)
    BY ConcatProperties DEF TypeOK, Output
  <2>2. Output[i].nth \in Nat /\ Output[j].nth \in Nat
    BY <2>1, EntryHasNumber, ElementOfSeq
  <2>3. Output[i].nth < Output[j].nth
    BY <2>1 DEF UpdateInv, InOrder
  <2>4. Output[i].id = Output[i].nth % IDs /\ Output[j].id = Output[j].nth % IDs
    BY <2>1 DEF UpdateInv, Taken
  <2> QED
    BY <2>2, <2>3, <2>4, ModRepeats, BoundsAssumption
<1> QED
  BY <1>1, <1>2, UpdateStep, TypeCorrect, PTL DEF Spec
===============================================================================

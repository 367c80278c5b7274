-------------------------- MODULE FrameQueueProofs --------------------------
(****************************************************************************)
(* Proofs about FrameQueue for every number of connections, workers and     *)
(* frames and every capacity.                                               *)
(****************************************************************************)
EXTENDS FrameQueue, FiniteSetTheorems, SequenceTheorems, TLAPS

-----------------------------------------------------------------------------
(* Arithmetic modulo the capacity *)

\* Below the modulus, % is the identity.
LEMMA ModSmall == ASSUME NEW n \in Nat \ {0}, NEW x \in 0 .. n - 1
                  PROVE  x % n = x
  OBVIOUS

\* One turn further, % subtracts the modulus.
LEMMA ModWrap == ASSUME NEW n \in Nat \ {0}, NEW x \in n .. 2 * n - 1
                 PROVE  x % n = x - n
  OBVIOUS

\* The slot k places after slot h, without %.
LEMMA AtValue ==
  ASSUME NEW h \in Slots, NEW k \in 0 .. Cap
  PROVE  /\ At(h, k) = IF h + k < Cap THEN h + k ELSE h + k - Cap
         /\ At(h, k) \in Slots
<1> USE CapAssumption DEF Slots
<1>1. CASE h + k < Cap
  <2>1. h + k \in 0 .. Cap - 1
    BY <1>1
  <2>2. (h + k) % Cap = h + k
    BY <2>1, ModSmall
  <2> QED
    BY <1>1, <2>1, <2>2 DEF At
<1>2. CASE ~ (h + k < Cap)
  <2>1. h + k \in Cap .. 2 * Cap - 1
    BY <1>2
  <2>2. (h + k) % Cap = h + k - Cap
    BY <2>1, ModWrap
  <2> QED
    BY <1>2, <2>1, <2>2 DEF At
<1> QED
  BY <1>1, <1>2

\* A step of Advance keeps an index in the ring.
LEMMA AdvanceInSlots == ASSUME NEW i \in Slots PROVE Advance(i) \in Slots
  BY CapAssumption, AtValue DEF Advance

-----------------------------------------------------------------------------
(* sync.Cond *)

\* Signal removes one waiter if there is one.
LEMMA SignalEffect ==
  ASSUME NEW S, NEW T \in AfterSignal(S)
  PROVE  \/ S = {} /\ T = {}
         \/ \E p \in S : T = S \ {p}
  BY DEF AfterSignal

-----------------------------------------------------------------------------
(* Types, and where the goroutines are *)

\* The initial state has the types and goroutine states.
LEMMA BasicInit == Init => TypeOK /\ GoroutineState
  BY CapAssumption DEF Init, TypeOK, GoroutineState, Slots

\* Every step of Serve or queueWorker keeps the types and goroutine states; the
\* cases are the critical sections of spop/scheduler.go.
LEMMA BasicStep == TypeOK /\ GoroutineState /\ [Next]_vars
                     => TypeOK' /\ GoroutineState'
<1> SUFFICES ASSUME TypeOK, GoroutineState, [Next]_vars
             PROVE  TypeOK' /\ GoroutineState'
  OBVIOUS
<1> USE NilAssumption, CapAssumption DEF TypeOK, GoroutineState
<1>1. ASSUME NEW c \in Conns, Acquire(c)
      PROVE  TypeOK' /\ GoroutineState'
  BY <1>1 DEF Acquire, ring, conds
<1>2. ASSUME NEW c \in Conns, ReadFrame(c)
      PROVE  TypeOK' /\ GoroutineState'
  BY <1>2 DEF ReadFrame, ring, conds
<1>3. ASSUME NEW c \in Conns, DropFrame(c)
      PROVE  TypeOK' /\ GoroutineState'
  BY <1>3 DEF DropFrame, ReleaseFrame, ring, conds
<1>4. ASSUME NEW c \in Conns, PutWait(c)
      PROVE  TypeOK' /\ GoroutineState'
  BY <1>4 DEF PutWait, ring
<1>5. ASSUME NEW c \in Conns, PutElem(c)
      PROVE  TypeOK' /\ GoroutineState'
  <2>1. frame[c] \in Frames /\ [f |-> frame[c], pc |-> c] \in Elems
    BY <1>5 DEF PutElem, Elems
  <2>2. elems' \in [Slots -> Elems \cup {Nil}]
    BY <1>5, <2>1 DEF PutElem
  <2>3. tail' \in Slots
    BY <1>5, AdvanceInSlots DEF PutElem
  <2>4. size' \in 0 .. Cap
    BY <1>5 DEF PutElem, IsFull
  <2>5. notEmptyCond' \subseteq notEmptyCond
    BY <1>5, SignalEffect DEF PutElem, SignalNotEmpty
  <2> QED
    BY <1>5, <2>2, <2>3, <2>4, <2>5 DEF PutElem
<1>6. ASSUME NEW w \in Workers, GetWait(w)
      PROVE  TypeOK' /\ GoroutineState'
  BY <1>6 DEF GetWait, ring
<1>7. ASSUME NEW w \in Workers, GetElem(w)
      PROVE  TypeOK' /\ GoroutineState'
  <2>1. item' \in [Workers -> Elems \cup {Nil}]
    BY <1>7 DEF GetElem, Front
  <2>2. head' \in Slots
    BY <1>7, AdvanceInSlots DEF GetElem
  <2>3. size' \in 0 .. Cap
    BY <1>7 DEF GetElem, IsEmpty
  <2>4. notFullCond' \subseteq notFullCond
    BY <1>7, SignalEffect DEF GetElem, SignalNotFull
  <2> QED
    BY <1>7, <2>1, <2>2, <2>3, <2>4 DEF GetElem
<1>8. ASSUME NEW w \in Workers, FrameHandler(w)
      PROVE  TypeOK' /\ GoroutineState'
  BY <1>8 DEF FrameHandler, ReleaseFrame, ring, conds, Elems
<1>9. CASE UNCHANGED vars
  BY <1>9 DEF vars, ring, conds
<1> QED
  BY <1>1, <1>2, <1>3, <1>4, <1>5, <1>6, <1>7, <1>8, <1>9
     DEF Next, Serve, QueueWorker

\* The indices stay inside the ring, size between 0 and the capacity, and only
\* goroutines inside Put or between two elements wait on a condition.
THEOREM TypeCorrect == Spec => [](TypeOK /\ GoroutineState)
  BY BasicInit, BasicStep, PTL DEF Spec

-----------------------------------------------------------------------------
(* No wake-up is lost *)

\* The sets that NoLostWakeup counts are finite.
LEMMA CountedSets == /\ IsFiniteSet(Putting) /\ Cardinality(Putting) \in Nat
                     /\ IsFiniteSet(Getting) /\ Cardinality(Getting) \in Nat
<1>1. Putting \in SUBSET Conns /\ Getting \in SUBSET Workers
  BY DEF Putting, Getting
<1> QED
  BY <1>1, ConnsAssumption, WorkersAssumption, FS_Subset, FS_CardinalityType

\* Initially nobody waits.
LEMMA NoLostWakeupInit == Init => NoLostWakeup
  BY DEF Init, NoLostWakeup

\* No step loses a wake-up: each Signal wakes a waiter whenever the counts of
\* NoLostWakeup would otherwise fall short.
LEMMA NoLostWakeupStep ==
  TypeOK /\ GoroutineState /\ NoLostWakeup /\ [Next]_vars => NoLostWakeup'
<1> SUFFICES ASSUME TypeOK, GoroutineState, NoLostWakeup, [Next]_vars
             PROVE  NoLostWakeup'
  OBVIOUS
<1>a. Cap \in Nat /\ size \in Nat /\ size <= Cap
  BY CapAssumption DEF TypeOK
\* A step that changes neither the queue nor who waits, and takes nobody off the
\* way into Put or Get.
<1>b. ASSUME UNCHANGED <<size, notFullCond, notEmptyCond>>,
             Putting \subseteq Putting', Getting \subseteq Getting',
             IsFiniteSet(Putting'), IsFiniteSet(Getting')
      PROVE  NoLostWakeup'
  <2>1. Cardinality(Putting) <= Cardinality(Putting')
    BY <1>b, FS_Subset
  <2>2. Cardinality(Getting) <= Cardinality(Getting')
    BY <1>b, FS_Subset
  <2>3. Cardinality(Putting') \in Nat /\ Cardinality(Getting') \in Nat
    BY <1>b, FS_CardinalityType
  <2> QED
    BY <1>a, <1>b, <2>1, <2>2, <2>3, CountedSets DEF NoLostWakeup
<1>c. IsFiniteSet(Putting') /\ IsFiniteSet(Getting')
  <2>1. Putting' \in SUBSET Conns /\ Getting' \in SUBSET Workers
    BY DEF Putting, Getting
  <2> QED
    BY <2>1, ConnsAssumption, WorkersAssumption, FS_Subset
<1>d. Cardinality(Putting') \in Nat /\ Cardinality(Getting') \in Nat
  BY <1>c, FS_CardinalityType
<1>1. ASSUME NEW c \in Conns, Acquire(c)
      PROVE  NoLostWakeup'
  <2>1. Putting \subseteq Putting' /\ Getting \subseteq Getting'
    BY <1>1 DEF Acquire, Putting, Getting, conds, TypeOK
  <2> QED
    BY <1>1, <1>b, <1>c, <2>1 DEF Acquire, ring, conds
<1>2. ASSUME NEW c \in Conns, ReadFrame(c)
      PROVE  NoLostWakeup'
  <2>1. Putting \subseteq Putting' /\ Getting \subseteq Getting'
    BY <1>2 DEF ReadFrame, Putting, Getting, conds, TypeOK
  <2> QED
    BY <1>2, <1>b, <1>c, <2>1 DEF ReadFrame, ring, conds
<1>3. ASSUME NEW c \in Conns, DropFrame(c)
      PROVE  NoLostWakeup'
  <2>1. Putting \subseteq Putting' /\ Getting \subseteq Getting'
    BY <1>3 DEF DropFrame, Putting, Getting, conds, TypeOK
  <2> QED
    BY <1>3, <1>b, <1>c, <2>1 DEF DropFrame, ring, conds
<1>4. ASSUME NEW c \in Conns, PutWait(c)
      PROVE  NoLostWakeup'
  <2>1. Getting' = Getting
    BY <1>4 DEF PutWait, Getting
  <2>2. Cap - size' <= Cardinality(Putting')
    BY <1>4, <1>a, <1>d DEF PutWait, IsFull, ring
  <2> QED
    BY <1>4, <1>a, <2>1, <2>2 DEF PutWait, ring, NoLostWakeup
<1>5. ASSUME NEW c \in Conns, PutElem(c)
      PROVE  NoLostWakeup'
  <2>1. c \in Putting /\ Putting' = Putting \ {c}
    BY <1>5 DEF PutElem, Putting, TypeOK
  <2>2. Cardinality(Putting') = Cardinality(Putting) - 1
    BY <2>1, CountedSets, FS_RemoveElement
  <2>3. size' = size + 1 /\ notFullCond' = notFullCond
    BY <1>5 DEF PutElem
  <2>4. CASE notEmptyCond = {}
    <3>1. notEmptyCond' = {}
      BY <1>5, <2>4, SignalEffect DEF PutElem, SignalNotEmpty
    <3> QED
      BY <1>a, <1>d, <2>2, <2>3, <3>1, CountedSets DEF NoLostWakeup
  <2>5. CASE notEmptyCond # {}
    <3>1. PICK p \in notEmptyCond : notEmptyCond' = notEmptyCond \ {p}
      BY <1>5, <2>5, SignalEffect DEF PutElem, SignalNotEmpty
    <3>2. p \notin Getting /\ Getting' = Getting \cup {p}
      BY <1>5, <3>1 DEF PutElem, Getting, GoroutineState, TypeOK
    <3>3. Cardinality(Getting') = Cardinality(Getting) + 1
      BY <3>2, CountedSets, FS_AddElement
    <3> QED
      BY <1>a, <1>d, <2>2, <2>3, <2>5, <3>3, CountedSets DEF NoLostWakeup
  <2> QED
    BY <2>4, <2>5
<1>6. ASSUME NEW w \in Workers, GetWait(w)
      PROVE  NoLostWakeup'
  <2>1. Putting' = Putting
    BY <1>6 DEF GetWait, Putting
  <2>2. size' <= Cardinality(Getting')
    BY <1>6, <1>a, <1>d DEF GetWait, IsEmpty, ring
  <2> QED
    BY <1>6, <1>a, <2>1, <2>2 DEF GetWait, ring, NoLostWakeup
<1>7. ASSUME NEW w \in Workers, GetElem(w)
      PROVE  NoLostWakeup'
  <2>1. w \in Getting /\ Getting \ {w} \subseteq Getting'
    BY <1>7 DEF GetElem, Getting, TypeOK
  <2>2. Cardinality(Getting) - 1 <= Cardinality(Getting')
    <3>1. /\ Cardinality(Getting \ {w}) = Cardinality(Getting) - 1
          /\ Cardinality(Getting \ {w}) <= Cardinality(Getting')
      BY <1>c, <2>1, CountedSets, FS_RemoveElement, FS_Subset
    <3> QED
      BY <3>1
  <2>3. size' = size - 1 /\ notEmptyCond' = notEmptyCond
    BY <1>7 DEF GetElem
  <2>4. CASE notFullCond = {}
    <3>1. notFullCond' = {}
      BY <1>7, <2>4, SignalEffect DEF GetElem, SignalNotFull
    <3> QED
      BY <1>a, <1>d, <2>2, <2>3, <3>1, CountedSets DEF NoLostWakeup
  <2>5. CASE notFullCond # {}
    <3>1. PICK p \in notFullCond : notFullCond' = notFullCond \ {p}
      BY <1>7, <2>5, SignalEffect DEF GetElem, SignalNotFull
    <3>2. p \notin Putting /\ Putting' = Putting \cup {p}
      BY <1>7, <3>1 DEF GetElem, Putting, GoroutineState, TypeOK
    <3>3. Cardinality(Putting') = Cardinality(Putting) + 1
      BY <3>2, CountedSets, FS_AddElement
    <3> QED
      BY <1>a, <1>d, <2>2, <2>3, <2>5, <3>3, CountedSets DEF NoLostWakeup
  <2> QED
    BY <2>4, <2>5
<1>8. ASSUME NEW w \in Workers, FrameHandler(w)
      PROVE  NoLostWakeup'
  <2>1. Putting \subseteq Putting' /\ Getting \subseteq Getting'
    BY <1>8 DEF FrameHandler, Putting, Getting, conds, TypeOK
  <2> QED
    BY <1>8, <1>b, <1>c, <2>1 DEF FrameHandler, ring, conds
<1>9. CASE UNCHANGED vars
  <2>1. Putting' = Putting /\ Getting' = Getting
    BY <1>9 DEF vars, conds, Putting, Getting
  <2> QED
    BY <1>9, <1>b, <1>c, <2>1 DEF vars, ring, conds
<1> QED
  BY <1>1, <1>2, <1>3, <1>4, <1>5, <1>6, <1>7, <1>8, <1>9
     DEF Next, Serve, QueueWorker

\* Put and Get signal at most one goroutine each and a woken goroutine may be
\* overtaken, yet no connection sleeps on free slots and no worker on elements:
\* the invariant of sync.Cond that the queue of spop/scheduler.go depends on,
\* for every number of connections and workers and every capacity.
THEOREM WakeupsAreNotLost == Spec => []NoLostWakeup
<1>1. Init => TypeOK /\ GoroutineState /\ NoLostWakeup
  BY BasicInit, NoLostWakeupInit
<1>2. TypeOK /\ GoroutineState /\ NoLostWakeup /\ [Next]_vars
        => (TypeOK /\ GoroutineState /\ NoLostWakeup)'
  BY BasicStep, NoLostWakeupStep
<1> QED
  BY <1>1, <1>2, PTL DEF Spec

-----------------------------------------------------------------------------
(* The ring *)

\* Different offsets below the capacity are different slots.
LEMMA AtInjective ==
  ASSUME NEW h \in Slots, NEW j \in Slots, NEW k \in Slots, At(h, j) = At(h, k)
  PROVE  j = k
<1>1. j \in 0 .. Cap /\ k \in 0 .. Cap
  BY CapAssumption DEF Slots
<1>2. /\ At(h, j) = IF h + j < Cap THEN h + j ELSE h + j - Cap
      /\ At(h, k) = IF h + k < Cap THEN h + k ELSE h + k - Cap
  BY <1>1, AtValue
<1>3. h \in Int /\ j \in Int /\ k \in Int /\ Cap \in Int /\ 0 <= j /\ j < Cap /\ 0 <= k /\ k < Cap
  BY CapAssumption DEF Slots
<1>4. (IF h + j < Cap THEN h + j ELSE h + j - Cap) = (IF h + k < Cap THEN h + k ELSE h + k - Cap)
  BY <1>2
<1> QED
  BY <1>3, <1>4

\* Advancing the start or the end of an offset is adding one to it.
LEMMA AtShift ==
  ASSUME NEW h \in Slots, NEW k \in Slots
  PROVE  /\ At(Advance(h), k) = At(h, k + 1)
         /\ Advance(At(h, k)) = At(h, k + 1)
<1>1. k \in 0 .. Cap /\ k + 1 \in 0 .. Cap /\ 1 \in 0 .. Cap
  BY CapAssumption DEF Slots
<1>2. /\ At(h, k) = IF h + k < Cap THEN h + k ELSE h + k - Cap
      /\ At(h, k) \in Slots
      /\ At(h, k + 1) = IF h + (k + 1) < Cap THEN h + (k + 1) ELSE h + (k + 1) - Cap
  BY <1>1, AtValue
<1>3. \A i \in Slots : /\ Advance(i) = IF i + 1 < Cap THEN i + 1 ELSE i + 1 - Cap
                       /\ Advance(i) \in Slots
  BY <1>1, AtValue DEF Advance
<1>4. At(Advance(h), k)
        = IF Advance(h) + k < Cap THEN Advance(h) + k ELSE Advance(h) + k - Cap
  BY <1>1, <1>3, AtValue
<1> QED
  BY <1>2, <1>3, <1>4, CapAssumption DEF Slots

\* Put extends the window by the slot tail points to, which was outside it.
LEMMA PutWindow ==
  ASSUME TypeOK, RingWindow, NEW c \in Conns, PutElem(c)
  PROVE  /\ tail \notin Live
         /\ Live' = Live \cup {tail}
         /\ tail' = At(head', size')
<1>1. head \in Slots /\ size \in Slots /\ tail = At(head, size)
  BY CapAssumption DEF TypeOK, RingWindow, PutElem, IsFull, Slots
<1>2. head' = head /\ size' = size + 1 /\ tail' = Advance(tail)
  BY DEF PutElem
<1>3. tail \notin Live
  <2>1. \A k \in 0 .. size - 1 : k \in Slots /\ k # size
    BY <1>1, CapAssumption DEF Slots
  <2> QED
    BY <1>1, <2>1, AtInjective DEF Live
<1>4. Live' = Live \cup {tail}
  <2>1. 0 .. size' - 1 = (0 .. size - 1) \cup {size}
    BY <1>1, <1>2 DEF Slots
  <2> QED
    BY <1>1, <1>2, <2>1 DEF Live
<1>5. tail' = At(head', size')
  BY <1>1, <1>2, AtShift
<1> QED
  BY <1>3, <1>4, <1>5

\* Get takes its slot, the one head points to, out of the window.
LEMMA GetWindow ==
  ASSUME TypeOK, RingWindow, NEW w \in Workers, GetElem(w)
  PROVE  /\ head \in Live
         /\ Live' = Live \ {head}
         /\ tail' = At(head', size')
<1>1. head \in Slots /\ size \in 1 .. Cap /\ tail = At(head, size)
  BY CapAssumption DEF TypeOK, RingWindow, GetElem, IsEmpty, Slots
<1>2. head' = Advance(head) /\ size' = size - 1 /\ tail' = tail
  BY DEF GetElem
<1>3. At(head, 0) = head /\ 0 \in 0 .. size - 1
  BY <1>1, CapAssumption, AtValue DEF Slots
<1>4. head \in Live
  BY <1>3 DEF Live
<1>5. \A k \in 0 .. size' - 1 : /\ k + 1 \in 0 .. size - 1 /\ k + 1 # 0
                                /\ k + 1 \in Slots /\ k \in Slots
                                /\ At(head', k) = At(head, k + 1)
  BY <1>1, <1>2, CapAssumption, AtShift DEF Slots
<1>6. \A j \in 0 .. size - 1 : j # 0 => j - 1 \in 0 .. size' - 1 /\ j = (j - 1) + 1
  BY <1>1, <1>2
<1>7. 0 \in Slots
  BY CapAssumption DEF Slots
<1>8. head \notin Live'
  BY <1>1, <1>3, <1>5, <1>7, AtInjective DEF Live
<1>9. Live' \subseteq Live
  BY <1>5 DEF Live
<1>10. \A i \in Live : i # head => i \in Live'
  <2> SUFFICES ASSUME NEW j \in 0 .. size - 1, At(head, j) # head
               PROVE  At(head, j) \in Live'
    BY DEF Live
  <2>1. j # 0
    BY <1>3
  <2>2. At(head', j - 1) = At(head, j) /\ j - 1 \in 0 .. size' - 1
    BY <1>5, <1>6, <2>1
  <2> QED
    BY <2>2 DEF Live
<1>11. tail' = At(head', size')
  <2>1. size' \in Slots /\ size' + 1 = size
    BY <1>1, <1>2, CapAssumption DEF Slots
  <2> QED
    BY <1>1, <1>2, <2>1, AtShift
<1> QED
  BY <1>4, <1>8, <1>9, <1>10, <1>11

\* The empty ring is a window.
LEMMA RingInit == Init => RingWindow
<1> SUFFICES ASSUME Init PROVE RingWindow
  OBVIOUS
<1>1. At(0, 0) = 0
  BY CapAssumption, AtValue DEF Slots
<1>2. Live = {}
  BY DEF Init, Live
<1> QED
  BY <1>1, <1>2 DEF Init, RingWindow

\* Put and Get keep the ring a window; nothing else touches it.
LEMMA RingStep == TypeOK /\ GoroutineState /\ RingWindow /\ [Next]_vars => RingWindow'
<1> SUFFICES ASSUME TypeOK, GoroutineState, RingWindow, [Next]_vars
             PROVE  RingWindow'
  OBVIOUS
<1>1. ASSUME NEW c \in Conns, PutElem(c)
      PROVE  RingWindow'
  <2>1. [f |-> frame[c], pc |-> c] \in Elems
    BY <1>1 DEF PutElem, Elems, TypeOK, GoroutineState
  <2>2. elems' = [elems EXCEPT ![tail] = [f |-> frame[c], pc |-> c]]
    BY <1>1 DEF PutElem
  <2>3. tail \in Slots /\ Live' = Live \cup {tail} /\ tail' = At(head', size')
    BY <1>1, PutWindow DEF TypeOK
  <2>4. \A i \in Live' : elems'[i] # Nil
    BY <2>1, <2>2, <2>3, NilAssumption DEF RingWindow, TypeOK
  <2> QED
    BY <2>3, <2>4 DEF RingWindow, At
<1>2. ASSUME NEW w \in Workers, GetElem(w)
      PROVE  RingWindow'
  BY <1>2, GetWindow DEF GetElem, RingWindow, At
<1>3. CASE UNCHANGED ring
  BY <1>3 DEF ring, RingWindow, Live, At
<1> QED
  BY <1>1, <1>2, <1>3 DEF Next, Serve, QueueWorker, Acquire, ReadFrame,
     DropFrame, PutWait, GetWait, FrameHandler, vars

-----------------------------------------------------------------------------
(* Who uses which frame *)

Structure == TypeOK /\ GoroutineState /\ RingWindow

\* What the proofs below use of the structure: everything that is held is a frame.
LEMMA HeldFrames ==
  ASSUME Structure
  PROVE  /\ \A i \in Live : i \in Slots /\ elems[i] \in Elems /\ elems[i].f \in Frames
                            /\ elems[i].pc \in Conns
         /\ \A w \in Workers : item[w] # Nil => item[w] \in Elems /\ item[w].f \in Frames
         /\ \A c \in Conns : frame[c] # Nil => frame[c] \in Frames
<1>1. \A i \in Live : i \in Slots
  <2> SUFFICES ASSUME NEW k \in 0 .. size - 1 PROVE At(head, k) \in Slots
    BY DEF Live
  <2>1. k \in 0 .. Cap /\ head \in Slots
    BY CapAssumption DEF Structure, TypeOK
  <2> QED
    BY <2>1, AtValue
<1> QED
  BY <1>1 DEF Structure, TypeOK, RingWindow, Elems

\* Initially every frame is in the pool.
LEMMA OwnershipInit == Init => ExclusiveOwnership /\ RightClient
<1> SUFFICES ASSUME Init PROVE ExclusiveOwnership /\ RightClient
  OBVIOUS
<1>1. Live = {}
  BY DEF Init, Live
<1> QED
  BY <1>1 DEF Init, ExclusiveOwnership, RightClient, ServeFrames, QueuedFrames, WorkerFrames

\* Every step moves a frame from one user to another, or changes none: acquireFrame,
\* Put, Get and releaseFrame are the only transfers.
LEMMA OwnershipStep ==
  Structure /\ ExclusiveOwnership /\ RightClient /\ [Next]_vars
    => ExclusiveOwnership' /\ RightClient'
<1> SUFFICES ASSUME Structure, ExclusiveOwnership, RightClient, [Next]_vars
             PROVE  ExclusiveOwnership' /\ RightClient'
  OBVIOUS
<1> USE DEF Structure
<1>a. ASSUME UNCHANGED ring PROVE Live' = Live /\ elems' = elems
  BY <1>a DEF ring, Live, At
<1>1. ASSUME NEW c \in Conns, Acquire(c)
      PROVE  ExclusiveOwnership' /\ RightClient'
  <2>1. PICK f \in pool : /\ frame' = [frame EXCEPT ![c] = f]
                          /\ pool' = pool \ {f}
    BY <1>1 DEF Acquire
  <2>2. f \in Frames /\ f # Nil
    BY NilAssumption DEF TypeOK
  <2>3. /\ ServeFrames' = ServeFrames \cup {f}
        /\ QueuedFrames' = QueuedFrames
        /\ WorkerFrames' = WorkerFrames
    BY <1>1, <1>a, <2>1, <2>2
       DEF Acquire, ServeFrames, QueuedFrames, WorkerFrames, TypeOK, GoroutineState
  <2>4. ExclusiveOwnership'
    BY <1>1, <1>a, <2>1, <2>2, <2>3 DEF Acquire, ExclusiveOwnership, TypeOK, ServeFrames
  <2>5. RightClient'
    BY <1>1, <1>a, <2>1 DEF Acquire, RightClient, TypeOK
  <2> QED
    BY <2>4, <2>5
<1>2. ASSUME NEW c \in Conns, ReadFrame(c)
      PROVE  ExclusiveOwnership' /\ RightClient'
  <2>1. /\ ServeFrames' = ServeFrames
        /\ QueuedFrames' = QueuedFrames
        /\ WorkerFrames' = WorkerFrames
    BY <1>2, <1>a DEF ReadFrame, ServeFrames, QueuedFrames, WorkerFrames
  <2>2. ExclusiveOwnership'
    BY <1>2, <1>a, <2>1 DEF ReadFrame, ExclusiveOwnership
  <2>3. frame[c] \in ServeFrames /\ frame[c] \in Frames
    BY <1>2 DEF ReadFrame, ServeFrames, TypeOK, GoroutineState
  <2>4. RightClient'
    BY <1>2, <1>a, <2>3, HeldFrames, SMTT(30) DEF ReadFrame, ExclusiveOwnership, RightClient,
       ServeFrames, QueuedFrames, WorkerFrames, TypeOK, GoroutineState
  <2> QED
    BY <2>2, <2>4
<1>3. ASSUME NEW c \in Conns, DropFrame(c)
      PROVE  ExclusiveOwnership' /\ RightClient'
  <2>1. frame[c] \in Frames /\ frame[c] # Nil /\ frame[c] \in ServeFrames
    BY <1>3, NilAssumption DEF DropFrame, ServeFrames, TypeOK, GoroutineState
  <2>2. /\ ServeFrames' = ServeFrames \ {frame[c]}
        /\ QueuedFrames' = QueuedFrames
        /\ WorkerFrames' = WorkerFrames
    BY <1>3, <1>a, <2>1
       DEF DropFrame, ServeFrames, QueuedFrames, WorkerFrames, TypeOK, ExclusiveOwnership
  <2>3. pool' = pool \cup {frame[c]}
    BY <1>3 DEF DropFrame, ReleaseFrame
  <2>4. ExclusiveOwnership'
    BY <1>3, <1>a, <2>1, <2>2, <2>3 DEF DropFrame, ExclusiveOwnership, TypeOK
  <2>5. RightClient'
    BY <1>3, <1>a, <2>1, HeldFrames, SMTT(30) DEF DropFrame, ReleaseFrame, ExclusiveOwnership, RightClient,
       ServeFrames, QueuedFrames, WorkerFrames, TypeOK, GoroutineState
  <2> QED
    BY <2>4, <2>5
<1>4. ASSUME NEW c \in Conns, PutElem(c)
      PROVE  ExclusiveOwnership' /\ RightClient'
  <2> DEFINE e == [f |-> frame[c], pc |-> c]
  <2>1. frame[c] \in Frames /\ frame[c] # Nil /\ frame[c] \in ServeFrames
    BY <1>4, NilAssumption DEF PutElem, ServeFrames, TypeOK, GoroutineState
  <2>2. /\ tail \in Slots /\ tail \notin Live /\ Live' = Live \cup {tail}
        /\ elems' = [elems EXCEPT ![tail] = e]
    BY <1>4, PutWindow DEF TypeOK, PutElem
  <2>3. /\ elems'[tail].f = frame[c] /\ elems'[tail].pc = c
        /\ \A i \in Live : elems'[i] = elems[i]
    BY <2>2, HeldFrames DEF TypeOK
  <2>4. /\ ServeFrames' = ServeFrames \ {frame[c]}
        /\ QueuedFrames' = QueuedFrames \cup {frame[c]}
        /\ WorkerFrames' = WorkerFrames
    <3>1. ServeFrames' = ServeFrames \ {frame[c]}
      BY <1>4, <2>1 DEF PutElem, ServeFrames, TypeOK, ExclusiveOwnership
    <3>2. QueuedFrames' = QueuedFrames \cup {frame[c]}
      BY <2>2, <2>3 DEF QueuedFrames
    <3> QED
      BY <1>4, <3>1, <3>2 DEF PutElem, WorkerFrames
  <2>5. /\ UNCHANGED <<item, pool, content>>
        /\ frame' = [frame EXCEPT ![c] = Nil]
        /\ serve' = [serve EXCEPT ![c] = "top"]
    BY <1>4 DEF PutElem
  <2>6. ExclusiveOwnership'
    <3>1. \A i, j \in Live' : elems'[i].f = elems'[j].f => i = j
      BY <2>1, <2>2, <2>3 DEF ExclusiveOwnership, QueuedFrames
    <3> QED
      BY <2>1, <2>4, <2>5, <3>1 DEF ExclusiveOwnership, TypeOK
  <2>7. RightClient'
    <3>1. content[frame[c]] = c
      BY <1>4 DEF PutElem, RightClient
    <3> QED
      BY <2>2, <2>3, <2>5, <3>1 DEF RightClient, TypeOK
  <2> QED
    BY <2>6, <2>7
<1>5. ASSUME NEW w \in Workers, GetElem(w)
      PROVE  ExclusiveOwnership' /\ RightClient'
  <2>1. /\ head \in Live /\ Live' = Live \ {head} /\ elems' = elems
        /\ item[w] = Nil /\ item' = [item EXCEPT ![w] = elems[head]]
        /\ UNCHANGED <<serve, frame, pool, content>>
    BY <1>5, GetWindow DEF GetElem, Front
  <2>2. elems[head] # Nil /\ elems[head].f \in QueuedFrames
    BY <2>1, HeldFrames, NilAssumption DEF QueuedFrames
  <2>3. /\ ServeFrames' = ServeFrames
        /\ QueuedFrames' = QueuedFrames \ {elems[head].f}
        /\ WorkerFrames' = WorkerFrames \cup {elems[head].f}
    <3>1. QueuedFrames' = QueuedFrames \ {elems[head].f}
      BY <2>1 DEF QueuedFrames, ExclusiveOwnership
    <3>2. WorkerFrames' = WorkerFrames \cup {elems[head].f}
      BY <2>1, <2>2 DEF WorkerFrames, TypeOK
    <3> QED
      BY <2>1, <3>1, <3>2 DEF ServeFrames
  <2>4. ExclusiveOwnership'
    <3>1. \A v, u \in Workers :
             item'[v] # Nil /\ item'[u] # Nil /\ item'[v].f = item'[u].f => v = u
      BY <2>1, <2>2 DEF ExclusiveOwnership, WorkerFrames, TypeOK
    <3> QED
      BY <2>1, <2>2, <2>3, <3>1 DEF ExclusiveOwnership
  <2>5. RightClient'
    BY <2>1 DEF RightClient, TypeOK
  <2> QED
    BY <2>4, <2>5
<1>6. ASSUME NEW w \in Workers, FrameHandler(w)
      PROVE  ExclusiveOwnership' /\ RightClient'
  <2>1. item[w] # Nil /\ item[w].f \in Frames /\ item[w].f \in WorkerFrames
    BY <1>6, HeldFrames DEF FrameHandler, WorkerFrames
  <2>2. /\ item' = [item EXCEPT ![w] = Nil]
        /\ content' = [content EXCEPT ![item[w].f] = Nil]
        /\ pool' = pool \cup {item[w].f}
        /\ UNCHANGED <<serve, frame>>
        /\ Live' = Live /\ elems' = elems
    BY <1>6, <1>a DEF FrameHandler, ReleaseFrame
  <2>3. /\ ServeFrames' = ServeFrames
        /\ QueuedFrames' = QueuedFrames
        /\ WorkerFrames' = WorkerFrames \ {item[w].f}
    <3>1. WorkerFrames' = WorkerFrames \ {item[w].f}
      BY <2>1, <2>2 DEF WorkerFrames, ExclusiveOwnership, TypeOK
    <3> QED
      BY <2>2, <3>1 DEF ServeFrames, QueuedFrames
  <2>4. ExclusiveOwnership'
    BY <2>1, <2>2, <2>3 DEF ExclusiveOwnership, TypeOK
  <2>5. RightClient'
    <3>1. \A f \in Frames \ {item[w].f} : content'[f] = content[f]
      BY <2>2 DEF TypeOK
    <3>2. \A c \in Conns : serve[c] = "schedule" =>
             frame[c] \in Frames /\ frame[c] # item[w].f
      BY <2>1, HeldFrames DEF ExclusiveOwnership, ServeFrames, GoroutineState
    <3>3. \A i \in Live : elems[i].f \in Frames /\ elems[i].f # item[w].f
      BY <2>1, HeldFrames DEF ExclusiveOwnership, QueuedFrames
    <3>4. \A v \in Workers : item'[v] # Nil =>
             item'[v] = item[v] /\ item[v].f \in Frames /\ item[v].f # item[w].f
      BY <2>1, <2>2, HeldFrames DEF ExclusiveOwnership, TypeOK
    <3> QED
      BY <2>2, <3>1, <3>2, <3>3, <3>4 DEF RightClient
  <2> QED
    BY <2>4, <2>5
<1>7. CASE UNCHANGED <<ring, serve, frame, item, pool, content>>
  <2>1. UNCHANGED <<ServeFrames, QueuedFrames, WorkerFrames>>
    BY <1>7, <1>a DEF ServeFrames, QueuedFrames, WorkerFrames
  <2> QED
    BY <1>7, <1>a, <2>1 DEF ExclusiveOwnership, RightClient
<1>8. \/ \E c \in Conns : Acquire(c) \/ ReadFrame(c) \/ DropFrame(c) \/ PutElem(c)
      \/ \E w \in Workers : GetElem(w) \/ FrameHandler(w)
      \/ UNCHANGED <<ring, serve, frame, item, pool, content>>
  BY DEF Next, Serve, QueueWorker, PutWait, GetWait, vars
<1> QED
  BY <1>1, <1>2, <1>3, <1>4, <1>5, <1>6, <1>7, <1>8

\* The inductive invariant of the queue.
IInv == Structure /\ NoLostWakeup /\ ExclusiveOwnership /\ RightClient

\* Types, the ring's window, no lost wake-up, one user per frame and the right
\* connection for every frame hold together, and only together are inductive.
THEOREM QueueInvariant == Spec => []IInv
<1>1. Init => IInv
  BY BasicInit, RingInit, NoLostWakeupInit, OwnershipInit DEF IInv, Structure
<1>2. IInv /\ [Next]_vars => IInv'
  BY BasicStep, RingStep, NoLostWakeupStep, OwnershipStep DEF IInv, Structure
<1> QED
  BY <1>1, <1>2, PTL DEF Spec

\* head, tail and size always describe one window of set slots.
THEOREM RingIsAWindow == Spec => []RingWindow
  BY QueueInvariant, PTL DEF IInv, Structure

\* A pooled frame is never in two hands: released by one goroutine, it is not
\* queued, parsed or read into by another, for every number of each.
THEOREM FramesHaveOneUser == Spec => []ExclusiveOwnership
  BY QueueInvariant, PTL DEF IInv

\* A worker answers on the connection whose bytes it parses.
THEOREM FramesKeepTheirClient == Spec => []RightClient
  BY QueueInvariant, PTL DEF IInv

-----------------------------------------------------------------------------
(* The ring is a first-in first-out queue *)

\* Tail, written as the function it is.
LEMMA TailAsFunction ==
  ASSUME NEW S, NEW s \in Seq(S), s # <<>>
  PROVE  Tail(s) = [i \in 1 .. Len(s) - 1 |-> s[i + 1]]
<1>1. Tail(s) \in Seq(S) /\ Len(Tail(s)) = Len(s) - 1
  BY HeadTailProperties
<1>2. Tail(s) = [i \in 1 .. Len(s) - 1 |-> Tail(s)[i]]
  <2> DEFINE t == Tail(s)
  <2>1. t \in [1 .. Len(t) -> S]
    BY <1>1, LenProperties
  <2> QED
    BY <1>1, <2>1
<1>3. \A i \in 1 .. Len(s) - 1 : Tail(s)[i] = s[i + 1]
  BY <1>1, HeadTailProperties
<1> QED
  BY <1>2, <1>3

\* The abstract queue is a sequence of elements.
LEMMA QueuedType ==
  ASSUME Structure
  PROVE  /\ Queued \in Seq(Elems) /\ Len(Queued) = size
         /\ \A i \in 1 .. size : At(head, i - 1) \in Live
<1>1. \A i \in 1 .. size : At(head, i - 1) \in Live
  BY DEF Live, Structure, TypeOK
<1>2. Queued \in [1 .. size -> Elems]
  BY <1>1, HeldFrames DEF Queued
<1> QED
  BY <1>1, <1>2 DEF Structure, TypeOK

\* Put's critical section appends to the abstract queue.
LEMMA PutIsAppend ==
  ASSUME Structure, Structure', NEW c \in Conns, PutElem(c)
  PROVE  FIFO!Put([f |-> frame[c], pc |-> c])
<1> DEFINE e == [f |-> frame[c], pc |-> c]
<1>1. size \in Nat /\ size < Cap /\ size' = size + 1 /\ head' = head
  BY CapAssumption DEF PutElem, IsFull, Structure, TypeOK
<1>2. tail = At(head, size) /\ tail \in Slots /\ tail \notin Live
  BY PutWindow DEF Structure, RingWindow, TypeOK
<1>3. elems' = [elems EXCEPT ![tail] = e]
  BY DEF PutElem
<1>4. e \in Elems
  BY DEF PutElem, Elems, Structure, TypeOK, GoroutineState
<1>5. \A i \in 1 .. size : elems'[At(head, i - 1)] = elems[At(head, i - 1)]
  BY <1>2, <1>3, QueuedType, HeldFrames DEF Structure, TypeOK
<1>6. elems'[At(head, size)] = e
  BY <1>2, <1>3 DEF Structure, TypeOK
<1>7. Queued' = Append(Queued, e)
  <2>1. Queued' = [i \in 1 .. size + 1 |-> elems'[At(head, i - 1)]]
    BY <1>1 DEF Queued, At
  <2>2. Append(Queued, e) = [i \in 1 .. size + 1 |-> IF i \in 1 .. size THEN Queued[i] ELSE e]
    BY <1>1, <1>4, QueuedType
  <2>3. \A i \in 1 .. size : Queued[i] = elems'[At(head, i - 1)]
    BY <1>5 DEF Queued
  <2>4. (size + 1) - 1 = size
    BY <1>1
  <2>5. \A i \in 1 .. size + 1 :
           elems'[At(head, i - 1)] = IF i \in 1 .. size THEN Queued[i] ELSE e
    BY <1>1, <1>6, <2>3, <2>4
  <2> QED
    BY <2>1, <2>2, <2>5
<1> QED
  BY <1>1, <1>7, QueuedType DEF FIFO!Put, PutElem

\* Get's critical section takes the head of the abstract queue.
LEMMA GetIsHead ==
  ASSUME Structure, Structure', NEW w \in Workers, GetElem(w)
  PROVE  FIFO!Get(w)
<1>1. /\ size \in 1 .. Cap /\ size' = size - 1 /\ head \in Slots
      /\ head' = Advance(head) /\ elems' = elems
  BY CapAssumption DEF GetElem, IsEmpty, Structure, TypeOK
<1>2. At(head, 0) = head
  BY <1>1, CapAssumption, AtValue DEF Slots
<1>3. Queued # <<>> /\ Head(Queued) = Front
  <2>1. Queued[1] = elems[head]
    BY <1>1, <1>2 DEF Queued
  <2> QED
    BY <1>1, <2>1, QueuedType DEF Front
<1>4. Queued' = Tail(Queued)
  <2>1. Queued' = [i \in 1 .. size - 1 |-> elems[At(Advance(head), i - 1)]]
    BY <1>1 DEF Queued, At
  <2>2. \A i \in 1 .. size - 1 : At(Advance(head), i - 1) = At(head, (i + 1) - 1)
    <3> SUFFICES ASSUME NEW i \in 1 .. size - 1
                 PROVE  At(Advance(head), i - 1) = At(head, (i + 1) - 1)
      OBVIOUS
    <3>1. i - 1 \in Slots /\ (i - 1) + 1 = (i + 1) - 1
      BY <1>1, CapAssumption DEF Slots
    <3> QED
      BY <1>1, <3>1, AtShift
  <2>3. \A i \in 1 .. size - 1 : Queued[i + 1] = elems[At(Advance(head), i - 1)]
    BY <1>1, <2>2 DEF Queued
  <2>4. Tail(Queued) = [i \in 1 .. size - 1 |-> Queued[i + 1]]
    <3>1. Queued \in Seq(Elems) /\ Len(Queued) = size /\ Queued # <<>>
      BY <1>3, QueuedType
    <3>2. Tail(Queued) = [i \in 1 .. Len(Queued) - 1 |-> Queued[i + 1]]
      BY <3>1, TailAsFunction
    <3> QED
      BY <3>1, <3>2
  <2> QED
    BY <2>1, <2>3, <2>4
<1> QED
  BY <1>3, <1>4 DEF FIFO!Get, GetElem

\* frameHandler returning is Done of the abstract queue.
LEMMA DoneIsDone ==
  ASSUME Structure, NEW w \in Workers, FrameHandler(w)
  PROVE  FIFO!Done(w)
<1>1. Queued' = Queued
  BY DEF FrameHandler, ring, Queued, At
<1> QED
  BY <1>1 DEF FIFO!Done, FrameHandler

\* The ring with two condition variables implements the bounded first-in
\* first-out queue: every step of a connection or a worker is a Put, a Get or a
\* Done of it, or changes nothing it shows.
THEOREM ImplementsFIFO == Spec => RefinesFIFO
<1>1. Init => FIFO!Init
  <2> SUFFICES ASSUME Init PROVE FIFO!Init
    OBVIOUS
  <2>1. Queued = <<>>
    BY DEF Init, Queued
  <2> QED
    BY <2>1 DEF Init, FIFO!Init
<1>2. Structure /\ Structure' /\ [Next]_vars => [FIFO!Next]_(FIFO!vars)
  <2> SUFFICES ASSUME Structure, Structure', [Next]_vars
               PROVE  [FIFO!Next]_(FIFO!vars)
    OBVIOUS
  <2>1. ASSUME NEW c \in Conns, PutElem(c)
        PROVE  [FIFO!Next]_(FIFO!vars)
    <3>1. [f |-> frame[c], pc |-> c] \in Elems
      BY <2>1 DEF PutElem, Elems, Structure, TypeOK, GoroutineState
    <3> QED
      BY <2>1, <3>1, PutIsAppend DEF FIFO!Next
  <2>2. ASSUME NEW w \in Workers, GetElem(w)
        PROVE  [FIFO!Next]_(FIFO!vars)
    BY <2>2, GetIsHead DEF FIFO!Next
  <2>3. ASSUME NEW w \in Workers, FrameHandler(w)
        PROVE  [FIFO!Next]_(FIFO!vars)
    BY <2>3, DoneIsDone DEF FIFO!Next
  <2>4. CASE UNCHANGED <<ring, item>>
    <3>1. Queued' = Queued
      BY <2>4 DEF ring, Queued, At
    <3> QED
      BY <2>4, <3>1 DEF FIFO!vars
  <2> QED
    BY <2>1, <2>2, <2>3, <2>4 DEF Next, Serve, QueueWorker, Acquire, ReadFrame,
       DropFrame, PutWait, GetWait, vars
<1>3. Spec => []Structure
  BY QueueInvariant, PTL DEF IInv
<1> QED
  BY <1>1, <1>2, <1>3, PTL DEF Spec, RefinesFIFO, FIFO!Spec
=============================================================================

------------------------------ MODULE FrameQueue ------------------------------
(****************************************************************************)
(* The SPOP agent's work queue (spop/scheduler.go) between the goroutines   *)
(* that read connections (protocolClient.Serve) and the worker goroutines   *)
(* (queueWorker), with the frame pool (spop/frame.go) both sides use.       *)
(*                                                                          *)
(* Every access to the ring happens between q.lock.Lock and q.lock.Unlock,  *)
(* or a Wait that releases the lock after it has registered the goroutine   *)
(* (sync.Cond), so a critical section is one step.  What interleaves is the *)
(* order of the sections, and which of the waiting goroutines is woken.     *)
(* A woken goroutine competes for the lock again: others may go first.      *)
(****************************************************************************)
EXTENDS Naturals, FiniteSets

CONSTANTS
    Conns,     \* the connections, each with one goroutine running Serve
    Workers,   \* the goroutines running queueWorker
    Frames,    \* every frame the pool has ever made (bound of the model)
    Cap,       \* len(q.elems): 2*runtime.NumCPU() in newAsyncScheduler
    Nil        \* Go's nil

Elems == [f : Frames, pc : Conns]                                \* queueElem

ASSUME ConnsAssumption   == IsFiniteSet(Conns)
ASSUME WorkersAssumption == IsFiniteSet(Workers)
ASSUME CapAssumption     == Cap \in Nat \ {0}
ASSUME NilAssumption     == Nil \notin Conns \cup Frames \cup Elems

VARIABLES
    elems,         \* q.elems, the ring; a slot keeps its value after Get
    head,          \* q.head
    tail,          \* q.tail
    size,          \* q.size
    notFullCond,   \* the connections parked in q.notFullCond.Wait
    notEmptyCond,  \* the workers parked in q.notEmptyCond.Wait
    serve,         \* serve[c]: where the goroutine of c is in Serve's loop
    frame,         \* frame[c]: Serve's local f
    item,          \* item[w]: queueWorker's local qe
    pool,          \* framePool: the frames nobody should be using
    content        \* content[f]: the connection whose bytes are in f.buf

ring  == <<elems, head, tail, size>>
conds == <<notFullCond, notEmptyCond>>
vars  == <<ring, conds, serve, frame, item, pool, content>>

Slots == 0 .. Cap - 1

-------------------------------------------------------------------------------
(* The queue's operators *)

\* Mutant: the test lets one element too many in.
IsFullLate == size > Cap

IsFull  == size = Cap
IsEmpty == size = 0

\* The slot k places after slot i.
At(i, k) == (i + k) % Cap

\* Mutant: the modulus is off by one.
AdvanceShort(i) == (i + 1) % (Cap - 1)

\* The next slot.
Advance(i) == At(i, 1)

\* Mutant: Get takes the newest element.
FrontNewest == elems[(head + size - 1) % Cap]

\* What Get reads.
Front == elems[head]

\* The waiters that may remain after sync.Cond.Signal: one waiter is woken, and
\* the call has no effect when nobody waits.
AfterSignal(waiters) == IF waiters = {} THEN {{}}
                        ELSE {waiters \ {p} : p \in waiters}

\* Mutant: Get signals only when the queue stops being full.
SignalNotFullOnce ==
    notFullCond' \in IF IsFull THEN AfterSignal(notFullCond) ELSE {notFullCond}

SignalNotFull  == notFullCond' \in AfterSignal(notFullCond)

\* Mutant: Put signals only when there was an element already.
SignalNotEmptyLate ==
    notEmptyCond' \in IF IsEmpty THEN {notEmptyCond} ELSE AfterSignal(notEmptyCond)

SignalNotEmpty == notEmptyCond' \in AfterSignal(notEmptyCond)

\* releaseFrame: the buffer is reset and the frame goes back to the pool.
ReleaseFrame(f) == /\ content' = [content EXCEPT ![f] = Nil]
                   /\ pool' = pool \cup {f}

-------------------------------------------------------------------------------

Init == /\ elems = [i \in Slots |-> Nil]
        /\ head = 0 /\ tail = 0 /\ size = 0
        /\ notFullCond = {} /\ notEmptyCond = {}
        /\ serve = [c \in Conns |-> "top"]
        /\ frame = [c \in Conns |-> Nil]
        /\ item = [w \in Workers |-> Nil]
        /\ pool = Frames
        /\ content = [f \in Frames |-> Nil]

\* Mutant: the pool hands out a frame without giving it up.
AcquireShared(c) == /\ serve[c] = "top"
                    /\ \E f \in pool : frame' = [frame EXCEPT ![c] = f]
                    /\ serve' = [serve EXCEPT ![c] = "read"]
                    /\ UNCHANGED <<ring, conds, item, pool, content>>

\* acquireFrame, before the read that may block for ever.
Acquire(c) == /\ serve[c] = "top"
              /\ \E f \in pool : /\ frame' = [frame EXCEPT ![c] = f]
                                 /\ pool' = pool \ {f}
              /\ serve' = [serve EXCEPT ![c] = "read"]
              /\ UNCHANGED <<ring, conds, item, content>>

\* A frame arrived in full; Serve hands it to the scheduler.
ReadFrame(c) == /\ serve[c] = "read"
                /\ content' = [content EXCEPT ![frame[c]] = c]
                /\ serve' = [serve EXCEPT ![c] = "schedule"]
                /\ UNCHANGED <<ring, conds, frame, item, pool>>

\* Serve itself releases the frame: the read failed, the first frame is no
\* HAPROXY-HELLO, or it is one and was handled without the scheduler.  The
\* connection reads on, or it is closed and c stands for the next one.
DropFrame(c) == /\ serve[c] = "read"
                /\ ReleaseFrame(frame[c])
                /\ frame' = [frame EXCEPT ![c] = Nil]
                /\ serve' = [serve EXCEPT ![c] = "top"]
                /\ UNCHANGED <<ring, conds, item>>

\* Put finds the queue full: notFullCond.Wait.
PutWait(c) == /\ serve[c] = "schedule" /\ c \notin notFullCond
              /\ IsFull
              /\ notFullCond' = notFullCond \cup {c}
              /\ UNCHANGED <<ring, notEmptyCond, serve, frame, item, pool, content>>

\* Mutant: Serve releases its frame on every way out of the loop body.
PutElemReleases(c) == /\ serve[c] = "schedule" /\ c \notin notFullCond
                      /\ ~ IsFull
                      /\ elems' = [elems EXCEPT ![tail] = [f |-> frame[c], pc |-> c]]
                      /\ tail' = Advance(tail)
                      /\ size' = size + 1
                      /\ SignalNotEmpty
                      /\ ReleaseFrame(frame[c])
                      /\ frame' = [frame EXCEPT ![c] = Nil]
                      /\ serve' = [serve EXCEPT ![c] = "top"]
                      /\ UNCHANGED <<head, notFullCond, item>>

\* Put finds room.
PutElem(c) == /\ serve[c] = "schedule" /\ c \notin notFullCond
              /\ ~ IsFull
              /\ elems' = [elems EXCEPT ![tail] = [f |-> frame[c], pc |-> c]]
              /\ tail' = Advance(tail)
              /\ size' = size + 1
              /\ SignalNotEmpty
              /\ frame' = [frame EXCEPT ![c] = Nil]
              /\ serve' = [serve EXCEPT ![c] = "top"]
              /\ UNCHANGED <<head, notFullCond, item, pool, content>>

\* Get finds the queue empty: notEmptyCond.Wait.  The deferred Signal runs only
\* when Get returns.
GetWait(w) == /\ item[w] = Nil /\ w \notin notEmptyCond
              /\ IsEmpty
              /\ notEmptyCond' = notEmptyCond \cup {w}
              /\ UNCHANGED <<ring, notFullCond, serve, frame, item, pool, content>>

\* Get finds an element.
GetElem(w) == /\ item[w] = Nil /\ w \notin notEmptyCond
              /\ ~ IsEmpty
              /\ item' = [item EXCEPT ![w] = Front]
              /\ head' = Advance(head)
              /\ size' = size - 1
              /\ SignalNotFull
              /\ UNCHANGED <<elems, tail, notEmptyCond, serve, frame, pool, content>>

\* frameHandler returns, or panics into wrapPanic: either way the deferred
\* releaseFrame has run and the worker goes back to Get.
FrameHandler(w) == /\ item[w] # Nil
                   /\ ReleaseFrame(item[w].f)
                   /\ item' = [item EXCEPT ![w] = Nil]
                   /\ UNCHANGED <<ring, conds, serve, frame>>

Serve(c) == \/ Acquire(c) \/ ReadFrame(c) \/ DropFrame(c)
            \/ PutWait(c) \/ PutElem(c)

QueueWorker(w) == GetWait(w) \/ GetElem(w) \/ FrameHandler(w)

Next == \/ \E c \in Conns : Serve(c)
        \/ \E w \in Workers : QueueWorker(w)

Spec == Init /\ [][Next]_vars

\* Go's mutex hands the lock to a goroutine that has waited too long (starvation
\* mode), so whoever wants the lock gets it; and handlers are assumed to return.
\* A connection owes no frame, so reading is under no fairness.
FairSpec == /\ Spec
            /\ \A c \in Conns : WF_vars(PutWait(c) \/ PutElem(c))
            /\ \A w \in Workers : WF_vars(QueueWorker(w))

-------------------------------------------------------------------------------
(* Properties *)

\* Every variable keeps its type; in particular the indices stay inside the ring
\* and size between 0 and the capacity, although only == and <= are tested.
TypeOK ==
    /\ elems \in [Slots -> Elems \cup {Nil}]
    /\ head \in Slots /\ tail \in Slots /\ size \in 0 .. Cap
    /\ notFullCond \subseteq Conns /\ notEmptyCond \subseteq Workers
    /\ serve \in [Conns -> {"top", "read", "schedule"}]
    /\ frame \in [Conns -> Frames \cup {Nil}]
    /\ item \in [Workers -> Elems \cup {Nil}]
    /\ pool \subseteq Frames
    /\ content \in [Frames -> Conns \cup {Nil}]

\* The slots that hold the queued elements.
Live == {At(head, k) : k \in 0 .. size - 1}

\* head, tail and size, three fields updated by two functions, describe one
\* window of the ring, and no slot of the window is stale or unset.
RingWindow == /\ tail = At(head, size)
              /\ \A i \in Live : elems[i] # Nil

\* Who is where: only goroutines inside Put wait for room, only idle workers
\* wait for work, and Serve has a frame exactly when it is past acquireFrame.
GoroutineState ==
    /\ \A c \in Conns : (serve[c] = "top") <=> (frame[c] = Nil)
    /\ \A c \in notFullCond : serve[c] = "schedule"
    /\ \A w \in notEmptyCond : item[w] = Nil

ServeFrames  == {frame[c] : c \in {d \in Conns : frame[d] # Nil}}
QueuedFrames == {elems[i].f : i \in Live}
WorkerFrames == {item[w].f : w \in {v \in Workers : item[v] # Nil}}

\* A frame has one user: the pool, one connection, one queued element or one
\* worker.  No frame is read into, or released, while somebody else uses it.
ExclusiveOwnership ==
    /\ \A c, d \in Conns : frame[c] # Nil /\ frame[c] = frame[d] => c = d
    /\ \A i, j \in Live : elems[i].f = elems[j].f => i = j
    /\ \A w, v \in Workers :
          item[w] # Nil /\ item[v] # Nil /\ item[w].f = item[v].f => w = v
    /\ pool \cap (ServeFrames \cup QueuedFrames \cup WorkerFrames) = {}
    /\ ServeFrames \cap (QueuedFrames \cup WorkerFrames) = {}
    /\ QueuedFrames \cap WorkerFrames = {}

\* The bytes a worker parses are those the connection it answers on has sent,
\* from the read until the handler is done, although frames are pooled across
\* all connections of the agent and no lock protects their buffers.
RightClient ==
    /\ \A c \in Conns : serve[c] = "schedule" => content[frame[c]] = c
    /\ \A i \in Live : content[elems[i].f] = elems[i].pc
    /\ \A w \in Workers : item[w] # Nil => content[item[w].f] = item[w].pc

\* The goroutines that are about to take the lock in Put, and in Get.
Putting == {c \in Conns : serve[c] = "schedule" /\ c \notin notFullCond}
Getting == {w \in Workers : item[w] = Nil /\ w \notin notEmptyCond}

\* No wake-up is lost.  Signal wakes at most one goroutine, and another may
\* overtake it; still, while a connection waits for room there are at least as
\* many connections on their way into Put as there are free slots, and while a
\* worker waits there are at least as many workers on their way into Get as
\* there are elements.
NoLostWakeup ==
    /\ notFullCond # {} => Cap - size <= Cardinality(Putting)
    /\ notEmptyCond # {} => size <= Cardinality(Getting)

\* The queued elements, oldest first.
Queued == [i \in 1 .. size |-> elems[At(head, i - 1)]]

\* The ring with its condition variables is a first-in first-out queue of
\* capacity Cap: nothing is lost, duplicated, overwritten or reordered.
FIFO == INSTANCE BoundedFIFO WITH buf <- Queued, held <- item
RefinesFIFO == FIFO!Spec

\* A frame that Put has accepted is given to a worker eventually, whatever the
\* order in which connections and workers get the lock or are woken.
QueuedIsHandled ==
    \A f \in Frames : f \in QueuedFrames ~> f \in WorkerFrames
===============================================================================

---------------------------- MODULE SpopConnProofs ----------------------------
(****************************************************************************)
(* What one connection of SpopAgent goes through, whatever the others do:   *)
(* the inductive invariant that gives the properties of its context and of  *)
(* what the peer sees on the wire.                                          *)
(****************************************************************************)
EXTENDS SpopAgentProofs

-------------------------------------------------------------------------------
(* Where the frames of a connection are *)

\* The scheduler's queue and the workers hold frames of all connections.
InQueue(c, i)  == i \in 1 .. Len(queue) /\ queue[i].pc = c
InWork(c, w)   == w \in Workers /\ work[w] # Nil /\ work[w].pc = c
Writes(c, w)   == InWork(c, w) /\ work[w].out # <<>>
Unscheduled(c) == (\A i \in 1 .. Len(queue) : ~ InQueue(c, i)) /\ \A w \in Workers : ~ InWork(c, w)

\* The places of a NOTIFY that has not been answered.
AtInbox(c, i) == i \in 1 .. Len(inbox[c]) /\ inbox[c][i].type = "notify"
AtCur(c)      == at[c] = "schedule" /\ cur[c].type = "notify"
AtQueue(c, i) == InQueue(c, i) /\ queue[i].f.type = "notify"
AtWork(c, w)  == InWork(c, w) /\ work[w].f.type = "notify"
Handed(c)     == (\E i \in 1 .. Len(queue) : AtQueue(c, i)) \/ \E w \in Workers : AtWork(c, w)
Pending(c)    == (\E i \in 1 .. Len(inbox[c]) : AtInbox(c, i)) \/ AtCur(c) \/ Handed(c)

-------------------------------------------------------------------------------
(* The invariant of a connection whose peer has not closed it *)

\* Nothing has been sent.
NewInv(c) == peer[c] = "new" =>
    /\ at[c] \in {"none", "read"} /\ ~ gotHello[c] /\ ~ cancelled[c]
    /\ inbox[c] = <<>> /\ wire[c] = <<>> /\ Unscheduled(c)

\* The first frame: before, while and after AGENT-HELLO is written.
HelloSent(c, type)      == /\ at[c] = "read" /\ ~ gotHello[c] /\ ~ cancelled[c]
                           /\ inbox[c] = <<Frame(type, 0)>> /\ wire[c] = <<>>
HelloAnswering(c, type) == /\ at[c] = "hello" /\ gotHello[c] /\ ~ cancelled[c]
                           /\ inbox[c] = <<>> /\ cur[c].type = type /\ wire[c] \o out[c] = Greeting
HelloAnswered(c)        == /\ at[c] \in {"read", "close", "ncClose", "closed"} /\ gotHello[c]
                           /\ inbox[c] = <<>> /\ wire[c] = Greeting

GreetInv(c) == peer[c] = "greeting" =>
    /\ Unscheduled(c)
    /\ \/ HelloSent(c, "hello")
       \/ HelloAnswering(c, "hello")
       \/ HelloAnswered(c) /\ ~ cancelled[c] /\ (at[c] # "read" => baseDone)

CheckInv(c) == peer[c] = "checking" =>
    /\ Unscheduled(c)
    /\ \/ HelloSent(c, "healthcheck")
       \/ HelloAnswering(c, "healthcheck")
       \/ HelloAnswered(c) /\ cancelled[c] /\ at[c] # "read"

\* Between two NOTIFYs nothing of the connection is on its way.
IdleInv(c) == peer[c] = "idle" =>
    /\ gotHello[c] /\ ~ cancelled[c] /\ inbox[c] = <<>> /\ Unscheduled(c)
    /\ at[c] \in {"read", "close", "ncClose", "closed"} /\ (at[c] # "read" => baseDone)
    /\ wire[c] # <<>> /\ NoPiece(wire[c], "disconnect")

\* While the peer waits, only its NOTIFY is.
WaitInv(c) == peer[c] = "waiting" =>
    /\ gotHello[c] /\ ~ cancelled[c]
    /\ at[c] \in {"read", "schedule", "close", "ncClose", "closed"}
    /\ at[c] \notin {"read", "schedule"} => baseDone
    /\ wire[c] # <<>> /\ NoPiece(wire[c], "disconnect")
    /\ \A i \in 1 .. Len(inbox[c]) : AtInbox(c, i)
    /\ at[c] = "schedule" => AtCur(c)
    /\ \A i \in 1 .. Len(queue) : InQueue(c, i) => AtQueue(c, i)
    /\ \A w \in Workers : InWork(c, w) => AtWork(c, w)

\* After its last frame the peer sends nothing more.
LeaveInv(c) == peer[c] = "leaving" =>
    /\ at[c] \in {"read", "schedule", "close", "disconnect", "ncClose", "closed"}
    /\ ~ gotHello[c] =>
          \A i \in 1 .. Len(inbox[c]) : inbox[c][i].type \notin {"hello", "healthcheck"}
    /\ NoPiece(wire[c], "disconnect") \/ at[c] \in {"disconnect", "ncClose", "closed"}

\* One NOTIFY at a time is pending, ahead of every other frame of the connection.
OneNotify(c) ==
    /\ \A i \in 1 .. Len(inbox[c]) : AtInbox(c, i) => i = 1 /\ ~ AtCur(c) /\ ~ Handed(c)
    /\ AtCur(c) => ~ Handed(c)
    /\ \A i, j \in 1 .. Len(queue) : AtQueue(c, i) /\ AtQueue(c, j) => i = j
    /\ \A v, w \in Workers : AtWork(c, v) /\ AtWork(c, w) => v = w
    /\ \A i \in 1 .. Len(queue), w \in Workers : ~ (AtQueue(c, i) /\ AtWork(c, w))

\* It is the last one that was sent.
LastNotify(c) ==
    /\ \A i \in 1 .. Len(inbox[c]) : AtInbox(c, i) => inbox[c][i].id = sent[c]
    /\ AtCur(c) => cur[c].id = sent[c]
    /\ \A i \in 1 .. Len(queue) : AtQueue(c, i) => queue[i].f.id = sent[c]
    /\ \A w \in Workers : AtWork(c, w) => work[w].f.id = sent[c]

\* While it is pending Serve reads on and does not write, unless BaseContext has
\* ended the connection before it was read; and its ACK has not been written.
PendingInv(c) == Pending(c) =>
    /\ peer[c] \in {"waiting", "leaving"} /\ gotHello[c] /\ sent[c] # 0
    /\ \A i \in 1 .. Len(inbox[c]) : inbox[c][i].type # "unreadable"
    /\ wire[c] # <<>> /\ NoPiece(wire[c], "disconnect")
    /\ \/ at[c] \in {"read", "schedule"}
       \/ at[c] \in {"close", "ncClose", "closed"} /\ Done(c) /\ ~ Handed(c)
    /\ (\E w \in Workers : Writes(c, w)) \/ AcksBelow(wire[c], sent[c])

\* What has been written and what is being written are in good order.
WireInv(c) ==
    /\ out[c] # <<>> => Good(wire[c] \o out[c], sent[c])
    /\ \A w \in Workers : Writes(c, w) => Good(wire[c] \o work[w].out, sent[c])
    /\ out[c] = <<>> /\ (\A w \in Workers : ~ Writes(c, w)) => Good(wire[c], sent[c])

Live(c) == /\ NewInv(c) /\ GreetInv(c) /\ CheckInv(c) /\ IdleInv(c) /\ WaitInv(c) /\ LeaveInv(c)
           /\ OneNotify(c) /\ LastNotify(c) /\ PendingInv(c) /\ WireInv(c)

\* A peer that has sent an unreadable frame with an ACK due leaves.  Serve and the
\* worker with that ACK may both be writing, or be about to: each of them may go
\* on, and nobody else writes.
LastWhole(s, type) == s[Len(s)].type = type => s[Len(s)].part = s[Len(s)].of

MixedLive(c) ==
    /\ gotHello[c] /\ wire[c] # <<>>
    /\ at[c] \in {"read", "schedule", "close", "disconnect", "ncClose", "closed"}
    /\ at[c] \in {"read", "schedule", "close"} => NoPiece(wire[c], "disconnect")
    /\ OneNotify(c) /\ LastNotify(c) /\ LastWhole(wire[c], "hello")
    /\ out[c] # <<>> => out[c][1].type = "disconnect" /\ Ready(wire[c], sent[c], out[c])
    /\ \A w \in Workers : Writes(c, w) => Ready(wire[c], sent[c], work[w].out)
    /\ Pending(c) =>
          /\ sent[c] # 0
          /\ \/ \E w \in Workers : Writes(c, w)
             \/ AcksBelow(wire[c], sent[c]) /\ LastWhole(wire[c], "ack")

MixedInv(c) == /\ peer[c] \in {"leaving", "closed"} /\ Mixed(wire[c], sent[c])
               /\ peer[c] = "leaving" => MixedLive(c)

ConnInv(c) == IF faulty[c] THEN MixedInv(c)
              ELSE IF peer[c] = "closed" THEN Clean(wire[c], sent[c])
              ELSE Live(c)

-------------------------------------------------------------------------------
(* Steps of others *)

\* The connection's own variables are as before, and its frames in the queue and
\* at the workers too, though those in the queue may have moved up.
Untouched(c) ==
    /\ peer'[c] = peer[c] /\ sent'[c] = sent[c] /\ faulty'[c] = faulty[c]
    /\ inbox'[c] = inbox[c] /\ wire'[c] = wire[c]
    /\ at'[c] = at[c] /\ cur'[c] = cur[c] /\ out'[c] = out[c]
    /\ gotHello'[c] = gotHello[c] /\ cancelled'[c] = cancelled[c]
    /\ baseDone => baseDone'

QueueUntouched(c) == \E k \in {0, 1} : \A i \in 1 .. Len(queue') :
    queue'[i].pc = c => i + k \in 1 .. Len(queue) /\ queue[i + k] = queue'[i]

WorkUntouched(c) == \A w \in Workers :
    InWork(c, w) \/ InWork(c, w)' => work'[w] = work[w]

LEMMA UntouchedMoves ==
  ASSUME NEW c \in Conns, Untouched(c), QueueUntouched(c), WorkUntouched(c)
  PROVE  /\ \A w \in Workers : /\ InWork(c, w)' <=> InWork(c, w)
                               /\ InWork(c, w) => work'[w] = work[w]
                               /\ AtWork(c, w)' <=> AtWork(c, w)
                               /\ Writes(c, w)' <=> Writes(c, w)
         /\ \E k \in {0, 1} : \A i \in 1 .. Len(queue') :
               /\ InQueue(c, i)' => /\ i + k \in 1 .. Len(queue) /\ InQueue(c, i + k)
                                    /\ queue[i + k] = queue'[i]
               /\ AtQueue(c, i)' => AtQueue(c, i + k)
         /\ \A i : AtInbox(c, i)' <=> AtInbox(c, i)
         /\ AtCur(c)' <=> AtCur(c)
         /\ Handed(c)' => Handed(c)
         /\ Pending(c)' => Pending(c)
<1> USE DEF Untouched
<1>1. \A w \in Workers : /\ InWork(c, w)' <=> InWork(c, w)
                         /\ InWork(c, w) => work'[w] = work[w]
                         /\ AtWork(c, w)' <=> AtWork(c, w)
                         /\ Writes(c, w)' <=> Writes(c, w)
  BY DEF WorkUntouched, InWork, AtWork, Writes
<1>2. PICK k \in {0, 1} : \A i \in 1 .. Len(queue') :
          InQueue(c, i)' => /\ i + k \in 1 .. Len(queue) /\ InQueue(c, i + k)
                            /\ queue[i + k] = queue'[i]
  BY DEF QueueUntouched, InQueue
<1>3. \A i \in 1 .. Len(queue') : AtQueue(c, i)' => AtQueue(c, i + k)
  BY <1>2 DEF AtQueue
<1>4. (\A i : AtInbox(c, i)' <=> AtInbox(c, i)) /\ (AtCur(c)' <=> AtCur(c))
  BY DEF AtInbox, AtCur
<1>5. Handed(c)' => Handed(c)
  BY <1>1, <1>2, <1>3 DEF Handed, AtQueue
<1>6. Pending(c)' => Pending(c)
  BY <1>4, <1>5 DEF Pending
<1> QED
  BY <1>1, <1>2, <1>3, <1>4, <1>5, <1>6

LEMMA UntouchedNotes ==
  ASSUME NEW c \in Conns, OneNotify(c), LastNotify(c),
         Untouched(c), QueueUntouched(c), WorkUntouched(c)
  PROVE  OneNotify(c)' /\ LastNotify(c)'
<1> USE DEF Untouched
<1>1. \A w \in Workers : AtWork(c, w)' <=> AtWork(c, w)
  BY UntouchedMoves
<1>2. PICK k \in {0, 1} : \A i \in 1 .. Len(queue') :
          /\ InQueue(c, i)' => i + k \in 1 .. Len(queue) /\ queue[i + k] = queue'[i]
          /\ AtQueue(c, i)' => AtQueue(c, i + k)
  BY UntouchedMoves
<1>3. /\ \A i : AtInbox(c, i)' <=> AtInbox(c, i)
      /\ (AtCur(c)' <=> AtCur(c)) /\ (Handed(c)' => Handed(c))
  BY UntouchedMoves
<1>4. OneNotify(c)'
  BY <1>1, <1>2, <1>3 DEF OneNotify, AtQueue
<1>5. \A i \in 1 .. Len(queue') : AtQueue(c, i)' => queue'[i].f.id = sent'[c]
  BY <1>2 DEF LastNotify, AtQueue
<1>6. \A w \in Workers : AtWork(c, w)' => work'[w].f.id = sent'[c]
  BY <1>1, UntouchedMoves DEF LastNotify, AtWork
<1>7. \A i \in 1 .. Len(inbox'[c]) : AtInbox(c, i)' => inbox'[c][i].id = sent'[c]
  BY <1>3 DEF LastNotify
<1>8. AtCur(c)' => cur'[c].id = sent'[c]
  BY <1>3 DEF LastNotify
<1> QED
  BY <1>4, <1>5, <1>6, <1>7, <1>8 DEF LastNotify

\* When two may write, a step that writes nothing and hands out nothing.
LEMMA NothingWritten ==
  ASSUME NEW c \in Conns, MixedLive(c),
         wire'[c] = wire[c], sent'[c] = sent[c], out'[c] = out[c], gotHello'[c] = gotHello[c],
         at'[c] \in {"read", "schedule", "close", "disconnect", "ncClose", "closed"},
         at'[c] \in {"read", "schedule", "close"} => at[c] \in {"read", "schedule", "close"},
         OneNotify(c)', LastNotify(c)', Pending(c)' => Pending(c),
         \A w \in Workers : /\ Writes(c, w)' <=> Writes(c, w)
                            /\ Writes(c, w) => work'[w] = work[w]
  PROVE  MixedLive(c)'
<1>1. \A w \in Workers : Writes(c, w)' => Ready(wire'[c], sent'[c], work'[w].out)
  BY DEF MixedLive
<1>2. out'[c] # <<>> => out'[c][1].type = "disconnect" /\ Ready(wire'[c], sent'[c], out'[c])
  BY DEF MixedLive
<1>3. Pending(c)' =>
          /\ sent'[c] # 0
          /\ \/ \E w \in Workers : Writes(c, w)'
             \/ AcksBelow(wire'[c], sent'[c]) /\ LastWhole(wire'[c], "ack")
  BY DEF MixedLive
<1>4. /\ gotHello'[c] /\ wire'[c] # <<>> /\ LastWhole(wire'[c], "hello")
      /\ at'[c] \in {"read", "schedule", "close"} => NoPiece(wire'[c], "disconnect")
  BY DEF MixedLive
<1> QED
  BY <1>1, <1>2, <1>3, <1>4 DEF MixedLive

LEMMA UntouchedKeepsInv ==
  ASSUME NEW c \in Conns, ConnInv(c), Untouched(c), QueueUntouched(c), WorkUntouched(c)
  PROVE  ConnInv(c)'
<1> USE DEF Untouched
<1>1. CASE ~ faulty[c] /\ peer[c] = "closed"
  BY <1>1 DEF ConnInv
<1>2. CASE ~ faulty[c] /\ peer[c] # "closed"
  <2>1. Live(c)
    BY <1>2 DEF ConnInv
  <2>2. \A w \in Workers : /\ InWork(c, w)' <=> InWork(c, w)
                           /\ InWork(c, w) => work'[w] = work[w]
                           /\ AtWork(c, w)' <=> AtWork(c, w)
                           /\ Writes(c, w)' <=> Writes(c, w)
    BY UntouchedMoves
  <2>3. PICK k \in {0, 1} : \A i \in 1 .. Len(queue') :
            InQueue(c, i)' => /\ i + k \in 1 .. Len(queue) /\ InQueue(c, i + k)
                              /\ queue[i + k] = queue'[i]
    BY UntouchedMoves
  <2>4. /\ \A i : AtInbox(c, i)' <=> AtInbox(c, i)
        /\ (AtCur(c)' <=> AtCur(c)) /\ (Handed(c)' => Handed(c)) /\ (Pending(c)' => Pending(c))
    BY UntouchedMoves
  <2>5. Unscheduled(c) => Unscheduled(c)'
    BY <2>2, <2>3 DEF Unscheduled
  <2>6. Done(c) => Done(c)'
    BY DEF Done
  <2>7. NewInv(c)' /\ GreetInv(c)' /\ CheckInv(c)' /\ IdleInv(c)' /\ LeaveInv(c)'
    BY <2>1, <2>5 DEF Live, NewInv, GreetInv, CheckInv, IdleInv, LeaveInv,
         HelloSent, HelloAnswering, HelloAnswered
  <2>8. WaitInv(c)'
    BY <2>1, <2>2, <2>3, <2>4 DEF Live, WaitInv, AtQueue
  <2>9. OneNotify(c)' /\ LastNotify(c)'
    BY <2>1, UntouchedNotes DEF Live
  <2>10. PendingInv(c)'
    BY <2>1, <2>2, <2>4, <2>6 DEF Live, PendingInv
  <2>11. WireInv(c)'
    BY <2>1, <2>2 DEF Live, WireInv, Writes
  <2> QED
    BY <1>2, <2>7, <2>8, <2>9, <2>10, <2>11 DEF ConnInv, Live
<1>3. CASE faulty[c]
  <2>1. CASE peer[c] = "leaving"
    <3>1. MixedLive(c)
      BY <1>3, <2>1 DEF ConnInv, MixedInv
    <3>2. OneNotify(c)' /\ LastNotify(c)'
      BY <3>1, UntouchedNotes DEF MixedLive
    <3>3. Pending(c)' => Pending(c)
      BY UntouchedMoves
    <3>4. \A w \in Workers : /\ Writes(c, w)' <=> Writes(c, w)
                             /\ Writes(c, w) => work'[w] = work[w]
      BY UntouchedMoves DEF Writes
    <3>5. at[c] \in {"read", "schedule", "close", "disconnect", "ncClose", "closed"}
      BY <3>1 DEF MixedLive
    <3>6. MixedLive(c)'
      BY <3>1, <3>2, <3>3, <3>4, <3>5, NothingWritten
    <3> QED
      BY <1>3, <2>1, <3>6 DEF ConnInv, MixedInv
  <2>2. CASE peer[c] # "leaving"
    BY <1>3, <2>2 DEF ConnInv, MixedInv
  <2> QED
    BY <2>1, <2>2
<1> QED
  BY <1>1, <1>2, <1>3

LEMMA SameQueue == ASSUME NEW c \in Conns, queue' = queue
                   PROVE  QueueUntouched(c)
<1>1. \A i \in 1 .. Len(queue') : i + 0 \in 1 .. Len(queue) /\ queue[i + 0] = queue'[i]
  OBVIOUS
<1> QED
  BY <1>1 DEF QueueUntouched

LEMMA SameWork == ASSUME NEW c \in Conns, work' = work
                  PROVE  WorkUntouched(c)
  BY DEF WorkUntouched

\* The goroutine of another connection, which may schedule a frame.
LEMMA ServeOfOther ==
  ASSUME AgentTypes, NEW c \in Conns, NEW d \in Conns, c # d, Accept(d) \/ Serve(d)
  PROVE  Untouched(c) /\ QueueUntouched(c) /\ WorkUntouched(c)
<1> TypeOK
  BY DEF AgentTypes
<1> USE DEF Accept, Serve, ReadHello, WriteHello, RefuseHello, ReadFrame, Schedule, ReadFails,
        Close, WriteDisconnect, CloseConn, env, peers, conn
<1>1. UNCHANGED <<baseDone, peer, sent, faulty, work>>
  OBVIOUS
<1>2. inbox'[c] = inbox[c] /\ at'[c] = at[c] /\ cur'[c] = cur[c]
  BY DEF TypeOK
<1>3. out'[c] = out[c] /\ gotHello'[c] = gotHello[c] /\ cancelled'[c] = cancelled[c]
  BY DEF TypeOK, Cancel
<1>4. wire'[c] = wire[c]
  BY DEF TypeOK, Write
<1>5. QueueUntouched(c)
  <2>1. CASE queue' = queue
    BY <2>1, SameQueue
  <2>2. CASE Schedule(d)
    <3> DEFINE j == [pc |-> d, f |-> cur[d]]
    <3>1. queue' = Append(queue, j) /\ j.pc = d
      BY <2>2
    <3> HIDE DEF j
    <3>2. queue \in Seq([pc : Conns, f : InFrames]) /\ Len(queue) \in Nat
      BY DEF TypeOK
    <3>3. /\ Len(queue') = Len(queue) + 1 /\ queue'[Len(queue) + 1] = j
          /\ \A i \in 1 .. Len(queue) : queue'[i] = queue[i]
      BY <3>1, <3>2
    <3>4. ASSUME NEW i \in 1 .. Len(queue'), queue'[i].pc = c
          PROVE  i + 0 \in 1 .. Len(queue) /\ queue[i + 0] = queue'[i]
      BY <3>1, <3>2, <3>3, <3>4
    <3> QED
      BY <3>4 DEF QueueUntouched
  <2> QED
    BY <2>1, <2>2
<1> QED
  BY <1>1, <1>2, <1>3, <1>4, <1>5, SameWork DEF Untouched

\* Another peer, or the application.
LEMMA PeerOfOther ==
  ASSUME AgentTypes, NEW c \in Conns, NEW d \in Conns, c # d, Peer(d)
  PROVE  Untouched(c) /\ QueueUntouched(c) /\ WorkUntouched(c)
<1> TypeOK
  BY DEF AgentTypes
<1> USE DEF Peer, PeerOpens, PeerGreeted, PeerNotifies, PeerAcked, PeerDisconnects,
        PeerMisbehaves, PeerCloses, env, conn
<1>1. UNCHANGED <<baseDone, wire, at, cur, out, gotHello, cancelled, queue, work>>
  OBVIOUS
<1>2. peer'[c] = peer[c]
  BY DEF TypeOK, Send
<1>3. inbox'[c] = inbox[c]
  BY DEF TypeOK, Send
<1>4. sent'[c] = sent[c]
  <2>1. sent' = sent \/ sent' = [sent EXCEPT ![d] = @ + 1]
    OBVIOUS
  <2> QED
    BY <2>1 DEF TypeOK
<1>5. faulty'[c] = faulty[c]
  BY DEF TypeOK
<1> QED
  BY <1>1, <1>2, <1>3, <1>4, <1>5, SameQueue, SameWork DEF Untouched

LEMMA ApplicationStep ==
  ASSUME AgentTypes, NEW c \in Conns, CancelBase \/ CloseListener \/ UNCHANGED vars
  PROVE  Untouched(c) /\ QueueUntouched(c) /\ WorkUntouched(c)
<1>1. /\ UNCHANGED <<peer, sent, faulty, inbox, wire, at, cur, out, gotHello, cancelled, queue, work>>
      /\ baseDone => baseDone'
  BY DEF CancelBase, CloseListener, vars, env, peers, conn
<1> QED
  BY <1>1, SameQueue, SameWork DEF Untouched

\* A worker that handles a frame of another connection.
LEMMA WorkOfOther ==
  ASSUME AgentTypes, NEW c \in Conns, NEW w \in Workers, QueueWorker(w), ~ Get(w), ~ InWork(c, w)
  PROVE  Untouched(c) /\ QueueUntouched(c) /\ WorkUntouched(c)
<1> TypeOK
  BY DEF AgentTypes
<1>1. work[w] # Nil /\ work[w].pc # c /\ work[w].pc \in Conns
  BY DEF QueueWorker, HandlerReturns, HandlerFails, WriteAck, OnDisconnect, OnRefused, Handling,
     InWork, TypeOK, Job
<1>2. UNCHANGED <<env, peers, inbox, conn, queue>>
  BY DEF QueueWorker, HandlerReturns, HandlerFails, WriteAck, OnDisconnect, OnRefused
<1>3. wire'[c] = wire[c] /\ cancelled'[c] = cancelled[c]
  BY <1>1 DEF QueueWorker, HandlerReturns, HandlerFails, WriteAck, OnDisconnect, OnRefused,
     Cancel, Write, TypeOK
<1>4. WorkUntouched(c)
  <2>1. \A v \in Workers : v # w => work'[v] = work[v]
    BY DEF QueueWorker, HandlerReturns, HandlerFails, WriteAck, OnDisconnect, OnRefused,
       FinishWork, TypeOK, Job
  <2>2. work'[w] = Nil \/ work'[w].pc = work[w].pc
    BY <1>1 DEF QueueWorker, HandlerReturns, HandlerFails, WriteAck, OnDisconnect, OnRefused,
       FinishWork, TypeOK, Job
  <2> QED
    BY <1>1, <2>1, <2>2 DEF WorkUntouched, InWork
<1> QED
  BY <1>2, <1>3, <1>4, SameQueue DEF Untouched, env, peers, conn

\* A worker gets a frame.
LEMMA GetMoves ==
  ASSUME AgentTypes, NEW w \in Workers, Get(w)
  PROVE  /\ queue # <<>> /\ Head(queue) = queue[1] /\ 1 \in 1 .. Len(queue) /\ work[w] = Nil
         /\ queue[1].pc \in Conns /\ queue[1].f \in InFrames
         /\ work'[w] = [pc |-> queue[1].pc, f |-> queue[1].f, out |-> <<>>]
         /\ \A v \in Workers : v # w => work'[v] = work[v]
         /\ \A i \in 1 .. Len(queue') : i + 1 \in 1 .. Len(queue) /\ queue[i + 1] = queue'[i]
         /\ UNCHANGED <<env, peers, inbox, wire, conn, cancelled>>
<1> DEFINE S == [pc : Conns, f : InFrames]
<1>1. queue \in Seq(S) /\ queue # <<>> /\ queue' = Tail(queue)
  BY DEF AgentTypes, TypeOK, Get
<1> HIDE DEF S
<1>2. /\ Head(queue) \in S /\ Head(queue) = queue[1] /\ 1 \in 1 .. Len(queue)
      /\ \A i \in 1 .. Len(queue') : i + 1 \in 1 .. Len(queue) /\ queue[i + 1] = queue'[i]
  BY <1>1, HeadTailProperties, EmptySeq
<1>3. queue[1].pc \in Conns /\ queue[1].f \in InFrames
  BY <1>2 DEF S
<1>4. /\ work[w] = Nil
      /\ work'[w] = [pc |-> queue[1].pc, f |-> queue[1].f, out |-> <<>>]
      /\ \A v \in Workers : v # w => work'[v] = work[v]
      /\ UNCHANGED <<env, peers, inbox, wire, conn, cancelled>>
  BY <1>2 DEF Get, AgentTypes, TypeOK
<1> QED
  BY <1>1, <1>2, <1>3, <1>4

LEMMA GetOfOther ==
  ASSUME AgentTypes, NEW c \in Conns, NEW w \in Workers, Get(w), ~ InQueue(c, 1)
  PROVE  Untouched(c) /\ QueueUntouched(c) /\ WorkUntouched(c)
<1>1. QueueUntouched(c)
  BY GetMoves DEF QueueUntouched
<1>2. WorkUntouched(c)
  <2>1. work[w] = Nil /\ work'[w].pc # c /\ \A v \in Workers : v # w => work'[v] = work[v]
    BY GetMoves DEF InQueue
  <2> QED
    BY <2>1 DEF WorkUntouched, InWork
<1> QED
  BY <1>1, <1>2, GetMoves DEF Untouched, env, peers, conn

-------------------------------------------------------------------------------
(* The connection's own goroutine *)

\* The queue and the workers are as before.
LEMMA SameHands ==
  ASSUME NEW c \in Conns, queue' = queue, work' = work
  PROVE  /\ Handed(c)' <=> Handed(c)
         /\ Unscheduled(c)' <=> Unscheduled(c)
         /\ \A i : AtQueue(c, i)' <=> AtQueue(c, i)
         /\ \A i : InQueue(c, i)' <=> InQueue(c, i)
         /\ \A w : AtWork(c, w)' <=> AtWork(c, w)
         /\ \A w : InWork(c, w)' <=> InWork(c, w)
         /\ \A w : Writes(c, w)' <=> Writes(c, w)
  BY DEF Handed, Unscheduled, AtQueue, InQueue, AtWork, InWork, Writes

\* A worker writes the ACK of a NOTIFY.
LEMMA WriterHasNotify ==
  ASSUME AgentTypes, NEW c \in Conns, NEW w \in Workers, Writes(c, w)
  PROVE  AtWork(c, w) /\ Handed(c) /\ Pending(c) /\ ~ Unscheduled(c)
<1>1. work[w] # Nil /\ work[w].out \in Seq(Piece) /\ work[w].out # <<>>
  BY DEF AgentTypes, TypeOK, Writes, InWork, Job
<1>2. 1 \in 1 .. Len(work[w].out)
  BY <1>1, WriteHead
<1>3. work[w].f.type = "notify"
  BY <1>1, <1>2 DEF AgentTypes, WorkOut
<1> QED
  BY <1>3 DEF Writes, AtWork, Handed, Pending, Unscheduled

LEMMA UnscheduledIsNotHanded ==
  ASSUME NEW c \in Conns, Unscheduled(c)
  PROVE  ~ Handed(c)
  BY DEF Unscheduled, Handed, AtQueue, AtWork, InQueue, InWork

\* What the place of Serve says about the peer.
LEMMA PeerOfPlace ==
  ASSUME NEW c \in Conns, TypeOK, Live(c), peer[c] # "closed"
  PROVE  /\ at[c] = "none" => peer[c] = "new"
         /\ at[c] = "hello" => peer[c] \in {"greeting", "checking"}
         /\ at[c] = "schedule" => peer[c] \in {"waiting", "leaving"}
         /\ at[c] = "disconnect" => peer[c] = "leaving"
         /\ at[c] \in {"close", "ncClose", "closed"} =>
                peer[c] \in {"greeting", "checking", "idle", "waiting", "leaving"}
         /\ at[c] \in {"none", "hello", "disconnect"} => ~ Pending(c)
         /\ peer[c] \notin {"waiting", "leaving"} => ~ Pending(c)
  BY DEF Live, NewInv, GreetInv, CheckInv, IdleInv, WaitInv, LeaveInv, PendingInv,
     HelloSent, HelloAnswering, HelloAnswered, TypeOK

\* With no NOTIFY on its way there is nothing to say about it.
LEMMA NothingPending ==
  ASSUME NEW c \in Conns, ~ Pending(c)'
  PROVE  OneNotify(c)' /\ LastNotify(c)' /\ PendingInv(c)'
  BY DEF Pending, Handed, OneNotify, LastNotify, PendingInv

LEMMA AcceptStep ==
  ASSUME AgentTypes, NEW c \in Conns, Live(c), peer[c] # "closed", Accept(c)
  PROVE  Live(c)'
<1> USE DEF Live
<1>1. /\ at[c] = "none" /\ at'[c] = "read" /\ UNCHANGED <<queue, work>>
      /\ peer'[c] = peer[c] /\ sent'[c] = sent[c] /\ inbox'[c] = inbox[c] /\ wire'[c] = wire[c]
      /\ cur'[c] = cur[c] /\ out'[c] = out[c]
      /\ gotHello'[c] = gotHello[c] /\ cancelled'[c] = cancelled[c]
  BY DEF Accept, AgentTypes, TypeOK, peers
<1>2. peer[c] = "new" /\ ~ Pending(c)
  BY <1>1, PeerOfPlace DEF AgentTypes
<1>3. /\ Handed(c)' <=> Handed(c)
      /\ Unscheduled(c)' <=> Unscheduled(c)
      /\ \A w : Writes(c, w)' <=> Writes(c, w)
  BY <1>1, SameHands
<1>4. ~ Pending(c)'
  BY <1>1, <1>2, <1>3 DEF Pending, AtInbox, AtCur
<1>5. NewInv(c)' /\ GreetInv(c)' /\ CheckInv(c)' /\ IdleInv(c)' /\ WaitInv(c)' /\ LeaveInv(c)'
  BY <1>1, <1>2, <1>3 DEF NewInv, GreetInv, CheckInv, IdleInv, WaitInv, LeaveInv
<1>6. OneNotify(c)' /\ LastNotify(c)' /\ PendingInv(c)'
  BY <1>4, NothingPending
<1>7. WireInv(c)'
  BY <1>1, <1>3 DEF WireInv, Writes
<1> QED
  BY <1>5, <1>6, <1>7

LEMMA ReadHelloStep ==
  ASSUME AgentTypes, NEW c \in Conns, Live(c), peer[c] # "closed", ReadHello(c)
  PROVE  Live(c)'
<1> USE DEF Live
<1>1. /\ at[c] = "read" /\ ~ gotHello[c] /\ inbox[c] # <<>> /\ inbox[c] \in Seq(InFrames)
      /\ Head(inbox[c]).type \in {"hello", "healthcheck"}
      /\ UNCHANGED <<queue, work>>
      /\ at'[c] = "hello" /\ gotHello'[c] /\ inbox'[c] = Tail(inbox[c])
      /\ cur'[c] = Head(inbox[c]) /\ out'[c] = Greeting
      /\ peer'[c] = peer[c] /\ sent'[c] = sent[c] /\ wire'[c] = wire[c]
      /\ cancelled'[c] = cancelled[c] /\ sent[c] \in Nat
  BY DEF ReadHello, AgentTypes, TypeOK, peers, Greeting
<1>2. Head(inbox[c]) = inbox[c][1] /\ 1 \in 1 .. Len(inbox[c])
  BY <1>1, HeadTailProperties, EmptySeq
<1>3. PICK type \in {"hello", "healthcheck"} :
          HelloSent(c, type) /\ peer[c] = IF type = "hello" THEN "greeting" ELSE "checking"
  <2>1. peer[c] \in {"greeting", "checking"}
    BY <1>1, <1>2 DEF NewInv, IdleInv, WaitInv, LeaveInv, AgentTypes, TypeOK
  <2> QED
    BY <1>1, <2>1 DEF GreetInv, CheckInv, HelloAnswering, HelloAnswered
<1>4. /\ inbox[c] = <<Frame(type, 0)>> /\ wire[c] = <<>> /\ ~ cancelled[c]
      /\ inbox'[c] = <<>> /\ cur'[c].type = type
  BY <1>1, <1>3 DEF HelloSent, Frame
<1>5. Unscheduled(c) /\ ~ Handed(c)
  BY <1>3, UnscheduledIsNotHanded DEF GreetInv, CheckInv
<1>6. /\ Handed(c)' <=> Handed(c)
      /\ Unscheduled(c)' <=> Unscheduled(c)
      /\ \A w : Writes(c, w)' <=> Writes(c, w)
  BY <1>1, SameHands
<1>7. wire'[c] \o out'[c] = Greeting
  BY <1>1, <1>4, GreetingFacts, ConcatEmptySeq
<1>8. HelloAnswering(c, type)'
  BY <1>1, <1>4, <1>7 DEF HelloAnswering
<1>9. NewInv(c)' /\ GreetInv(c)' /\ CheckInv(c)' /\ IdleInv(c)' /\ WaitInv(c)' /\ LeaveInv(c)'
  BY <1>1, <1>3, <1>5, <1>6, <1>8 DEF NewInv, GreetInv, CheckInv, IdleInv, WaitInv, LeaveInv
<1>10. ~ Pending(c)'
  BY <1>1, <1>4, <1>5, <1>6, EmptySeq DEF Pending, AtInbox, AtCur
<1>11. WireInv(c)'
  BY <1>1, <1>5, <1>6, <1>7, GreetingIsGood, GreetingFacts, WriterHasNotify DEF WireInv
<1> QED
  BY <1>9, <1>10, <1>11, NothingPending

LEMMA WriteHelloStep ==
  ASSUME AgentTypes, NEW c \in Conns, Live(c), peer[c] # "closed", WriteHello(c)
  PROVE  Live(c)'
<1> USE DEF Live
<1>1. /\ at[c] = "hello" /\ UNCHANGED <<queue, work>>
      /\ gotHello'[c] = gotHello[c] /\ inbox'[c] = inbox[c]
      /\ peer'[c] = peer[c] /\ sent'[c] = sent[c] /\ baseDone' = baseDone /\ sent[c] \in Nat
      /\ out[c] \in Seq(Piece) /\ wire[c] \in Seq(Piece) /\ out[c] # <<>>
  BY DEF WriteHello, AgentTypes, TypeOK, peers, env
<1>2. PICK type \in {"hello", "healthcheck"} :
          /\ HelloAnswering(c, type) /\ Unscheduled(c)
          /\ peer[c] = IF type = "hello" THEN "greeting" ELSE "checking"
  <2>1. peer[c] \in {"greeting", "checking"}
    BY <1>1, PeerOfPlace DEF AgentTypes
  <2> QED
    BY <1>1, <2>1 DEF GreetInv, CheckInv, HelloSent, HelloAnswered
<1>3. /\ gotHello[c] /\ ~ cancelled[c] /\ inbox[c] = <<>> /\ cur[c].type = type
      /\ wire[c] \o out[c] = Greeting /\ ~ Handed(c)
  BY <1>2, UnscheduledIsNotHanded DEF HelloAnswering
<1>4. /\ Handed(c)' <=> Handed(c)
      /\ Unscheduled(c)' <=> Unscheduled(c)
      /\ \A w : Writes(c, w)' <=> Writes(c, w)
  BY <1>1, SameHands
<1>5. PICK ok \in BOOLEAN :
          /\ Write(c, Head(out[c]), ok)
          /\ IF ok /\ Len(out[c]) > 1
             THEN /\ out' = [out EXCEPT ![c] = Tail(@)]
                  /\ UNCHANGED <<cur, at, cancelled>>
             ELSE /\ out' = [out EXCEPT ![c] = <<>>]
                  /\ cur' = [cur EXCEPT ![c] = Nil]
                  /\ IF EndsWithHello(c) THEN Cancel(c) ELSE UNCHANGED cancelled
                  /\ at' = [at EXCEPT ![c] =
                               IF ok /\ ~ cancelled'[c] /\ ~ baseDone THEN "read" ELSE "close"]
  BY DEF WriteHello
<1>6. ok /\ wire'[c] = Append(wire[c], Head(out[c]))
  BY <1>1, <1>5 DEF Write, AgentTypes, TypeOK
<1>7. /\ wire'[c] \in Seq(Piece) /\ Tail(out[c]) \in Seq(Piece)
      /\ wire'[c] \o Tail(out[c]) = Greeting
      /\ Len(out[c]) = 1 => wire'[c] = Greeting
      /\ Len(out[c]) # 1 => Tail(out[c]) # <<>>
      /\ Len(out[c]) \in Nat \ {0}
  BY <1>1, <1>3, <1>6, WriteHead, ZenonT(30)
<1>8. CASE Len(out[c]) > 1
  <2>1. out'[c] = Tail(out[c]) /\ cur'[c] = cur[c] /\ at'[c] = at[c] /\ cancelled'[c] = cancelled[c]
    BY <1>5, <1>6, <1>8 DEF AgentTypes, TypeOK
  <2>2. HelloAnswering(c, type)'
    BY <1>1, <1>3, <1>7, <2>1 DEF HelloAnswering
  <2>3. NewInv(c)' /\ GreetInv(c)' /\ CheckInv(c)' /\ IdleInv(c)' /\ WaitInv(c)' /\ LeaveInv(c)'
    BY <1>1, <1>2, <1>4, <2>2 DEF NewInv, GreetInv, CheckInv, IdleInv, WaitInv, LeaveInv
  <2>4. ~ Pending(c)'
    BY <1>1, <1>3, <1>4, <2>1, EmptySeq DEF Pending, AtInbox, AtCur
  <2>5. out'[c] # <<>>
    <3> DEFINE n == Len(out[c])
    <3>1. n \in Nat /\ n > 1
      BY <1>7, <1>8
    <3> HIDE DEF n
    <3>2. n # 1
      BY <3>1
    <3> QED
      BY <1>7, <2>1, <3>2 DEF n
  <2>6. WireInv(c)'
    BY <1>1, <1>3, <1>4, <1>7, <2>1, <2>5, GreetingIsGood, WriterHasNotify DEF WireInv
  <2> QED
    BY <2>3, <2>4, <2>6, NothingPending
<1>9. CASE ~ (Len(out[c]) > 1)
  <2>1. /\ out'[c] = <<>> /\ wire'[c] = Greeting
        /\ cancelled'[c] <=> type = "healthcheck"
        /\ at'[c] = IF ~ cancelled'[c] /\ ~ baseDone THEN "read" ELSE "close"
    <3>1. Len(out[c]) = 1
      BY <1>7, <1>9
    <3>2. /\ out'[c] = <<>>
          /\ cancelled'[c] = IF EndsWithHello(c) THEN TRUE ELSE cancelled[c]
          /\ at'[c] = IF ~ cancelled'[c] /\ ~ baseDone THEN "read" ELSE "close"
      BY <1>5, <1>6, <1>9 DEF AgentTypes, TypeOK, Cancel
    <3> QED
      BY <1>3, <1>7, <3>1, <3>2 DEF EndsWithHello
  <2>2. HelloAnswered(c)'
    BY <1>1, <1>3, <2>1 DEF HelloAnswered
  <2>3. NewInv(c)' /\ GreetInv(c)' /\ CheckInv(c)' /\ IdleInv(c)' /\ WaitInv(c)' /\ LeaveInv(c)'
    BY <1>1, <1>2, <1>4, <2>1, <2>2 DEF NewInv, GreetInv, CheckInv, IdleInv, WaitInv, LeaveInv
  <2>4. ~ Pending(c)'
    BY <1>1, <1>3, <1>4, <2>1, EmptySeq DEF Pending, AtInbox, AtCur
  <2>5. WireInv(c)'
    BY <1>1, <1>3, <1>4, <2>1, GreetingIsGood, WriterHasNotify DEF WireInv
  <2> QED
    BY <2>3, <2>4, <2>5, NothingPending
<1> QED
  BY <1>8, <1>9

\* The frames behind the first one move up.
LEMMA InboxMoves ==
  ASSUME AgentTypes, NEW c \in Conns, inbox[c] # <<>>, inbox'[c] = Tail(inbox[c])
  PROVE  /\ Head(inbox[c]) = inbox[c][1] /\ 1 \in 1 .. Len(inbox[c])
         /\ \A i \in 1 .. Len(inbox'[c]) :
               i + 1 \in 1 .. Len(inbox[c]) /\ i + 1 # 1 /\ inbox'[c][i] = inbox[c][i + 1]
<1>1. inbox[c] \in Seq(InFrames)
  BY DEF AgentTypes, TypeOK
<1>2. /\ Head(inbox[c]) = inbox[c][1] /\ Len(inbox[c]) \in Nat \ {0}
      /\ Len(inbox'[c]) = Len(inbox[c]) - 1
      /\ \A i \in 1 .. Len(inbox'[c]) : inbox'[c][i] = inbox[c][i + 1]
  BY <1>1, HeadTailProperties, EmptySeq
<1> QED
  BY <1>2

LEMMA RefuseHelloStep ==
  ASSUME AgentTypes, NEW c \in Conns, Live(c), peer[c] # "closed", RefuseHello(c)
  PROVE  Live(c)'
<1> USE DEF Live
<1>1. /\ at[c] = "read" /\ ~ gotHello[c] /\ inbox[c] # <<>>
      /\ Head(inbox[c]).type \notin {"hello", "healthcheck", "unreadable"}
      /\ UNCHANGED <<queue, work>>
      /\ at'[c] = "close" /\ inbox'[c] = Tail(inbox[c])
      /\ cur'[c] = cur[c] /\ out'[c] = out[c]
      /\ peer'[c] = peer[c] /\ sent'[c] = sent[c] /\ wire'[c] = wire[c]
  BY DEF RefuseHello, AgentTypes, TypeOK, peers
<1>2. /\ Head(inbox[c]) = inbox[c][1] /\ 1 \in 1 .. Len(inbox[c])
      /\ \A i \in 1 .. Len(inbox'[c]) :
            i + 1 \in 1 .. Len(inbox[c]) /\ i + 1 # 1 /\ inbox'[c][i] = inbox[c][i + 1]
  BY <1>1, InboxMoves
<1>3. peer[c] = "leaving"
  BY <1>1, <1>2 DEF NewInv, GreetInv, CheckInv, IdleInv, WaitInv, HelloSent, HelloAnswering,
     HelloAnswered, Frame, AgentTypes, TypeOK
<1>4. ~ Pending(c)
  BY <1>1 DEF PendingInv
<1>5. /\ Handed(c)' <=> Handed(c)
      /\ Unscheduled(c)' <=> Unscheduled(c)
      /\ \A w : Writes(c, w)' <=> Writes(c, w)
  BY <1>1, SameHands
<1>6. ~ Pending(c)'
  <2>1. \A i \in 1 .. Len(inbox'[c]) : ~ AtInbox(c, i)'
    BY <1>2, <1>4 DEF Pending, AtInbox
  <2> QED
    BY <1>1, <1>4, <1>5, <2>1 DEF Pending, AtCur
<1>7. LeaveInv(c)'
  <2>1. \A i \in 1 .. Len(inbox'[c]) : inbox'[c][i].type \notin {"hello", "healthcheck"}
    BY <1>1, <1>2, <1>3 DEF LeaveInv
  <2>2. NoPiece(wire[c], "disconnect")
    BY <1>1, <1>3 DEF LeaveInv
  <2> QED
    BY <1>1, <2>1, <2>2 DEF LeaveInv
<1>8. NewInv(c)' /\ GreetInv(c)' /\ CheckInv(c)' /\ IdleInv(c)' /\ WaitInv(c)'
  BY <1>1, <1>3 DEF NewInv, GreetInv, CheckInv, IdleInv, WaitInv
<1>9. WireInv(c)'
  BY <1>1, <1>5 DEF WireInv, Writes
<1> QED
  BY <1>6, <1>7, <1>8, <1>9, NothingPending

\* The NOTIFY, if it is the next frame, comes into Serve's hands.
LEMMA ReadFrameNotes ==
  ASSUME AgentTypes, NEW c \in Conns, OneNotify(c), LastNotify(c), ReadFrame(c)
  PROVE  /\ OneNotify(c)' /\ LastNotify(c)' /\ (Pending(c)' => Pending(c))
         /\ AtCur(c)' <=> AtInbox(c, 1)
<1>1. /\ at[c] = "read" /\ inbox[c] # <<>> /\ UNCHANGED <<queue, work>>
      /\ at'[c] = "schedule" /\ inbox'[c] = Tail(inbox[c]) /\ cur'[c] = Head(inbox[c])
      /\ sent'[c] = sent[c]
  BY DEF ReadFrame, AgentTypes, TypeOK, peers
<1>2. /\ cur'[c] = inbox[c][1] /\ 1 \in 1 .. Len(inbox[c])
      /\ \A i \in 1 .. Len(inbox'[c]) :
            i + 1 \in 1 .. Len(inbox[c]) /\ i + 1 # 1 /\ inbox'[c][i] = inbox[c][i + 1]
  BY <1>1, InboxMoves
<1>3. /\ Handed(c)' <=> Handed(c)
      /\ \A i : AtQueue(c, i)' <=> AtQueue(c, i)
      /\ \A w : AtWork(c, w)' <=> AtWork(c, w)
  BY <1>1, SameHands
<1>4. \A i \in 1 .. Len(inbox'[c]) : ~ AtInbox(c, i)'
  BY <1>2 DEF OneNotify, AtInbox
<1>5. AtCur(c)' <=> AtInbox(c, 1)
  BY <1>1, <1>2 DEF AtCur, AtInbox
<1>6. Pending(c)' => Pending(c)
  BY <1>2, <1>3, <1>4, <1>5 DEF Pending
<1>7. OneNotify(c)'
  <2>1. AtCur(c)' => ~ Handed(c)'
    BY <1>2, <1>3, <1>5 DEF OneNotify
  <2> QED
    BY <1>1, <1>3, <1>4, <2>1 DEF OneNotify
<1>8. LastNotify(c)'
  <2>1. AtCur(c)' => cur'[c].id = sent'[c]
    BY <1>1, <1>2, <1>5 DEF LastNotify
  <2> QED
    BY <1>1, <1>3, <1>4, <2>1 DEF LastNotify
<1> QED
  BY <1>5, <1>6, <1>7, <1>8

LEMMA ReadFrameStep ==
  ASSUME AgentTypes, NEW c \in Conns, Live(c), peer[c] # "closed", ReadFrame(c)
  PROVE  Live(c)'
<1> USE DEF Live
<1>1. /\ at[c] = "read" /\ gotHello[c] /\ inbox[c] # <<>> /\ UNCHANGED <<queue, work>>
      /\ at'[c] = "schedule" /\ inbox'[c] = Tail(inbox[c]) /\ cur'[c] = Head(inbox[c])
      /\ out'[c] = out[c] /\ gotHello'[c] = gotHello[c] /\ cancelled'[c] = cancelled[c]
      /\ peer'[c] = peer[c] /\ sent'[c] = sent[c] /\ wire'[c] = wire[c]
  BY DEF ReadFrame, AgentTypes, TypeOK, peers
<1>2. /\ cur'[c] = inbox[c][1] /\ 1 \in 1 .. Len(inbox[c])
      /\ \A i \in 1 .. Len(inbox'[c]) :
            i + 1 \in 1 .. Len(inbox[c]) /\ i + 1 # 1 /\ inbox'[c][i] = inbox[c][i + 1]
  BY <1>1, InboxMoves
<1>3. peer[c] \in {"waiting", "leaving"}
  BY <1>1 DEF NewInv, GreetInv, CheckInv, IdleInv, HelloSent, HelloAnswering, HelloAnswered,
     AgentTypes, TypeOK
<1>4. /\ Handed(c)' <=> Handed(c)
      /\ \A i : AtQueue(c, i)' <=> AtQueue(c, i)
      /\ \A i : InQueue(c, i)' <=> InQueue(c, i)
      /\ \A w : AtWork(c, w)' <=> AtWork(c, w)
      /\ \A w : InWork(c, w)' <=> InWork(c, w)
      /\ \A w : Writes(c, w)' <=> Writes(c, w)
  BY <1>1, SameHands
<1>5. /\ OneNotify(c)' /\ LastNotify(c)' /\ (Pending(c)' => Pending(c))
      /\ AtCur(c)' <=> AtInbox(c, 1)
  BY ReadFrameNotes
<1>6. NewInv(c)' /\ GreetInv(c)' /\ CheckInv(c)' /\ IdleInv(c)'
  BY <1>1, <1>3 DEF NewInv, GreetInv, CheckInv, IdleInv
<1>7. WaitInv(c)'
  <2>1. peer[c] = "waiting" => \A i \in 1 .. Len(inbox'[c]) : AtInbox(c, i)'
    BY <1>2 DEF WaitInv, AtInbox
  <2>2. peer[c] = "waiting" => AtCur(c)'
    BY <1>2, <1>5 DEF WaitInv
  <2> QED
    BY <1>1, <1>4, <2>1, <2>2 DEF WaitInv
<1>8. LeaveInv(c)'
  BY <1>1 DEF LeaveInv
<1>9. PendingInv(c)'
  BY <1>1, <1>2, <1>3, <1>4, <1>5 DEF PendingInv
<1>10. WireInv(c)'
  BY <1>1, <1>4 DEF WireInv, Writes
<1> QED
  BY <1>5, <1>6, <1>7, <1>8, <1>9, <1>10

\* The NOTIFY, if Serve has it, comes last in the queue.
LEMMA ScheduleNotes ==
  ASSUME AgentTypes, NEW c \in Conns, OneNotify(c), LastNotify(c), Schedule(c)
  PROVE  /\ OneNotify(c)' /\ LastNotify(c)' /\ (Pending(c)' => Pending(c)) /\ ~ AtCur(c)'
         /\ AtCur(c) /\ (\A i \in 1 .. Len(queue) : InQueue(c, i) => AtQueue(c, i)) =>
                \A i \in 1 .. Len(queue') : InQueue(c, i)' => AtQueue(c, i)'
<1> DEFINE j == [pc |-> c, f |-> cur[c]]
           n == Len(queue) + 1
<1>1. /\ at[c] = "schedule" /\ UNCHANGED <<work>> /\ queue' = Append(queue, j)
      /\ at'[c] = "read" /\ inbox'[c] = inbox[c] /\ sent'[c] = sent[c]
  BY DEF Schedule, AgentTypes, TypeOK, peers
<1>2. j.pc = c /\ j.f = cur[c]
  OBVIOUS
<1> HIDE DEF j
<1>3. /\ Len(queue) \in Nat /\ Len(queue') = n /\ queue'[n] = j
      /\ \A i \in 1 .. Len(queue) : i \in 1 .. Len(queue') /\ i # n /\ queue'[i] = queue[i]
      /\ \A i \in 1 .. Len(queue') : i # n => i \in 1 .. Len(queue)
      /\ n \in 1 .. Len(queue') /\ n \notin 1 .. Len(queue)
  <2>1. queue \in Seq([pc : Conns, f : InFrames])
    BY DEF AgentTypes, TypeOK
  <2>2. /\ Len(queue) \in Nat /\ Len(queue') = n /\ queue'[n] = j
        /\ \A i \in 1 .. Len(queue) : queue'[i] = queue[i]
    BY <1>1, <2>1
  <2> QED
    BY <2>2
<1> HIDE DEF n
<1>5. /\ \A w : AtWork(c, w)' <=> AtWork(c, w)
      /\ \A w : InWork(c, w)' <=> InWork(c, w)
      /\ \A w : Writes(c, w)' <=> Writes(c, w)
  BY <1>1 DEF AtWork, InWork, Writes
<1>6. \A i \in 1 .. Len(queue') :
          /\ InQueue(c, i)' <=> i = n \/ InQueue(c, i)
          /\ AtQueue(c, i)' <=> (i = n /\ AtCur(c)) \/ AtQueue(c, i)
  BY <1>1, <1>2, <1>3 DEF InQueue, AtQueue, AtCur
<1>7. \A i : AtInbox(c, i)' <=> AtInbox(c, i)
  BY <1>1 DEF AtInbox
<1>8. Handed(c)' => AtCur(c) \/ Handed(c)
  <2>1. \A i \in 1 .. Len(queue') : AtQueue(c, i)' => AtCur(c) \/ AtQueue(c, i)
    BY <1>6
  <2>2. \A i : AtQueue(c, i) => i \in 1 .. Len(queue)
    BY DEF AtQueue, InQueue
  <2> QED
    BY <1>5, <2>1, <2>2 DEF Handed
<1>9. ~ AtCur(c)' /\ (Pending(c)' => Pending(c))
  BY <1>1, <1>7, <1>8 DEF AtCur, Pending
<1>13. OneNotify(c)'
  <2>1. \A i \in 1 .. Len(inbox'[c]) : AtInbox(c, i)' => i = 1 /\ ~ AtCur(c)' /\ ~ Handed(c)'
    BY <1>1, <1>7, <1>8, <1>9 DEF OneNotify
  <2>2. \A i, k \in 1 .. Len(queue') : AtQueue(c, i)' /\ AtQueue(c, k)' => i = k
    <3>1. AtCur(c) => \A i \in 1 .. Len(queue) : ~ AtQueue(c, i)
      BY DEF OneNotify, Handed
    <3>2. \A i \in 1 .. Len(queue') : AtQueue(c, i) => i \in 1 .. Len(queue)
      BY <1>3 DEF AtQueue, InQueue
    <3> QED
      BY <1>6, <3>1, <3>2 DEF OneNotify
  <2>3. \A v, w \in Workers : AtWork(c, v)' /\ AtWork(c, w)' => v = w
    BY <1>5 DEF OneNotify
  <2>4. \A i \in 1 .. Len(queue'), w \in Workers : ~ (AtQueue(c, i)' /\ AtWork(c, w)')
    <3>1. AtCur(c) => \A w \in Workers : ~ AtWork(c, w)
      BY DEF OneNotify, Handed
    <3>2. \A i \in 1 .. Len(queue') : AtQueue(c, i) => i \in 1 .. Len(queue)
      BY <1>3 DEF AtQueue, InQueue
    <3> QED
      BY <1>5, <1>6, <3>1, <3>2 DEF OneNotify
  <2> QED
    BY <1>9, <2>1, <2>2, <2>3, <2>4 DEF OneNotify
<1>14. LastNotify(c)'
  <2>1. \A i \in 1 .. Len(queue') : AtQueue(c, i)' => queue'[i].f.id = sent'[c]
    <3>1. \A i \in 1 .. Len(queue') : AtQueue(c, i) => i \in 1 .. Len(queue)
      BY <1>3 DEF AtQueue, InQueue
    <3>2. ASSUME NEW i \in 1 .. Len(queue'), AtQueue(c, i)
          PROVE  queue'[i].f.id = sent'[c]
      BY <1>1, <1>3, <3>1, <3>2 DEF LastNotify
    <3>3. AtCur(c) => queue'[n].f.id = sent'[c]
      BY <1>1, <1>2, <1>3 DEF LastNotify
    <3> QED
      BY <1>6, <3>2, <3>3
  <2>2. \A w \in Workers : AtWork(c, w)' => work'[w].f.id = sent'[c]
    BY <1>1, <1>5 DEF LastNotify
  <2>3. \A i \in 1 .. Len(inbox'[c]) : AtInbox(c, i)' => inbox'[c][i].id = sent'[c]
    BY <1>1, <1>7 DEF LastNotify
  <2> QED
    BY <1>9, <2>1, <2>2, <2>3 DEF LastNotify
<1>15. AtCur(c) /\ (\A i \in 1 .. Len(queue) : InQueue(c, i) => AtQueue(c, i)) =>
           \A i \in 1 .. Len(queue') : InQueue(c, i)' => AtQueue(c, i)'
  BY <1>3, <1>6
<1> QED
  BY <1>9, <1>13, <1>14, <1>15

LEMMA ScheduleStep ==
  ASSUME AgentTypes, NEW c \in Conns, Live(c), peer[c] # "closed", Schedule(c)
  PROVE  Live(c)'
<1> USE DEF Live
<1>1. /\ at[c] = "schedule" /\ UNCHANGED <<work>>
      /\ at'[c] = "read" /\ inbox'[c] = inbox[c]
      /\ out'[c] = out[c] /\ gotHello'[c] = gotHello[c] /\ cancelled'[c] = cancelled[c]
      /\ peer'[c] = peer[c] /\ sent'[c] = sent[c] /\ wire'[c] = wire[c]
  BY DEF Schedule, AgentTypes, TypeOK, peers
<1>2. peer[c] \in {"waiting", "leaving"}
  BY <1>1, PeerOfPlace DEF AgentTypes
<1>3. /\ \A w : AtWork(c, w)' <=> AtWork(c, w)
      /\ \A w : InWork(c, w)' <=> InWork(c, w)
      /\ \A w : Writes(c, w)' <=> Writes(c, w)
      /\ \A i : AtInbox(c, i)' <=> AtInbox(c, i)
  BY <1>1 DEF AtWork, InWork, Writes, AtInbox
<1>4. /\ OneNotify(c)' /\ LastNotify(c)' /\ (Pending(c)' => Pending(c)) /\ ~ AtCur(c)'
      /\ AtCur(c) /\ (\A i \in 1 .. Len(queue) : InQueue(c, i) => AtQueue(c, i)) =>
             \A i \in 1 .. Len(queue') : InQueue(c, i)' => AtQueue(c, i)'
  BY ScheduleNotes
<1>5. NewInv(c)' /\ GreetInv(c)' /\ CheckInv(c)' /\ IdleInv(c)'
  BY <1>1, <1>2 DEF NewInv, GreetInv, CheckInv, IdleInv
<1>6. WaitInv(c)'
  <2>1. peer[c] = "waiting" => \A i \in 1 .. Len(queue') : InQueue(c, i)' => AtQueue(c, i)'
    BY <1>1, <1>4 DEF WaitInv
  <2> QED
    BY <1>1, <1>3, <2>1 DEF WaitInv
<1>7. LeaveInv(c)'
  BY <1>1 DEF LeaveInv
<1>8. PendingInv(c)'
  BY <1>1, <1>3, <1>4 DEF PendingInv
<1>9. WireInv(c)'
  BY <1>1, <1>3 DEF WireInv, Writes
<1> QED
  BY <1>4, <1>5, <1>6, <1>7, <1>8, <1>9

LEMMA ReadFailsStep ==
  ASSUME AgentTypes, NEW c \in Conns, Live(c), peer[c] # "closed", ReadFails(c)
  PROVE  Live(c)'
<1> USE DEF Live
<1>1. /\ at[c] = "read" /\ inbox[c] # <<>> /\ Head(inbox[c]).type = "unreadable"
      /\ UNCHANGED <<queue, work>>
      /\ at'[c] = "close" /\ inbox'[c] = <<>> /\ cur'[c] = cur[c] /\ out'[c] = out[c]
      /\ gotHello'[c] = gotHello[c] /\ cancelled'[c] = cancelled[c]
      /\ peer'[c] = peer[c] /\ sent'[c] = sent[c] /\ wire'[c] = wire[c]
      /\ inbox[c] \in Seq(InFrames)
  BY DEF ReadFails, AgentTypes, TypeOK, peers
<1>2. Head(inbox[c]) = inbox[c][1] /\ 1 \in 1 .. Len(inbox[c])
  BY <1>1, HeadTailProperties, EmptySeq
<1>3. peer[c] = "leaving"
  BY <1>1, <1>2 DEF NewInv, GreetInv, CheckInv, IdleInv, WaitInv, HelloSent, HelloAnswering,
     HelloAnswered, Frame, AtInbox, AgentTypes, TypeOK
<1>4. ~ Pending(c)
  BY <1>1, <1>2 DEF PendingInv
<1>5. /\ Handed(c)' <=> Handed(c)
      /\ \A w : Writes(c, w)' <=> Writes(c, w)
  BY <1>1, SameHands
<1>6. ~ Pending(c)'
  BY <1>1, <1>4, <1>5, EmptySeq DEF Pending, AtInbox, AtCur
<1>7. LeaveInv(c)'
  <2>1. NoPiece(wire[c], "disconnect")
    BY <1>1, <1>3 DEF LeaveInv
  <2> QED
    BY <1>1, <2>1, EmptySeq DEF LeaveInv
<1>8. NewInv(c)' /\ GreetInv(c)' /\ CheckInv(c)' /\ IdleInv(c)' /\ WaitInv(c)'
  BY <1>1, <1>3 DEF NewInv, GreetInv, CheckInv, IdleInv, WaitInv
<1>9. WireInv(c)'
  BY <1>1, <1>5 DEF WireInv, Writes
<1> QED
  BY <1>6, <1>7, <1>8, <1>9, NothingPending

LEMMA CloseStep ==
  ASSUME AgentTypes, NEW c \in Conns, Live(c), peer[c] # "closed", Close(c)
  PROVE  Live(c)'
<1> USE DEF Live
<1>1. /\ at[c] = "close" /\ UNCHANGED <<queue, work>> /\ baseDone' = baseDone
      /\ inbox'[c] = inbox[c] /\ cur'[c] = cur[c]
      /\ gotHello'[c] = gotHello[c] /\ cancelled'[c] = cancelled[c]
      /\ peer'[c] = peer[c] /\ sent'[c] = sent[c] /\ wire'[c] = wire[c]
      /\ out[c] = <<>> /\ sent[c] \in Nat /\ wire[c] \in Seq(Piece)
      /\ IF Done(c) THEN at'[c] = "ncClose" /\ out'[c] = out[c]
         ELSE at'[c] = "disconnect" /\ out'[c] = Pieces("disconnect", 0, 2)
  BY DEF Close, AgentTypes, TypeOK, peers, env
<1>2. /\ Handed(c)' <=> Handed(c)
      /\ Unscheduled(c)' <=> Unscheduled(c)
      /\ \A i : AtQueue(c, i)' <=> AtQueue(c, i)
      /\ \A i : InQueue(c, i)' <=> InQueue(c, i)
      /\ \A w : AtWork(c, w)' <=> AtWork(c, w)
      /\ \A w : InWork(c, w)' <=> InWork(c, w)
      /\ \A w : Writes(c, w)' <=> Writes(c, w)
  BY <1>1, SameHands
<1>3. /\ \A i : AtInbox(c, i)' <=> AtInbox(c, i)
      /\ ~ AtCur(c) /\ ~ AtCur(c)' /\ (Done(c)' <=> Done(c))
  BY <1>1 DEF AtInbox, AtCur, Done
<1>4. Pending(c)' <=> Pending(c)
  BY <1>1, <1>2, <1>3 DEF Pending
<1>5. ~ Handed(c)
  BY <1>1 DEF PendingInv, Pending
<1>6. \A w \in Workers : ~ Writes(c, w)
  BY <1>5, WriterHasNotify
<1>7. Good(wire[c], sent[c])
  BY <1>1, <1>6 DEF WireInv
<1>8. CASE Done(c)
  <2>1. at'[c] = "ncClose" /\ out'[c] = <<>>
    BY <1>1, <1>8
  <2>2. NewInv(c)' /\ GreetInv(c)' /\ CheckInv(c)'
    BY <1>1, <1>2, <2>1 DEF NewInv, GreetInv, CheckInv, HelloSent, HelloAnswering, HelloAnswered
  <2>3. IdleInv(c)' /\ WaitInv(c)' /\ LeaveInv(c)'
    BY <1>1, <1>2, <1>3, <2>1 DEF IdleInv, WaitInv, LeaveInv
  <2>4. OneNotify(c)' /\ LastNotify(c)'
    BY <1>1, <1>2, <1>3 DEF OneNotify, LastNotify
  <2>5. PendingInv(c)'
    BY <1>1, <1>2, <1>3, <1>4, <1>5, <1>8, <2>1 DEF PendingInv
  <2>6. WireInv(c)'
    BY <1>1, <1>2, <1>6, <1>7, <2>1 DEF WireInv
  <2> QED
    BY <2>2, <2>3, <2>4, <2>5, <2>6
<1>9. CASE ~ Done(c)
  <2>1. at'[c] = "disconnect" /\ out'[c] = Pieces("disconnect", 0, 2)
    BY <1>1, <1>9
  <2>2. peer[c] = "leaving"
    <3>1. peer[c] \in {"greeting", "checking", "idle", "waiting", "leaving"}
      BY <1>1, PeerOfPlace DEF AgentTypes
    <3> QED
      BY <1>1, <1>9, <3>1 DEF Done, GreetInv, CheckInv, IdleInv, WaitInv, HelloSent, HelloAnswering
  <2>3. ~ Pending(c)'
    BY <1>1, <1>4, <1>9 DEF PendingInv
  <2>4. NewInv(c)' /\ GreetInv(c)' /\ CheckInv(c)' /\ IdleInv(c)' /\ WaitInv(c)'
    BY <1>1, <2>2 DEF NewInv, GreetInv, CheckInv, IdleInv, WaitInv
  <2>5. LeaveInv(c)'
    BY <1>1, <2>1 DEF LeaveInv
  <2>6. NoPiece(wire[c], "disconnect")
    BY <1>1, <2>2 DEF LeaveInv
  <2>7. Good(wire'[c] \o out'[c], sent'[c])
    BY <1>1, <1>7, <2>1, <2>6, DisconnectIsGood
  <2>8. WireInv(c)'
    BY <1>2, <1>6, <2>1, <2>7, PiecesWritten DEF WireInv
  <2> QED
    BY <2>3, <2>4, <2>5, <2>8, NothingPending
<1> QED
  BY <1>8, <1>9

LEMMA WriteDisconnectStep ==
  ASSUME AgentTypes, NEW c \in Conns, Live(c), peer[c] # "closed", WriteDisconnect(c)
  PROVE  Live(c)'
<1> USE DEF Live
<1>1. /\ at[c] = "disconnect" /\ UNCHANGED <<queue, work>>
      /\ inbox'[c] = inbox[c] /\ cur'[c] = cur[c] /\ gotHello'[c] = gotHello[c]
      /\ peer'[c] = peer[c] /\ sent'[c] = sent[c]
      /\ out[c] \in Seq(Piece) /\ wire[c] \in Seq(Piece) /\ out[c] # <<>>
  BY DEF WriteDisconnect, AgentTypes, TypeOK, peers, env
<1>2. peer[c] = "leaving" /\ ~ Pending(c)
  BY <1>1, PeerOfPlace DEF AgentTypes
<1>3. /\ Handed(c)' <=> Handed(c)
      /\ \A w : Writes(c, w)' <=> Writes(c, w)
  BY <1>1, SameHands
<1>4. PICK ok \in BOOLEAN :
          /\ Write(c, Head(out[c]), ok)
          /\ IF ~ ok \/ Len(out[c]) = 1
             THEN /\ out' = [out EXCEPT ![c] = <<>>]
                  /\ at' = [at EXCEPT ![c] = "ncClose"]
                  /\ Cancel(c)
             ELSE /\ out' = [out EXCEPT ![c] = Tail(@)]
                  /\ UNCHANGED <<at, cancelled>>
  BY DEF WriteDisconnect
<1>5. ok /\ wire'[c] = Append(wire[c], Head(out[c]))
  BY <1>1, <1>2, <1>4 DEF Write, AgentTypes, TypeOK
<1>6. /\ wire'[c] \o Tail(out[c]) = wire[c] \o out[c]
      /\ Len(out[c]) = 1 => wire'[c] = wire[c] \o out[c]
      /\ Len(out[c]) # 1 => Tail(out[c]) # <<>>
  BY <1>1, <1>5, WriteHead
<1>7. IF Len(out[c]) = 1 THEN out'[c] = <<>> /\ at'[c] = "ncClose"
      ELSE out'[c] = Tail(out[c]) /\ at'[c] = "disconnect"
  BY <1>1, <1>4, <1>5 DEF AgentTypes, TypeOK
<1>8. Good(wire[c] \o out[c], sent[c]) /\ \A w \in Workers : ~ Writes(c, w)
  BY <1>1, <1>2, WriterHasNotify DEF WireInv
<1>9. WireInv(c)'
  BY <1>1, <1>3, <1>6, <1>7, <1>8 DEF WireInv
<1>10. ~ Pending(c)'
  BY <1>1, <1>2, <1>3, <1>7 DEF Pending, AtInbox, AtCur
<1>11. LeaveInv(c)'
  BY <1>1, <1>7 DEF LeaveInv
<1>12. NewInv(c)' /\ GreetInv(c)' /\ CheckInv(c)' /\ IdleInv(c)' /\ WaitInv(c)'
  BY <1>1, <1>2 DEF NewInv, GreetInv, CheckInv, IdleInv, WaitInv
<1> QED
  BY <1>9, <1>10, <1>11, <1>12, NothingPending

LEMMA CloseConnStep ==
  ASSUME AgentTypes, NEW c \in Conns, Live(c), peer[c] # "closed", CloseConn(c)
  PROVE  Live(c)'
<1> USE DEF Live
<1>1. /\ at[c] = "ncClose" /\ UNCHANGED <<queue, work>> /\ baseDone' = baseDone
      /\ at'[c] = "closed" /\ inbox'[c] = <<>> /\ cur'[c] = cur[c] /\ out'[c] = out[c]
      /\ gotHello'[c] = gotHello[c] /\ cancelled'[c] = cancelled[c]
      /\ peer'[c] = peer[c] /\ sent'[c] = sent[c] /\ wire'[c] = wire[c]
  BY DEF CloseConn, AgentTypes, TypeOK, peers, env
<1>2. /\ Handed(c)' <=> Handed(c)
      /\ Unscheduled(c)' <=> Unscheduled(c)
      /\ \A i : AtQueue(c, i)' <=> AtQueue(c, i)
      /\ \A i : InQueue(c, i)' <=> InQueue(c, i)
      /\ \A w : AtWork(c, w)' <=> AtWork(c, w)
      /\ \A w : InWork(c, w)' <=> InWork(c, w)
      /\ \A w : Writes(c, w)' <=> Writes(c, w)
  BY <1>1, SameHands
<1>3. ~ Handed(c)
  BY <1>1 DEF PendingInv, Pending
<1>4. ~ Pending(c)'
  BY <1>1, <1>2, <1>3, EmptySeq DEF Pending, AtInbox, AtCur
<1>5. Len(inbox'[c]) = 0
  BY <1>1, EmptySeq
<1>6. NewInv(c)' /\ GreetInv(c)' /\ CheckInv(c)'
  BY <1>1, <1>2 DEF NewInv, GreetInv, CheckInv, HelloSent, HelloAnswering, HelloAnswered
<1>7. IdleInv(c)' /\ WaitInv(c)' /\ LeaveInv(c)'
  BY <1>1, <1>2, <1>5 DEF IdleInv, WaitInv, LeaveInv
<1>8. WireInv(c)'
  BY <1>1, <1>2 DEF WireInv, Writes
<1> QED
  BY <1>4, <1>6, <1>7, <1>8, NothingPending

-------------------------------------------------------------------------------
(* A worker that handles a frame of the connection *)

\* The NOTIFY, if it is the first in the queue, comes into the hands of a worker.
LEMMA GetNotes ==
  ASSUME AgentTypes, NEW c \in Conns, OneNotify(c), LastNotify(c),
         NEW w \in Workers, Get(w), InQueue(c, 1)
  PROVE  /\ OneNotify(c)' /\ LastNotify(c)' /\ (Pending(c)' => Pending(c)) /\ (Handed(c)' => Handed(c))
         /\ \A v \in Workers : /\ Writes(c, v)' <=> Writes(c, v)
                               /\ Writes(c, v) => work'[v] = work[v]
         /\ (\A i \in 1 .. Len(queue) : InQueue(c, i) => AtQueue(c, i)) =>
                /\ \A i \in 1 .. Len(queue') : InQueue(c, i)' => AtQueue(c, i)'
                /\ (\A v \in Workers : InWork(c, v) => AtWork(c, v)) =>
                       \A v \in Workers : InWork(c, v)' => AtWork(c, v)'
<1>1. /\ sent'[c] = sent[c] /\ inbox'[c] = inbox[c] /\ at'[c] = at[c] /\ cur'[c] = cur[c]
      /\ 1 \in 1 .. Len(queue) /\ queue[1].pc = c
  BY GetMoves DEF env, peers, conn, InQueue
<1>2. /\ work[w] = Nil /\ work'[w] = [pc |-> queue[1].pc, f |-> queue[1].f, out |-> <<>>]
      /\ work'[w].f = queue[1].f /\ work'[w].out = <<>>
      /\ \A v \in Workers : v # w => work'[v] = work[v]
      /\ \A i \in 1 .. Len(queue') : i + 1 \in 1 .. Len(queue) /\ queue[i + 1] = queue'[i]
  BY GetMoves
<1>3. \A i \in 1 .. Len(queue') : i + 1 # 1 /\ i \in Nat
  OBVIOUS
<1>4. \A i \in 1 .. Len(queue') :
          /\ InQueue(c, i)' => InQueue(c, i + 1)
          /\ AtQueue(c, i)' => AtQueue(c, i + 1) /\ i + 1 \in 1 .. Len(queue)
  BY <1>2 DEF InQueue, AtQueue
<1>5. \A v \in Workers :
          /\ Writes(c, v)' <=> Writes(c, v)
          /\ InWork(c, v)' => v = w \/ InWork(c, v)
          /\ AtWork(c, v)' => (v = w /\ AtQueue(c, 1)) \/ (v # w /\ AtWork(c, v))
  <2>1. ASSUME NEW v \in Workers, v # w
        PROVE  /\ Writes(c, v)' <=> Writes(c, v)
               /\ InWork(c, v)' => InWork(c, v)
               /\ AtWork(c, v)' => AtWork(c, v)
    BY <1>2, <2>1 DEF InWork, AtWork, Writes
  <2>2. ~ Writes(c, w) /\ ~ Writes(c, w)'
    BY <1>2 DEF InWork, Writes
  <2>3. AtWork(c, w)' => AtQueue(c, 1)
    BY <1>1, <1>2 DEF InWork, AtWork, AtQueue, InQueue
  <2> QED
    BY <2>1, <2>2, <2>3
<1>6. Handed(c)' => Handed(c)
  BY <1>1, <1>4, <1>5 DEF Handed
<1>7. /\ \A i : AtInbox(c, i)' <=> AtInbox(c, i)
      /\ (AtCur(c)' <=> AtCur(c))
  BY <1>1 DEF AtInbox, AtCur
<1>8. Pending(c)' => Pending(c)
  BY <1>1, <1>6, <1>7 DEF Pending
<1>12. OneNotify(c)'
  <2>1. \A i \in 1 .. Len(inbox'[c]) : AtInbox(c, i)' => i = 1 /\ ~ AtCur(c)' /\ ~ Handed(c)'
    BY <1>1, <1>6, <1>7 DEF OneNotify
  <2>2. AtCur(c)' => ~ Handed(c)'
    BY <1>6, <1>7 DEF OneNotify
  <2>3. \A i, j \in 1 .. Len(queue') : AtQueue(c, i)' /\ AtQueue(c, j)' => i = j
    <3>1. ASSUME NEW i \in 1 .. Len(queue'), NEW j \in 1 .. Len(queue'),
                 AtQueue(c, i)', AtQueue(c, j)'
          PROVE  i = j
      <4>1. i + 1 = j + 1
        BY <1>4, <3>1 DEF OneNotify
      <4> QED
        BY <4>1
    <3> QED
      BY <3>1
  <2>4. \A u, v \in Workers : AtWork(c, u)' /\ AtWork(c, v)' => u = v
    BY <1>1, <1>5 DEF OneNotify
  <2>5. \A i \in 1 .. Len(queue'), v \in Workers : ~ (AtQueue(c, i)' /\ AtWork(c, v)')
    <3>1. ASSUME NEW i \in 1 .. Len(queue'), AtQueue(c, i)', NEW v \in Workers, AtWork(c, v)'
          PROVE  FALSE
      <4>1. AtQueue(c, i + 1) /\ i + 1 \in 1 .. Len(queue) /\ i + 1 # 1
        BY <1>3, <1>4, <3>1
      <4>2. AtQueue(c, 1) \/ AtWork(c, v)
        BY <1>5, <3>1
      <4> QED
        BY <1>1, <4>1, <4>2 DEF OneNotify
    <3> QED
      BY <3>1
  <2> QED
    BY <2>1, <2>2, <2>3, <2>4, <2>5 DEF OneNotify
<1>13. LastNotify(c)'
  <2>1. \A i \in 1 .. Len(queue') : AtQueue(c, i)' => queue'[i].f.id = sent'[c]
    BY <1>1, <1>2, <1>4 DEF LastNotify
  <2>2. \A v \in Workers : AtWork(c, v)' => work'[v].f.id = sent'[c]
    BY <1>1, <1>2, <1>5 DEF LastNotify
  <2>3. \A i \in 1 .. Len(inbox'[c]) : AtInbox(c, i)' => inbox'[c][i].id = sent'[c]
    BY <1>1, <1>7 DEF LastNotify
  <2>4. AtCur(c)' => cur'[c].id = sent'[c]
    BY <1>1, <1>7 DEF LastNotify
  <2> QED
    BY <2>1, <2>2, <2>3, <2>4 DEF LastNotify
<1>14. \A v \in Workers : Writes(c, v) => work'[v] = work[v]
  BY <1>2 DEF Writes, InWork
<1>15. ASSUME \A i \in 1 .. Len(queue) : InQueue(c, i) => AtQueue(c, i)
       PROVE  /\ \A i \in 1 .. Len(queue') : InQueue(c, i)' => AtQueue(c, i)'
              /\ (\A v \in Workers : InWork(c, v) => AtWork(c, v)) =>
                     \A v \in Workers : InWork(c, v)' => AtWork(c, v)'
  <2>1. ASSUME NEW i \in 1 .. Len(queue'), InQueue(c, i)'
        PROVE  AtQueue(c, i)'
    <3>1. AtQueue(c, i + 1)
      BY <1>2, <1>4, <1>15, <2>1
    <3> QED
      BY <1>2, <2>1, <3>1 DEF AtQueue
  <2>2. InWork(c, w)' => AtWork(c, w)'
    <3>1. AtQueue(c, 1)
      BY <1>1, <1>15 DEF InQueue
    <3> QED
      BY <1>2, <3>1 DEF AtQueue, AtWork
  <2>3. ASSUME NEW v \in Workers, v # w, InWork(c, v)', InWork(c, v) => AtWork(c, v)
        PROVE  AtWork(c, v)'
    BY <1>2, <2>3 DEF AtWork, InWork
  <2> QED
    BY <2>1, <2>2, <2>3
<1> QED
  BY <1>5, <1>6, <1>8, <1>12, <1>13, <1>14, <1>15

LEMMA GetStep ==
  ASSUME AgentTypes, NEW c \in Conns, Live(c), peer[c] # "closed",
         NEW w \in Workers, Get(w), InQueue(c, 1)
  PROVE  Live(c)'
<1> USE DEF Live
<1>1. /\ peer'[c] = peer[c] /\ sent'[c] = sent[c] /\ inbox'[c] = inbox[c] /\ wire'[c] = wire[c]
      /\ at'[c] = at[c] /\ cur'[c] = cur[c] /\ out'[c] = out[c]
      /\ gotHello'[c] = gotHello[c] /\ cancelled'[c] = cancelled[c] /\ baseDone' = baseDone
      /\ 1 \in 1 .. Len(queue)
  BY GetMoves DEF env, peers, conn
<1>2. /\ OneNotify(c)' /\ LastNotify(c)' /\ (Pending(c)' => Pending(c)) /\ (Handed(c)' => Handed(c))
      /\ \A v \in Workers : /\ Writes(c, v)' <=> Writes(c, v)
                            /\ Writes(c, v) => work'[v] = work[v]
      /\ (\A i \in 1 .. Len(queue) : InQueue(c, i) => AtQueue(c, i)) =>
             /\ \A i \in 1 .. Len(queue') : InQueue(c, i)' => AtQueue(c, i)'
             /\ (\A v \in Workers : InWork(c, v) => AtWork(c, v)) =>
                    \A v \in Workers : InWork(c, v)' => AtWork(c, v)'
  BY GetNotes
<1>3. /\ \A i : AtInbox(c, i)' <=> AtInbox(c, i)
      /\ (AtCur(c)' <=> AtCur(c)) /\ (Done(c)' <=> Done(c))
  BY <1>1 DEF AtInbox, AtCur, Done
<1>4. peer[c] \in {"waiting", "leaving"}
  <2>1. ~ Unscheduled(c)
    BY <1>1 DEF Unscheduled
  <2> QED
    BY <2>1 DEF NewInv, GreetInv, CheckInv, IdleInv, AgentTypes, TypeOK
<1>5. NewInv(c)' /\ GreetInv(c)' /\ CheckInv(c)' /\ IdleInv(c)' /\ LeaveInv(c)'
  BY <1>1, <1>4 DEF NewInv, GreetInv, CheckInv, IdleInv, LeaveInv
<1>6. WaitInv(c)'
  BY <1>1, <1>2, <1>3 DEF WaitInv
<1>7. PendingInv(c)'
  BY <1>1, <1>2, <1>3 DEF PendingInv
<1>8. WireInv(c)'
  BY <1>1, <1>2 DEF WireInv
<1> QED
  BY <1>2, <1>5, <1>6, <1>7, <1>8

\* The frames a worker has not taken stay where they are; the worker that holds
\* one of the connection goes on with it or is done with it.
LEMMA WorkMoves ==
  ASSUME AgentTypes, NEW c \in Conns, NEW w \in Workers, QueueWorker(w), ~ Get(w), InWork(c, w)
  PROVE  /\ peer'[c] = peer[c] /\ sent'[c] = sent[c] /\ inbox'[c] = inbox[c]
         /\ at'[c] = at[c] /\ cur'[c] = cur[c] /\ out'[c] = out[c] /\ gotHello'[c] = gotHello[c]
         /\ baseDone' = baseDone /\ queue' = queue
         /\ \A v \in Workers : v # w => work'[v] = work[v]
         /\ InWork(c, w)' => work'[w].f = work[w].f
         /\ \A v \in Workers : /\ InWork(c, v)' => InWork(c, v)
                               /\ AtWork(c, v)' => AtWork(c, v)
                               /\ v # w => (Writes(c, v)' <=> Writes(c, v))
         /\ \A i : (InQueue(c, i)' <=> InQueue(c, i)) /\ (AtQueue(c, i)' <=> AtQueue(c, i))
         /\ \A i : AtInbox(c, i)' <=> AtInbox(c, i)
         /\ (AtCur(c)' <=> AtCur(c)) /\ (Handed(c)' => Handed(c)) /\ (Pending(c)' => Pending(c))
<1> TypeOK /\ work[w] # Nil
  BY DEF AgentTypes, InWork
<1>1. UNCHANGED <<env, peers, inbox, conn, queue>>
  BY DEF QueueWorker, HandlerReturns, HandlerFails, WriteAck, OnDisconnect, OnRefused
<1>2. /\ \A v \in Workers : v # w => work'[v] = work[v]
      /\ work'[w] # Nil => work'[w].f = work[w].f
  BY DEF QueueWorker, HandlerReturns, HandlerFails, WriteAck, OnDisconnect, OnRefused,
     FinishWork, TypeOK, Job
<1>3. \A v \in Workers : /\ InWork(c, v)' => InWork(c, v)
                         /\ AtWork(c, v)' => AtWork(c, v)
                         /\ v # w => (Writes(c, v)' <=> Writes(c, v))
  BY <1>2 DEF InWork, AtWork, Writes
<1>4. /\ \A i : (InQueue(c, i)' <=> InQueue(c, i)) /\ (AtQueue(c, i)' <=> AtQueue(c, i))
      /\ \A i : AtInbox(c, i)' <=> AtInbox(c, i)
      /\ AtCur(c)' <=> AtCur(c)
  BY <1>1 DEF InQueue, AtQueue, AtInbox, AtCur, env, peers, conn
<1>5. Handed(c)' => Handed(c)
  BY <1>1, <1>3, <1>4 DEF Handed
<1>6. Pending(c)' => Pending(c)
  BY <1>1, <1>4, <1>5 DEF Pending
<1> QED
  BY <1>1, <1>2, <1>3, <1>4, <1>5, <1>6 DEF env, peers, conn, InWork

LEMMA WorkNotes ==
  ASSUME AgentTypes, NEW c \in Conns, OneNotify(c), LastNotify(c),
         NEW w \in Workers, QueueWorker(w), ~ Get(w), InWork(c, w)
  PROVE  OneNotify(c)' /\ LastNotify(c)'
<1>1. /\ sent'[c] = sent[c] /\ inbox'[c] = inbox[c] /\ cur'[c] = cur[c] /\ queue' = queue
      /\ \A v \in Workers : v # w => work'[v] = work[v]
      /\ InWork(c, w)' => work'[w].f = work[w].f
  BY WorkMoves
<1>2. /\ \A v \in Workers : AtWork(c, v)' => AtWork(c, v)
      /\ \A i : AtQueue(c, i)' <=> AtQueue(c, i)
      /\ \A i : AtInbox(c, i)' <=> AtInbox(c, i)
      /\ (AtCur(c)' <=> AtCur(c)) /\ (Handed(c)' => Handed(c))
  BY WorkMoves
<1>3. OneNotify(c)'
  BY <1>1, <1>2 DEF OneNotify
<1>4. \A v \in Workers : AtWork(c, v)' => work'[v].f.id = sent'[c]
  BY <1>1, <1>2 DEF LastNotify, AtWork
<1>5. LastNotify(c)'
  BY <1>1, <1>2, <1>4 DEF LastNotify
<1> QED
  BY <1>3, <1>5

\* What such a step leaves to show is what it does to the wire and the context.
LEMMA WorkKeeps ==
  ASSUME AgentTypes, NEW c \in Conns, Live(c), peer[c] # "closed",
         NEW w \in Workers, QueueWorker(w), ~ Get(w), InWork(c, w),
         cancelled'[c] = cancelled[c] \/ (cancelled'[c] /\ peer[c] = "leaving"),
         wire[c] # <<>> => wire'[c] # <<>>,
         NoPiece(wire[c], "disconnect") => NoPiece(wire'[c], "disconnect"),
         Pending(c)' => (\E v \in Workers : Writes(c, v)') \/ AcksBelow(wire'[c], sent[c]),
         WireInv(c)'
  PROVE  Live(c)'
<1> USE DEF Live
<1> HIDE DEF WireInv
<1>1. /\ peer'[c] = peer[c] /\ sent'[c] = sent[c] /\ inbox'[c] = inbox[c]
      /\ at'[c] = at[c] /\ cur'[c] = cur[c] /\ out'[c] = out[c] /\ gotHello'[c] = gotHello[c]
      /\ baseDone' = baseDone /\ queue' = queue
      /\ \A v \in Workers : v # w => work'[v] = work[v]
      /\ InWork(c, w)' => work'[w].f = work[w].f
  BY WorkMoves
<1>2. /\ \A v \in Workers : /\ InWork(c, v)' => InWork(c, v)
                            /\ AtWork(c, v)' => AtWork(c, v)
      /\ \A i : (InQueue(c, i)' <=> InQueue(c, i)) /\ (AtQueue(c, i)' <=> AtQueue(c, i))
      /\ \A i : AtInbox(c, i)' <=> AtInbox(c, i)
      /\ (AtCur(c)' <=> AtCur(c)) /\ (Handed(c)' => Handed(c)) /\ (Pending(c)' => Pending(c))
  BY WorkMoves
<1>3. peer[c] \in {"waiting", "leaving"}
  <2>1. ~ Unscheduled(c)
    BY DEF Unscheduled
  <2> QED
    BY <2>1 DEF NewInv, GreetInv, CheckInv, IdleInv, AgentTypes, TypeOK
<1>4. NewInv(c)' /\ GreetInv(c)' /\ CheckInv(c)' /\ IdleInv(c)'
  BY <1>1, <1>3 DEF NewInv, GreetInv, CheckInv, IdleInv
<1>5. LeaveInv(c)'
  BY <1>1 DEF LeaveInv
<1>6. WaitInv(c)'
  <2>1. peer[c] = "waiting" => \A v \in Workers : InWork(c, v)' => AtWork(c, v)'
    <3>1. ASSUME peer[c] = "waiting", NEW v \in Workers, InWork(c, v)'
          PROVE  AtWork(c, v)'
      <4>1. AtWork(c, v)
        BY <1>2, <3>1 DEF WaitInv
      <4> QED
        BY <1>1, <3>1, <4>1 DEF AtWork
    <3> QED
      BY <3>1
  <2> QED
    BY <1>1, <1>2, <2>1 DEF WaitInv
<1>7. OneNotify(c)' /\ LastNotify(c)'
  BY WorkNotes
<1>8. PendingInv(c)'
  <2>1. Done(c) => Done(c)'
    BY <1>1 DEF Done
  <2> QED
    BY <1>1, <1>2, <2>1 DEF PendingInv
<1> QED
  BY <1>4, <1>5, <1>6, <1>7, <1>8

\* The handler of the pending NOTIFY returns and its ACK is to be written: no
\* other writer is at work, and no ACK of this NOTIFY is on the wire.
LEMMA HandlerReturnsStep ==
  ASSUME AgentTypes, NEW c \in Conns, Live(c), peer[c] # "closed",
         NEW w \in Workers, HandlerReturns(w), InWork(c, w)
  PROVE  Live(c)'
<1> USE DEF Live
<1>1. /\ work[w].out = <<>> /\ work[w].f.type = "notify" /\ work[w] # Nil
      /\ work[w] \in Job
      /\ UNCHANGED <<env, peers, inbox, wire, conn, cancelled, queue>>
      /\ wire[c] \in Seq(Piece) /\ sent[c] \in Nat
  BY DEF HandlerReturns, Handling, AgentTypes, TypeOK
<1>2. AtWork(c, w) /\ Handed(c) /\ Pending(c)
  BY <1>1 DEF AtWork, Handed, Pending
<1>3. \A v \in Workers : ~ Writes(c, v)
  <2>1. ~ Writes(c, w)
    BY <1>1 DEF Writes
  <2> QED
    BY <1>2, <2>1, WriterHasNotify DEF OneNotify
<1>4. /\ at[c] \in {"read", "schedule"} /\ sent[c] # 0 /\ work[w].f.id = sent[c]
      /\ wire[c] # <<>> /\ NoPiece(wire[c], "disconnect") /\ AcksBelow(wire[c], sent[c])
  BY <1>2, <1>3 DEF PendingInv, LastNotify
<1>5. out[c] = <<>>
  BY <1>4 DEF AgentTypes, TypeOK
<1>6. Good(wire[c], sent[c])
  BY <1>3, <1>5 DEF WireInv
<1>7. PICK k \in {2, 3} : work'[w] = [work[w] EXCEPT !.out = Pieces("ack", sent[c], k)]
  <2>1. PICK k \in {2, 3} : work' = [work EXCEPT ![w].out = Pieces("ack", work[w].f.id, k)]
    BY HandlerAssumption DEF HandlerReturns
  <2>2. work \in [Workers -> Job \cup {Nil}]
    BY DEF AgentTypes, TypeOK
  <2> QED
    BY <1>4, <2>1, <2>2
<1>8. work'[w].out = Pieces("ack", sent[c], k)
  BY <1>1, <1>7 DEF Job
<1>9. Good(wire[c] \o work'[w].out, sent[c])
  BY <1>1, <1>4, <1>6, <1>8, AckIsGood
<1>10. QueueWorker(w) /\ ~ Get(w)
  BY <1>1 DEF QueueWorker, Get
<1>11. /\ out'[c] = out[c] /\ sent'[c] = sent[c] /\ wire'[c] = wire[c]
       /\ cancelled'[c] = cancelled[c]
  BY <1>1 DEF conn, peers
<1>12. WireInv(c)'
  <2>1. \A v \in Workers : v # w => ~ Writes(c, v)'
    BY <1>3, <1>10, WorkMoves
  <2>2. Good(wire'[c] \o work'[w].out, sent'[c])
    BY <1>9, <1>11
  <2>3. \A v \in Workers : ~ Writes(c, v)' => Good(wire'[c], sent'[c])
    BY <1>6, <1>11
  <2> QED
    BY <1>5, <1>6, <1>11, <2>1, <2>2 DEF WireInv
<1> QED
  BY <1>4, <1>10, <1>11, <1>12, WorkKeeps

\* The frame is handled and nothing is written: an error, a refused frame, or
\* HAPROXY-DISCONNECT, which cancels the context of a connection its peer leaves.
LEMMA HandledStep ==
  ASSUME AgentTypes, NEW c \in Conns, Live(c), peer[c] # "closed",
         NEW w \in Workers, HandlerFails(w) \/ OnRefused(w) \/ OnDisconnect(w), InWork(c, w)
  PROVE  Live(c)'
<1> USE DEF Live
<1>1. /\ work[w].out = <<>> /\ work[w] # Nil /\ work[w].pc = c /\ work'[w] = Nil
      /\ UNCHANGED <<env, peers, inbox, wire, conn, queue>>
  BY DEF HandlerFails, OnRefused, OnDisconnect, Handling, FinishWork, InWork, AgentTypes, TypeOK
<1>2. QueueWorker(w) /\ ~ Get(w)
  BY <1>1 DEF QueueWorker, Get
<1>3. /\ out'[c] = out[c] /\ sent'[c] = sent[c] /\ wire'[c] = wire[c]
  BY <1>1 DEF conn, peers
<1>4. \A v \in Workers : Writes(c, v)' <=> Writes(c, v)
  <2>1. ~ Writes(c, w) /\ ~ Writes(c, w)'
    BY <1>1 DEF Writes, InWork
  <2> QED
    BY <1>2, <2>1, WorkMoves
<1>5. cancelled'[c] = cancelled[c] \/ (cancelled'[c] /\ peer[c] = "leaving")
  <2>1. CASE cancelled' = cancelled
    BY <2>1
  <2>2. CASE OnDisconnect(w)
    <3>1. work[w].f.type = "disconnect" /\ cancelled'[c]
      BY <1>1, <2>2 DEF OnDisconnect, Handling, Cancel, AgentTypes, TypeOK
    <3>2. ~ AtWork(c, w) /\ ~ Unscheduled(c)
      BY <3>1 DEF AtWork, Unscheduled
    <3>3. peer[c] = "leaving"
      BY <3>2 DEF NewInv, GreetInv, CheckInv, IdleInv, WaitInv, AgentTypes, TypeOK
    <3> QED
      BY <3>1, <3>3
  <2> QED
    BY <2>1, <2>2 DEF HandlerFails, OnRefused
<1>6. WireInv(c)'
  <2>1. \A v \in Workers : Writes(c, v) => work'[v] = work[v]
    BY <1>1, <1>2, WorkMoves DEF Writes
  <2> QED
    BY <1>3, <1>4, <2>1 DEF WireInv
<1>7. Pending(c)' => (\E v \in Workers : Writes(c, v)') \/ AcksBelow(wire'[c], sent[c])
  BY <1>2, <1>3, <1>4, WorkMoves DEF PendingInv
<1> QED
  BY <1>2, <1>3, <1>5, <1>6, <1>7, WorkKeeps

\* A piece of the ACK is written, and the worker is done after the last one.
LEMMA WriteAckStep ==
  ASSUME AgentTypes, NEW c \in Conns, Live(c), peer[c] # "closed",
         NEW w \in Workers, WriteAck(w), InWork(c, w)
  PROVE  Live(c)'
<1> USE DEF Live
<1> DEFINE o == work[w].out
<1>1. /\ o # <<>> /\ o \in Seq(Piece) /\ work[w] # Nil /\ work[w].pc = c /\ work[w] \in Job
      /\ UNCHANGED <<env, peers, inbox, conn, cancelled, queue>>
      /\ wire[c] \in Seq(Piece)
  BY DEF WriteAck, InWork, AgentTypes, TypeOK, Job
<1>2. Writes(c, w) /\ AtWork(c, w) /\ Handed(c) /\ Pending(c)
  BY <1>1, WriterHasNotify DEF Writes
<1>3. /\ \A v \in Workers : Writes(c, v) => v = w
      /\ \A v \in Workers : AtWork(c, v) => v = w
      /\ \A i \in 1 .. Len(queue) : ~ AtQueue(c, i)
  BY <1>2, WriterHasNotify DEF OneNotify
<1>4. at[c] \in {"read", "schedule"} /\ wire[c] # <<>> /\ NoPiece(wire[c], "disconnect")
  BY <1>2 DEF PendingInv
<1>5. out[c] = <<>>
  BY <1>4 DEF AgentTypes, TypeOK
<1>6. Good(wire[c] \o o, sent[c])
  BY <1>2 DEF WireInv
<1>7. PICK ok \in BOOLEAN : /\ Write(c, Head(o), ok)
                           /\ IF ~ ok \/ Len(o) = 1
                              THEN FinishWork(w)
                              ELSE work' = [work EXCEPT ![w].out = Tail(@)]
  BY <1>1 DEF WriteAck
<1>8. ok /\ wire'[c] = Append(wire[c], Head(o))
  BY <1>4, <1>7 DEF Write, AgentTypes, TypeOK
<1>9. IF Len(o) = 1 THEN work'[w] = Nil
      ELSE work'[w] = [work[w] EXCEPT !.out = Tail(o)]
  BY <1>7, <1>8 DEF FinishWork, AgentTypes, TypeOK
<1>10. /\ Head(o) = o[1] /\ 1 \in 1 .. Len(o) /\ wire'[c] # <<>> /\ Tail(o) \in Seq(Piece)
       /\ wire'[c] \o Tail(o) = wire[c] \o o
       /\ Len(o) = 1 => wire'[c] = wire[c] \o o
       /\ Len(o) # 1 => Tail(o) # <<>>
  <2>1. wire[c] \in Seq(Piece) /\ o \in Seq(Piece) /\ o # <<>> /\ wire'[c] = Append(wire[c], Head(o))
    BY <1>1, <1>8
  <2> HIDE DEF o
  <2>2. Len(o) \in Nat \ {0} => 1 \in 1 .. Len(o)
    OBVIOUS
  <2> QED
    BY <2>1, <2>2, WriteHead, ZenonT(30)
<1>11. o[1].type = "ack"
  BY <1>1, <1>10 DEF AgentTypes, WorkOut
<1> HIDE DEF o
<1>12. QueueWorker(w) /\ ~ Get(w)
  BY <1>1 DEF QueueWorker, Get
<1>13. /\ out'[c] = out[c] /\ sent'[c] = sent[c] /\ cancelled'[c] = cancelled[c]
  BY <1>1 DEF conn, peers
<1>14. NoPiece(wire'[c], "disconnect")
  <2>1. /\ Len(wire'[c]) = Len(wire[c]) + 1 /\ wire'[c][Len(wire[c]) + 1] = o[1]
        /\ \A i \in 1 .. Len(wire[c]) : wire'[c][i] = wire[c][i]
        /\ Len(wire[c]) \in Nat
    BY <1>1, <1>8, <1>10
  <2> QED
    BY <1>4, <1>11, <2>1 DEF NoPiece
<1>15. \A v \in Workers : v # w => ~ Writes(c, v)'
  BY <1>3, <1>12, WorkMoves
<1>16. CASE Len(o) = 1
  <2>1. work'[w] = Nil /\ ~ Writes(c, w)' /\ ~ AtWork(c, w)'
    BY <1>9, <1>16 DEF Writes, AtWork, InWork
  <2>2. WireInv(c)'
    BY <1>5, <1>6, <1>10, <1>13, <1>15, <1>16, <2>1 DEF WireInv
  <2>3. ~ Pending(c)'
    <3>1. ~ Handed(c)'
      BY <1>1, <1>3, <1>12, <2>1, WorkMoves DEF Handed
    <3>2. (\A i \in 1 .. Len(inbox[c]) : ~ AtInbox(c, i)) /\ ~ AtCur(c)
      BY <1>2 DEF OneNotify
    <3> QED
      BY <1>12, <3>1, <3>2, WorkMoves DEF Pending
  <2> QED
    BY <1>10, <1>12, <1>13, <1>14, <2>2, <2>3, WorkKeeps
<1>17. CASE Len(o) # 1
  <2>1. /\ work'[w] = [work[w] EXCEPT !.out = Tail(o)] /\ work'[w].out = Tail(o)
        /\ work'[w].pc = c /\ work'[w] \in Job
    BY <1>1, <1>9, <1>10, <1>17 DEF Job
  <2>2. Good(wire'[c] \o work'[w].out, sent'[c])
    BY <1>6, <1>10, <1>13, <2>1
  <2>3. Writes(c, w)'
    BY <1>10, <1>17, <2>1, NilAssumption DEF Writes, InWork
  <2>4. WireInv(c)'
    BY <1>5, <1>13, <1>15, <2>2, <2>3 DEF WireInv
  <2> QED
    BY <1>10, <1>12, <1>13, <1>14, <2>3, <2>4, WorkKeeps
<1> QED
  BY <1>16, <1>17

-------------------------------------------------------------------------------
(* The peer *)

\* A frame is sent: the queue, the workers and Serve are as before.
LEMMA SendMoves ==
  ASSUME AgentTypes, NEW c \in Conns, NEW m \in InFrames, NEW next, Send(c, m, next),
         UNCHANGED <<env, wire, conn, cancelled, queue, work>>
  PROVE  /\ peer'[c] = next /\ wire'[c] = wire[c] /\ at'[c] = at[c] /\ cur'[c] = cur[c]
         /\ out'[c] = out[c] /\ gotHello'[c] = gotHello[c] /\ cancelled'[c] = cancelled[c]
         /\ baseDone' = baseDone /\ queue' = queue /\ work' = work
         /\ (AtCur(c)' <=> AtCur(c)) /\ (Done(c)' <=> Done(c))
         /\ inbox[c] = <<>> /\ at[c] # "closed" => inbox'[c] = <<m>>
         /\ \A i \in 1 .. Len(inbox'[c]) :
               \/ i \in 1 .. Len(inbox[c]) /\ inbox'[c][i] = inbox[c][i]
               \/ i = Len(inbox[c]) + 1 /\ inbox'[c][i] = m /\ at[c] # "closed"
<1>1. /\ inbox'[c] = IF at[c] = "closed" THEN inbox[c] ELSE Append(inbox[c], m)
      /\ peer'[c] = next /\ inbox[c] \in Seq(InFrames)
  BY DEF Send, AgentTypes, TypeOK
<1>2. /\ Len(Append(inbox[c], m)) = Len(inbox[c]) + 1 /\ Len(inbox[c]) \in Nat
      /\ Append(inbox[c], m)[Len(inbox[c]) + 1] = m
      /\ \A i \in 1 .. Len(inbox[c]) : Append(inbox[c], m)[i] = inbox[c][i]
  BY <1>1, AppendProperties
<1>3. \A i \in 1 .. Len(inbox'[c]) :
          \/ i \in 1 .. Len(inbox[c]) /\ inbox'[c][i] = inbox[c][i]
          \/ i = Len(inbox[c]) + 1 /\ inbox'[c][i] = m /\ at[c] # "closed"
  <2>1. CASE at[c] = "closed"
    BY <1>1, <2>1
  <2>2. CASE at[c] # "closed"
    BY <1>1, <1>2, <2>2
  <2> QED
    BY <2>1, <2>2
<1>4. inbox[c] = <<>> /\ at[c] # "closed" => inbox'[c] = <<m>>
  BY <1>1
<1> QED
  BY <1>1, <1>3, <1>4 DEF AtCur, Done, env, conn

LEMMA FramesAreIn ==
  /\ \A t \in Firsts \cup Faults \cup {"notify", "disconnect"}, id \in Nat :
         /\ Frame(t, id) \in InFrames /\ Frame(t, id).type = t /\ Frame(t, id).id = id
  /\ "notify" \notin Firsts \cup Faults
<1>1. Firsts \cup Faults \cup {"notify", "disconnect"} \subseteq Types /\ "notify" \notin Firsts \cup Faults
  BY PeerAssumption DEF Types
<1> QED
  BY <1>1 DEF InFrames, Frame

LEMMA PeerOpensStep ==
  ASSUME AgentTypes, NEW c \in Conns, Live(c), PeerOpens(c)
  PROVE  Live(c)'
<1> USE DEF Live
<1>1. PICK t \in Firsts : Send(c, Frame(t, 0), CASE t = "hello"       -> "greeting"
                                               [] t = "healthcheck" -> "checking"
                                               [] OTHER             -> "leaving")
  BY DEF PeerOpens
<1> DEFINE m == Frame(t, 0)
           next == CASE t = "hello"       -> "greeting"
                     [] t = "healthcheck" -> "checking"
                     [] OTHER             -> "leaving"
<1>2. m \in InFrames /\ m.type = t /\ t # "notify"
  BY FramesAreIn
<1>3. /\ peer[c] = "new" /\ at[c] # "none" /\ UNCHANGED <<env, sent, wire, conn, cancelled, queue, work>>
  BY DEF PeerOpens
<1>4. /\ at[c] = "read" /\ ~ gotHello[c] /\ ~ cancelled[c]
      /\ inbox[c] = <<>> /\ wire[c] = <<>> /\ Unscheduled(c)
  BY <1>3 DEF NewInv
<1>5. next = IF t = "hello" THEN "greeting" ELSE IF t = "healthcheck" THEN "checking" ELSE "leaving"
  OBVIOUS
<1> HIDE DEF next
<1>6. /\ peer'[c] = next /\ wire'[c] = wire[c] /\ at'[c] = at[c] /\ out'[c] = out[c]
      /\ gotHello'[c] = gotHello[c] /\ cancelled'[c] = cancelled[c]
      /\ queue' = queue /\ work' = work /\ (AtCur(c)' <=> AtCur(c)) /\ inbox'[c] = <<m>>
      /\ sent'[c] = sent[c]
  BY <1>1, <1>2, <1>3, <1>4, SendMoves DEF next
<1>7. /\ Handed(c)' <=> Handed(c)
      /\ Unscheduled(c)' <=> Unscheduled(c)
      /\ \A w : Writes(c, w)' <=> Writes(c, w)
  BY <1>6, SameHands
<1>8. /\ t = "hello" => HelloSent(c, "hello")'
      /\ t = "healthcheck" => HelloSent(c, "healthcheck")'
  BY <1>4, <1>6 DEF HelloSent
<1>9. Len(inbox'[c]) = 1 /\ inbox'[c][1] = m
  BY <1>6
<1> HIDE DEF m
<1>10. NewInv(c)' /\ GreetInv(c)' /\ CheckInv(c)' /\ IdleInv(c)' /\ WaitInv(c)'
  BY <1>4, <1>5, <1>6, <1>7, <1>8 DEF NewInv, GreetInv, CheckInv, IdleInv, WaitInv
<1>11. LeaveInv(c)'
  <2>1. NoPiece(wire'[c], "disconnect")
    BY <1>4, <1>6, EmptySeq DEF NoPiece
  <2>2. peer'[c] = "leaving" => t \notin {"hello", "healthcheck"}
    BY <1>5, <1>6
  <2> QED
    BY <1>2, <1>4, <1>6, <1>9, <2>1, <2>2 DEF LeaveInv
<1>12. ~ Pending(c)'
  <2>1. ~ Handed(c)' /\ ~ AtCur(c)'
    BY <1>4, <1>6, <1>7, UnscheduledIsNotHanded DEF AtCur
  <2>2. \A i \in 1 .. Len(inbox'[c]) : ~ AtInbox(c, i)'
    BY <1>2, <1>9 DEF AtInbox
  <2> QED
    BY <2>1, <2>2 DEF Pending
<1>13. WireInv(c)'
  BY <1>6, <1>7 DEF WireInv, Writes
<1> QED
  BY <1>10, <1>11, <1>12, <1>13, NothingPending

LEMMA PeerGreetedStep ==
  ASSUME AgentTypes, NEW c \in Conns, Live(c), PeerGreeted(c)
  PROVE  Live(c)'
<1> USE DEF Live
<1>1. /\ peer[c] = "greeting" /\ Received(c, "hello", 0) /\ peer'[c] = "idle"
      /\ UNCHANGED <<env, sent, inbox, wire, conn, cancelled, queue, work>>
      /\ wire[c] \in Seq(Piece) /\ out[c] \in Seq(Piece)
      /\ out[c] # <<>> <=> at[c] \in {"hello", "disconnect"}
  BY DEF PeerGreeted, AgentTypes, TypeOK
<1>2. PICK i \in 1 .. Len(wire[c]) : wire[c][i].part = wire[c][i].of
  BY <1>1 DEF Received
<1>3. ~ HelloSent(c, "hello")
  BY <1>2, EmptySeq DEF HelloSent
<1>4. ~ HelloAnswering(c, "hello")
  <2> SUFFICES ASSUME HelloAnswering(c, "hello")
               PROVE  FALSE
    OBVIOUS
  <2> DEFINE s == wire[c]
             o == out[c]
  <2>1. s \in Seq(Piece) /\ o \in Seq(Piece) /\ o # <<>> /\ s \o o = Greeting
    BY <1>1 DEF HelloAnswering
  <2>2. i \in 1 .. Len(s) /\ s[i].part = s[i].of
    BY <1>2
  <2> HIDE DEF s, o
  <2>3. /\ Len(Greeting) = Len(s) + Len(o) /\ Len(s) \in Nat /\ Len(o) \in Nat
        /\ i \in 1 .. Len(Greeting) /\ Greeting[i] = s[i]
    BY <2>1, <2>2, PlacesOfConcat
  <2>4. Len(o) # 0
    BY <2>1
  <2>5. s[i] = [type |-> "hello", id |-> 0, part |-> i, of |-> 2] /\ Len(Greeting) = 2
    BY <2>3, GreetingFacts
  <2>6. i = 2
    BY <2>2, <2>5
  <2>7. 2 = Len(s) + Len(o) /\ 2 \in 1 .. Len(s)
    BY <2>2, <2>3, <2>5, <2>6
  <2> QED
    BY <2>3, <2>4, <2>7
<1>5. /\ HelloAnswered(c) /\ ~ cancelled[c] /\ (at[c] # "read" => baseDone) /\ Unscheduled(c)
  BY <1>1, <1>3, <1>4 DEF GreetInv
<1>6. /\ at[c] \in {"read", "close", "ncClose", "closed"} /\ gotHello[c]
      /\ inbox[c] = <<>> /\ wire[c] = Greeting
  BY <1>5 DEF HelloAnswered
<1>7. wire[c] # <<>> /\ NoPiece(wire[c], "disconnect")
  BY <1>6, GreetingFacts DEF NoPiece
<1>8. /\ Handed(c)' <=> Handed(c)
      /\ Unscheduled(c)' <=> Unscheduled(c)
      /\ \A w : Writes(c, w)' <=> Writes(c, w)
  BY <1>1, SameHands
<1>9. IdleInv(c)'
  BY <1>1, <1>5, <1>6, <1>7, <1>8 DEF IdleInv, env, conn
<1>10. NewInv(c)' /\ GreetInv(c)' /\ CheckInv(c)' /\ WaitInv(c)' /\ LeaveInv(c)'
  BY <1>1 DEF NewInv, GreetInv, CheckInv, WaitInv, LeaveInv
<1>11. ~ Pending(c)'
  BY <1>1, <1>5, <1>6, <1>8, EmptySeq, UnscheduledIsNotHanded DEF Pending, AtInbox, AtCur, conn
<1>12. WireInv(c)'
  BY <1>1, <1>8 DEF WireInv, Writes, conn
<1> QED
  BY <1>9, <1>10, <1>11, <1>12, NothingPending

LEMMA PeerNotifiesStep ==
  ASSUME AgentTypes, NEW c \in Conns, Live(c), PeerNotifies(c)
  PROVE  Live(c)'
<1> USE DEF Live
<1> DEFINE n == sent[c] + 1
           m == Frame("notify", n)
<1>1. /\ peer[c] = "idle" /\ Send(c, m, "waiting") /\ sent' = [sent EXCEPT ![c] = @ + 1]
      /\ UNCHANGED <<env, wire, conn, cancelled, queue, work>>
  BY DEF PeerNotifies
<1>2. sent[c] \in Nat /\ sent'[c] = n /\ n \in Nat /\ n # 0 /\ sent[c] < n /\ wire[c] \in Seq(Piece)
  BY <1>1 DEF AgentTypes, TypeOK
<1>3. m \in InFrames /\ m.type = "notify" /\ m.id = n
  BY <1>2, FramesAreIn
<1> HIDE DEF n, m
<1>4. /\ gotHello[c] /\ ~ cancelled[c] /\ inbox[c] = <<>> /\ Unscheduled(c) /\ ~ Handed(c)
      /\ at[c] \in {"read", "close", "ncClose", "closed"} /\ (at[c] # "read" => baseDone)
      /\ wire[c] # <<>> /\ NoPiece(wire[c], "disconnect")
  BY <1>1, UnscheduledIsNotHanded DEF IdleInv
<1>5. out[c] = <<>>
  BY <1>4 DEF AgentTypes, TypeOK
<1>6. \A w \in Workers : ~ Writes(c, w)
  BY <1>4, WriterHasNotify
<1>7. Good(wire[c], sent[c])
  BY <1>5, <1>6 DEF WireInv
<1>8. Good(wire[c], n)
  BY <1>2, <1>7, CleanGrows
<1>9. AcksBelow(wire[c], n)
  BY <1>2, <1>7, PieceFields DEF AcksBelow, Good, Clean, Ordered
<1>10. /\ peer'[c] = "waiting" /\ wire'[c] = wire[c] /\ at'[c] = at[c] /\ cur'[c] = cur[c]
       /\ out'[c] = out[c] /\ gotHello'[c] = gotHello[c] /\ cancelled'[c] = cancelled[c]
       /\ baseDone' = baseDone /\ queue' = queue /\ work' = work
       /\ (AtCur(c)' <=> AtCur(c)) /\ (Done(c)' <=> Done(c))
       /\ \A i \in 1 .. Len(inbox'[c]) :
             \/ i \in 1 .. Len(inbox[c]) /\ inbox'[c][i] = inbox[c][i]
             \/ i = Len(inbox[c]) + 1 /\ inbox'[c][i] = m /\ at[c] # "closed"
  BY <1>1, <1>3, SendMoves
<1>11. \A i \in 1 .. Len(inbox'[c]) : i = 1 /\ inbox'[c][i] = m /\ at[c] # "closed"
  BY <1>4, <1>10, EmptySeq
<1>12. /\ Handed(c)' <=> Handed(c)
       /\ Unscheduled(c)' <=> Unscheduled(c)
       /\ \A i : InQueue(c, i)' <=> InQueue(c, i)
       /\ \A w : InWork(c, w)' <=> InWork(c, w)
       /\ \A w : Writes(c, w)' <=> Writes(c, w)
  BY <1>10, SameHands
<1>13. ~ AtCur(c)' /\ ~ Handed(c)'
  BY <1>4, <1>10, <1>12 DEF AtCur
<1>14. \A i \in 1 .. Len(inbox'[c]) : AtInbox(c, i)'
  BY <1>3, <1>11 DEF AtInbox
<1>15. WaitInv(c)'
  BY <1>4, <1>10, <1>12, <1>14 DEF WaitInv, Unscheduled
<1>16. NewInv(c)' /\ GreetInv(c)' /\ CheckInv(c)' /\ IdleInv(c)' /\ LeaveInv(c)'
  BY <1>10 DEF NewInv, GreetInv, CheckInv, IdleInv, LeaveInv
<1>17. OneNotify(c)'
  <2>1. /\ \A i \in 1 .. Len(queue') : ~ AtQueue(c, i)'
        /\ \A w \in Workers : ~ AtWork(c, w)'
    BY <1>13 DEF Handed
  <2> QED
    BY <1>11, <1>13, <2>1 DEF OneNotify
<1>18. LastNotify(c)'
  BY <1>2, <1>3, <1>11, <1>13 DEF LastNotify, Handed
<1>19. PendingInv(c)'
  <2>1. \A i \in 1 .. Len(inbox'[c]) : inbox'[c][i].type # "unreadable"
    BY <1>3, <1>11
  <2>2. Pending(c)' => at[c] # "closed"
    BY <1>11, <1>13 DEF Pending
  <2> QED
    BY <1>2, <1>4, <1>9, <1>10, <1>13, <2>1, <2>2 DEF PendingInv, Done
<1>20. WireInv(c)'
  BY <1>2, <1>5, <1>6, <1>8, <1>10, <1>12 DEF WireInv
<1> QED
  BY <1>15, <1>16, <1>17, <1>18, <1>19, <1>20

\* The ACK the peer waits for has arrived as a whole: its NOTIFY is nowhere now.
LEMMA AckedIsDone ==
  ASSUME AgentTypes, NEW c \in Conns, Live(c), Received(c, "ack", sent[c])
  PROVE  ~ Pending(c)
<1> SUFFICES ASSUME Pending(c)
             PROVE  FALSE
  OBVIOUS
<1> USE DEF Live
<1> DEFINE s == wire[c]
<1>2. s \in Seq(Piece) /\ sent[c] \in Nat
  BY DEF AgentTypes, TypeOK
<1>1. PICK i \in 1 .. Len(s) : s[i].type = "ack" /\ s[i].id = sent[c] /\ s[i].part = s[i].of
  <2>1. DOMAIN s = 1 .. Len(s)
    BY <1>2
  <2> QED
    BY <2>1 DEF Received
<1>3. ~ AcksBelow(s, sent[c])
  BY <1>1, <1>2 DEF AcksBelow
<1>4. PICK w \in Workers : Writes(c, w)
  BY <1>3 DEF PendingInv
<1> DEFINE o == work[w].out
           u == s \o o
<1>5. o \in Seq(Piece) /\ o # <<>>
  BY <1>4 DEF Writes, InWork, AgentTypes, TypeOK, Job
<1>6. Ordered(u, sent[c])
  BY <1>4 DEF WireInv, Good, Clean
<1>7. 1 \in 1 .. Len(o)
  BY <1>5, WriteHead
<1>8. o[1].type = "ack" /\ o[1].id = sent[c]
  <2>1. AtWork(c, w)
    BY <1>4, WriterHasNotify
  <2>2. work[w].f.id = sent[c]
    BY <2>1 DEF LastNotify
  <2>3. work[w] # Nil
    BY <1>4 DEF Writes, InWork
  <2> QED
    BY <1>7, <2>2, <2>3 DEF AgentTypes, WorkOut
<1> HIDE DEF s, o
<1>9. /\ i \in 1 .. Len(u) /\ u[i] = s[i] /\ Len(s) \in Nat
      /\ 1 + Len(s) \in 1 .. Len(u) /\ u[1 + Len(s)] = o[1] /\ u \in Seq(Piece)
  BY <1>1, <1>2, <1>5, <1>7, PlacesOfConcat
<1> DEFINE j == 1 + Len(s)
<1>10. j \in 1 .. Len(u) /\ i < j /\ u[j] = o[1]
  BY <1>1, <1>9
<1> HIDE DEF u, j
<1>11. /\ u[i].type = "ack" /\ u[j].type = "ack" /\ u[i].id = sent[c] /\ u[j].id = sent[c]
       /\ u[i].part = u[i].of
  BY <1>1, <1>8, <1>9, <1>10
<1>12. /\ u[j].part <= u[j].of
       /\ u[i].id < u[j].id \/ (u[i].of = u[j].of /\ u[i].part < u[j].part)
  BY <1>6, <1>9, <1>10, <1>11 DEF Ordered
<1>13. u[i].part \in 1 .. 3 /\ u[j].part \in 1 .. 3 /\ u[j].of \in {2, 3}
  BY <1>9, <1>10, PieceFields
<1> QED
  BY <1>2, <1>11, <1>12, <1>13

LEMMA PeerAckedStep ==
  ASSUME AgentTypes, NEW c \in Conns, Live(c), PeerAcked(c)
  PROVE  Live(c)'
<1> USE DEF Live
<1>1. /\ peer[c] = "waiting" /\ peer'[c] = "idle" /\ inbox[c] \in Seq(InFrames)
      /\ UNCHANGED <<env, sent, inbox, wire, conn, cancelled, queue, work>>
  BY DEF PeerAcked, AgentTypes, TypeOK
<1>2. ~ Pending(c)
  BY AckedIsDone DEF PeerAcked
<1>3. /\ \A i \in 1 .. Len(inbox[c]) : ~ AtInbox(c, i)
      /\ ~ AtCur(c) /\ ~ Handed(c)
  BY <1>2 DEF Pending
<1>4. inbox[c] = <<>>
  <2>1. \A i \in 1 .. Len(inbox[c]) : FALSE
    BY <1>1, <1>3 DEF WaitInv
  <2>2. Len(inbox[c]) \in Nat
    BY <1>1
  <2>3. Len(inbox[c]) = 0
    BY <2>1, <2>2
  <2> QED
    BY <1>1, <2>3, EmptySeq
<1>5. Unscheduled(c)
  BY <1>1, <1>3 DEF Unscheduled, Handed, WaitInv
<1>6. /\ Handed(c)' <=> Handed(c)
      /\ Unscheduled(c)' <=> Unscheduled(c)
      /\ \A w : Writes(c, w)' <=> Writes(c, w)
  BY <1>1, SameHands
<1>7. IdleInv(c)'
  BY <1>1, <1>3, <1>4, <1>5, <1>6 DEF IdleInv, WaitInv, env, conn
<1>8. NewInv(c)' /\ GreetInv(c)' /\ CheckInv(c)' /\ WaitInv(c)' /\ LeaveInv(c)'
  BY <1>1 DEF NewInv, GreetInv, CheckInv, WaitInv, LeaveInv
<1>9. ~ Pending(c)'
  BY <1>1, <1>3, <1>6 DEF Pending, AtInbox, AtCur, conn
<1>10. WireInv(c)'
  BY <1>1, <1>6 DEF WireInv, Writes, conn
<1> QED
  BY <1>7, <1>8, <1>9, <1>10, NothingPending

\* The last frame of the peer, after which it leaves.
LEMMA PeerLeavesMoves ==
  ASSUME AgentTypes, NEW c \in Conns, OneNotify(c), LastNotify(c),
         PeerDisconnects(c) \/ PeerMisbehaves(c)
  PROVE  /\ peer[c] \in {"idle", "waiting"} /\ peer'[c] = "leaving"
         /\ wire'[c] = wire[c] /\ at'[c] = at[c] /\ out'[c] = out[c] /\ sent'[c] = sent[c]
         /\ gotHello'[c] = gotHello[c] /\ queue' = queue /\ work' = work /\ (Done(c)' <=> Done(c))
         /\ (Handed(c)' <=> Handed(c)) /\ (\A w : Writes(c, w)' <=> Writes(c, w))
         /\ OneNotify(c)' /\ LastNotify(c)' /\ (Pending(c)' => Pending(c))
         /\ ~ faulty'[c] /\ peer[c] = "waiting" => \A i \in 1 .. Len(inbox'[c]) :
               inbox'[c][i].type # "unreadable" \/ (i \in 1 .. Len(inbox[c]) /\ inbox'[c][i] = inbox[c][i])
<1>1. PICK t \in Faults \cup {"disconnect"} :
          /\ Send(c, Frame(t, 0), "leaving")
          /\ peer[c] = "waiting" /\ ~ faulty'[c] => t # "unreadable"
          /\ UNCHANGED <<env, sent, wire, conn, cancelled, queue, work>>
  <2>1. CASE PeerDisconnects(c)
    BY <2>1 DEF PeerDisconnects
  <2>2. CASE PeerMisbehaves(c)
    BY <2>2 DEF PeerMisbehaves, AgentTypes, TypeOK
  <2> QED
    BY <2>1, <2>2
<1> DEFINE m == Frame(t, 0)
<1>2. m \in InFrames /\ m.type = t /\ t # "notify"
  BY FramesAreIn
<1> HIDE DEF m
<1>3. peer[c] \in {"idle", "waiting"}
  BY DEF PeerDisconnects, PeerMisbehaves
<1>4. /\ peer'[c] = "leaving" /\ wire'[c] = wire[c] /\ at'[c] = at[c] /\ cur'[c] = cur[c]
      /\ out'[c] = out[c] /\ gotHello'[c] = gotHello[c]
      /\ queue' = queue /\ work' = work /\ sent'[c] = sent[c]
      /\ (AtCur(c)' <=> AtCur(c)) /\ (Done(c)' <=> Done(c))
      /\ \A i \in 1 .. Len(inbox'[c]) :
            \/ i \in 1 .. Len(inbox[c]) /\ inbox'[c][i] = inbox[c][i]
            \/ i = Len(inbox[c]) + 1 /\ inbox'[c][i] = m /\ at[c] # "closed"
  BY <1>1, <1>2, SendMoves DEF m
<1>5. \A i \in 1 .. Len(inbox'[c]) : AtInbox(c, i)' =>
          i \in 1 .. Len(inbox[c]) /\ AtInbox(c, i) /\ inbox'[c][i] = inbox[c][i]
  BY <1>2, <1>4 DEF AtInbox
<1>6. /\ Handed(c)' <=> Handed(c)
      /\ \A i : AtQueue(c, i)' <=> AtQueue(c, i)
      /\ \A w : AtWork(c, w)' <=> AtWork(c, w)
      /\ \A w : Writes(c, w)' <=> Writes(c, w)
  BY <1>4, SameHands
<1>7. Pending(c)' => Pending(c)
  BY <1>4, <1>5, <1>6 DEF Pending
<1>8. OneNotify(c)'
  BY <1>4, <1>5, <1>6 DEF OneNotify
<1>9. LastNotify(c)'
  BY <1>4, <1>5, <1>6 DEF LastNotify
<1>10. ~ faulty'[c] /\ peer[c] = "waiting" => \A i \in 1 .. Len(inbox'[c]) :
          inbox'[c][i].type # "unreadable" \/ (i \in 1 .. Len(inbox[c]) /\ inbox'[c][i] = inbox[c][i])
  BY <1>1, <1>2, <1>4
<1> QED
  BY <1>3, <1>4, <1>6, <1>7, <1>8, <1>9, <1>10

LEMMA PeerLeavesStep ==
  ASSUME AgentTypes, NEW c \in Conns, Live(c), PeerDisconnects(c) \/ PeerMisbehaves(c), ~ faulty'[c]
  PROVE  Live(c)'
<1> USE DEF Live
<1>1. /\ peer[c] \in {"idle", "waiting"} /\ peer'[c] = "leaving"
      /\ wire'[c] = wire[c] /\ at'[c] = at[c] /\ out'[c] = out[c] /\ sent'[c] = sent[c]
      /\ gotHello'[c] = gotHello[c] /\ work' = work /\ (Done(c)' <=> Done(c))
      /\ (Handed(c)' <=> Handed(c)) /\ (\A w : Writes(c, w)' <=> Writes(c, w))
  BY PeerLeavesMoves
<1>2. OneNotify(c)' /\ LastNotify(c)' /\ (Pending(c)' => Pending(c))
  BY PeerLeavesMoves
<1>3. peer[c] = "waiting" => \A i \in 1 .. Len(inbox'[c]) :
          inbox'[c][i].type # "unreadable" \/ (i \in 1 .. Len(inbox[c]) /\ inbox'[c][i] = inbox[c][i])
  BY PeerLeavesMoves
<1>4. LeaveInv(c)'
  BY <1>1 DEF LeaveInv, IdleInv, WaitInv
<1>5. NewInv(c)' /\ GreetInv(c)' /\ CheckInv(c)' /\ IdleInv(c)' /\ WaitInv(c)'
  BY <1>1 DEF NewInv, GreetInv, CheckInv, IdleInv, WaitInv
<1>6. PendingInv(c)'
  <2> SUFFICES ASSUME Pending(c)'
               PROVE  PendingInv(c)'
    BY DEF PendingInv
  <2>1. Pending(c)
    BY <1>2
  <2>2. peer[c] = "waiting"
    BY <1>1, <2>1 DEF PendingInv
  <2>3. \A i \in 1 .. Len(inbox'[c]) : inbox'[c][i].type # "unreadable"
    BY <1>3, <2>1, <2>2 DEF PendingInv
  <2> QED
    BY <1>1, <2>1, <2>3 DEF PendingInv
<1>7. WireInv(c)'
  BY <1>1 DEF WireInv, Writes
<1> QED
  BY <1>2, <1>4, <1>5, <1>6, <1>7

-------------------------------------------------------------------------------
(* Two writers *)

\* Whatever is still to be written, what has arrived is in good order.
LEMMA LiveIsClean ==
  ASSUME AgentTypes, NEW c \in Conns, Live(c)
  PROVE  Clean(wire[c], sent[c])
<1>1. wire[c] \in Seq(Piece) /\ out[c] \in Seq(Piece) /\ sent[c] \in Nat
  BY DEF AgentTypes, TypeOK
<1>2. WireInv(c)
  BY DEF Live
<1>3. CASE out[c] # <<>>
  BY <1>1, <1>2, <1>3, CleanBefore DEF WireInv, Good
<1>4. ASSUME NEW w \in Workers, Writes(c, w)
      PROVE  Clean(wire[c], sent[c])
  <2>1. work[w].out \in Seq(Piece)
    BY <1>4 DEF Writes, InWork, AgentTypes, TypeOK, Job
  <2>2. Clean(wire[c] \o work[w].out, sent[c])
    BY <1>2, <1>4 DEF WireInv, Good
  <2> QED
    BY <1>1, <2>1, <2>2, CleanBefore
<1>5. CASE out[c] = <<>> /\ \A w \in Workers : ~ Writes(c, w)
  BY <1>2, <1>5 DEF WireInv, Good
<1> QED
  BY <1>3, <1>4, <1>5

\* A worker that writes for the connection writes the last NOTIFY's ACK.
LEMMA WriterOut ==
  ASSUME AgentTypes, NEW c \in Conns, LastNotify(c), NEW w \in Workers, Writes(c, w)
  PROVE  /\ work[w].out \in Seq(Piece) /\ work[w].out # <<>> /\ work[w] \in Job
         /\ 1 \in 1 .. Len(work[w].out)
         /\ \A i \in 1 .. Len(work[w].out) :
               work[w].out[i].type = "ack" /\ work[w].out[i].id = sent[c]
<1>1. work[w] # Nil /\ work[w] \in Job /\ work[w].out \in Seq(Piece) /\ work[w].out # <<>>
  BY DEF AgentTypes, TypeOK, Writes, InWork, Job
<1>2. work[w].f.id = sent[c]
  BY WriterHasNotify DEF LastNotify
<1>3. 1 \in 1 .. Len(work[w].out)
  BY <1>1, WriteHead
<1> QED
  BY <1>1, <1>2, <1>3 DEF AgentTypes, WorkOut

\* The unreadable frame is sent while an ACK is due.
LEMMA FaultStep ==
  ASSUME AgentTypes, NEW c \in Conns, Live(c), PeerMisbehaves(c), faulty'[c]
  PROVE  MixedInv(c)'
<1> USE DEF Live
<1>1. /\ peer[c] = "waiting" /\ peer'[c] = "leaving"
      /\ wire'[c] = wire[c] /\ at'[c] = at[c] /\ out'[c] = out[c] /\ sent'[c] = sent[c]
      /\ gotHello'[c] = gotHello[c] /\ work' = work /\ (\A w : Writes(c, w)' <=> Writes(c, w))
      /\ OneNotify(c)' /\ LastNotify(c)' /\ (Pending(c)' => Pending(c))
  <2>1. peer[c] = "waiting"
    BY DEF PeerMisbehaves, AgentTypes, TypeOK
  <2> QED
    BY <2>1, PeerLeavesMoves
<1>2. /\ gotHello[c] /\ at[c] \in {"read", "schedule", "close", "ncClose", "closed"}
      /\ wire[c] # <<>> /\ NoPiece(wire[c], "disconnect")
  BY <1>1 DEF WaitInv
<1>3. out[c] = <<>> /\ wire[c] \in Seq(Piece) /\ sent[c] \in Nat
  BY <1>2 DEF AgentTypes, TypeOK
<1>4. Mixed(wire[c], sent[c])
  BY <1>3, LiveIsClean, CleanIsMixed
<1>5. ASSUME NEW w \in Workers, Writes(c, w)
      PROVE  Ready(wire[c], sent[c], work[w].out) /\ LastWhole(wire[c], "hello")
  <2>1. Good(wire[c] \o work[w].out, sent[c])
    BY <1>5 DEF WireInv
  <2>2. /\ work[w].out \in Seq(Piece) /\ work[w].out # <<>>
        /\ \A i \in 1 .. Len(work[w].out) :
              work[w].out[i].type = "ack" /\ work[w].out[i].id = sent[c]
    BY <1>5, WriterOut
  <2> QED
    BY <1>2, <1>3, <2>1, <2>2, RestIsReady DEF LastWhole
<1>6. ASSUME \A w \in Workers : ~ Writes(c, w)
      PROVE  LastWhole(wire[c], "hello") /\ LastWhole(wire[c], "ack")
  BY <1>2, <1>3, <1>6 DEF WireInv, Good, Whole, LastWhole
<1>7. Pending(c) => /\ sent[c] # 0
                    /\ \/ \E w \in Workers : Writes(c, w)
                       \/ AcksBelow(wire[c], sent[c]) /\ LastWhole(wire[c], "ack")
  BY <1>6 DEF PendingInv
<1>8. LastWhole(wire[c], "hello")
  BY <1>5, <1>6
<1>9. MixedLive(c)'
  BY <1>1, <1>2, <1>3, <1>5, <1>7, <1>8 DEF MixedLive
<1> QED
  BY <1>1, <1>4, <1>9 DEF MixedInv

\* Serve moves and hands out nothing; it may drop what it has not read.
LEMMA HandsKept ==
  ASSUME NEW c \in Conns, OneNotify(c), LastNotify(c), inbox'[c] \in {inbox[c], <<>>},
         sent'[c] = sent[c], at'[c] # "schedule", queue' = queue, work' = work
  PROVE  OneNotify(c)' /\ LastNotify(c)' /\ (Pending(c)' => Pending(c))
<1>1. /\ Handed(c)' <=> Handed(c)
      /\ \A i : AtQueue(c, i)' <=> AtQueue(c, i)
      /\ \A w : AtWork(c, w)' <=> AtWork(c, w)
  BY SameHands
<1>2. \A i \in 1 .. Len(inbox'[c]) : inbox'[c] = inbox[c]
  BY EmptySeq
<1>3. \A i \in 1 .. Len(inbox'[c]) : AtInbox(c, i)' => i \in 1 .. Len(inbox[c]) /\ AtInbox(c, i)
  BY <1>2 DEF AtInbox
<1>4. ~ AtCur(c)'
  BY DEF AtCur
<1>5. OneNotify(c)'
  BY <1>1, <1>3, <1>4 DEF OneNotify
<1>6. LastNotify(c)'
  BY <1>1, <1>2, <1>3, <1>4 DEF LastNotify
<1> QED
  BY <1>1, <1>3, <1>4, <1>5, <1>6 DEF Pending

\* Another writer's piece comes first.
LEMMA ReadyAfterOther ==
  ASSUME NEW s \in Seq(Piece), NEW n \in Nat, NEW o, NEW q \in Piece,
         Ready(s, n, o), Other(o[1], q)
  PROVE  Ready(Append(s, q), n, o)
<1>1. MayFollow(s, n, o[1]) /\ Run(o)
  BY DEF Ready
<1>2. MayFollow(Append(s, q), n, o[1])
  BY <1>1, OtherMayFollow
<1> QED
  BY <1>1, <1>2 DEF Ready

\* Whether there is something to disconnect or not, Close keeps the order.
LEMMA MixedClose ==
  ASSUME AgentTypes, NEW c \in Conns, MixedLive(c), Close(c)
  PROVE  MixedLive(c)'
<1>1. /\ at[c] = "close" /\ UNCHANGED <<queue, work>> /\ out[c] = <<>>
      /\ inbox'[c] = inbox[c] /\ gotHello'[c] = gotHello[c]
      /\ sent'[c] = sent[c] /\ wire'[c] = wire[c] /\ sent[c] \in Nat /\ wire[c] \in Seq(Piece)
      /\ IF Done(c) THEN at'[c] = "ncClose" /\ out'[c] = out[c]
         ELSE at'[c] = "disconnect" /\ out'[c] = Pieces("disconnect", 0, 2)
  BY DEF Close, AgentTypes, TypeOK, peers, env
<1>2. OneNotify(c) /\ LastNotify(c) /\ wire[c] # <<>>
  BY DEF MixedLive
<1>3. OneNotify(c)' /\ LastNotify(c)' /\ (Pending(c)' => Pending(c))
  BY <1>1, <1>2, HandsKept
<1>4. \A w \in Workers : /\ Writes(c, w)' <=> Writes(c, w)
                         /\ Writes(c, w) => work'[w] = work[w]
  BY <1>1, SameHands
<1>5. CASE Done(c)
  BY <1>1, <1>3, <1>4, <1>5, NothingWritten
<1>6. CASE ~ Done(c)
  <2>1. NoPiece(wire[c], "disconnect") /\ LastWhole(wire[c], "hello")
    BY <1>1 DEF MixedLive
  <2>2. /\ Len(wire[c]) \in 1 .. Len(wire[c])
        /\ wire[c][Len(wire[c])].type \in {"hello", "ack", "disconnect"}
    BY <1>1, <1>2, EmptySeq, PieceFields
  <2>3. \/ wire[c][Len(wire[c])].part = wire[c][Len(wire[c])].of
        \/ {"disconnect", wire[c][Len(wire[c])].type} = {"ack", "disconnect"}
    BY <2>1, <2>2 DEF NoPiece, LastWhole
  <2>4. \A i \in 1 .. Len(wire[c]) : wire[c][i].type # "disconnect"
    BY <2>1 DEF NoPiece
  <2>5. /\ Ready(wire[c], sent[c], Pieces("disconnect", 0, 2))
        /\ Pieces("disconnect", 0, 2)[1].type = "disconnect"
    <3>1. MayBegin(wire[c], sent[c], "disconnect")
      BY <1>2, <2>3, <2>4 DEF MayBegin
    <3>2. ASSUME NEW k, k = 2
          PROVE  /\ Ready(wire[c], sent[c], Pieces("disconnect", 0, k))
                 /\ Pieces("disconnect", 0, k)[1].type = "disconnect"
      BY <1>1, <3>1, <3>2, FrameIsReady
    <3> QED
      BY <3>2
  <2>6. out'[c][1].type = "disconnect" /\ Ready(wire'[c], sent'[c], out'[c])
    BY <1>1, <1>6, <2>5
  <2>7. \A w \in Workers : Writes(c, w)' => Ready(wire'[c], sent'[c], work'[w].out)
    BY <1>1, <1>4 DEF MixedLive
  <2>8. Pending(c)' =>
            /\ sent'[c] # 0
            /\ \/ \E w \in Workers : Writes(c, w)'
               \/ AcksBelow(wire'[c], sent'[c]) /\ LastWhole(wire'[c], "ack")
    BY <1>1, <1>3, <1>4 DEF MixedLive
  <2>9. gotHello'[c] /\ wire'[c] # <<>> /\ LastWhole(wire'[c], "hello")
    BY <1>1 DEF MixedLive
  <2>10. at'[c] = "disconnect"
    BY <1>1, <1>6
  <2> QED
    BY <1>3, <2>6, <2>7, <2>8, <2>9, <2>10 DEF MixedLive
<1> QED
  BY <1>5, <1>6

\* A piece of AGENT-DISCONNECT is written beside the ACK.
LEMMA MixedDisconnect ==
  ASSUME AgentTypes, NEW c \in Conns, MixedLive(c), Mixed(wire[c], sent[c]), peer[c] = "leaving",
         WriteDisconnect(c)
  PROVE  MixedLive(c)' /\ Mixed(wire'[c], sent'[c])
<1> DEFINE s == wire[c]
           o == out[c]
<1>1. /\ at[c] = "disconnect" /\ UNCHANGED <<queue, work>>
      /\ inbox'[c] = inbox[c] /\ gotHello'[c] = gotHello[c] /\ sent'[c] = sent[c]
      /\ o \in Seq(Piece) /\ s \in Seq(Piece) /\ o # <<>> /\ sent[c] \in Nat
  BY DEF WriteDisconnect, AgentTypes, TypeOK, peers, env
<1>2. PICK ok \in BOOLEAN :
          /\ Write(c, Head(o), ok)
          /\ IF ~ ok \/ Len(o) = 1
             THEN /\ out' = [out EXCEPT ![c] = <<>>]
                  /\ at' = [at EXCEPT ![c] = "ncClose"]
                  /\ Cancel(c)
             ELSE /\ out' = [out EXCEPT ![c] = Tail(@)]
                  /\ UNCHANGED <<at, cancelled>>
  BY DEF WriteDisconnect
<1>3. ok /\ wire'[c] = Append(s, Head(o))
  BY <1>1, <1>2 DEF Write, AgentTypes, TypeOK
<1>4. IF Len(o) = 1 THEN out'[c] = <<>> /\ at'[c] = "ncClose"
      ELSE out'[c] = Tail(o) /\ at'[c] = "disconnect"
  BY <1>1, <1>2, <1>3 DEF AgentTypes, TypeOK
<1>5. /\ OneNotify(c) /\ LastNotify(c) /\ gotHello[c] /\ Ready(s, sent[c], o)
      /\ o[1].type = "disconnect"
  BY <1>1 DEF MixedLive
<1>6. OneNotify(c)' /\ LastNotify(c)' /\ (Pending(c)' => Pending(c))
  BY <1>1, <1>4, <1>5, HandsKept
<1>7. \A w \in Workers : /\ Writes(c, w)' <=> Writes(c, w)
                         /\ Writes(c, w) => work'[w] = work[w]
  BY <1>1, SameHands
<1>8. /\ Head(o) = o[1] /\ o[1] \in Piece
  BY <1>1, WriteHead
<1>9. /\ wire'[c] # <<>> /\ Len(wire'[c]) = Len(s) + 1 /\ wire'[c][Len(s) + 1] = o[1]
      /\ \A i \in 1 .. Len(wire'[c]) : (i \in 1 .. Len(s) /\ wire'[c][i] = s[i]) \/ wire'[c][i] = o[1]
  BY <1>1, <1>3, <1>8, AppendProperties
<1>10. ASSUME NEW w \in Workers, Writes(c, w)
       PROVE  Ready(wire'[c], sent'[c], work'[w].out)
  <2>1. Ready(s, sent[c], work[w].out)
    BY <1>10 DEF MixedLive
  <2>2. Other(work[w].out[1], o[1])
    BY <1>5, <1>10, WriterOut DEF Other
  <2>3. Ready(Append(s, o[1]), sent[c], work[w].out)
    BY <1>1, <1>8, <2>1, <2>2, ReadyAfterOther
  <2> QED
    BY <1>1, <1>3, <1>7, <1>8, <1>10, <2>3
<1>11. LastWhole(wire'[c], "hello") /\ LastWhole(wire'[c], "ack")
  BY <1>5, <1>9 DEF LastWhole
<1>12. AcksBelow(s, sent[c]) => AcksBelow(wire'[c], sent'[c])
  BY <1>1, <1>5, <1>9 DEF AcksBelow
<1>13. Pending(c)' => /\ sent'[c] # 0
                      /\ \/ \E w \in Workers : Writes(c, w)'
                         \/ AcksBelow(wire'[c], sent'[c]) /\ LastWhole(wire'[c], "ack")
  BY <1>1, <1>6, <1>7, <1>11, <1>12 DEF MixedLive
<1>14. /\ Mixed(Append(s, Head(o)), sent[c])
       /\ Len(o) # 1 => Ready(Append(s, Head(o)), sent[c], Tail(o)) /\ Tail(o)[1].type = o[1].type
  <2> DEFINE n == sent[c]
  <2>1. s \in Seq(Piece) /\ n \in Nat /\ o \in Seq(Piece) /\ o # <<>> /\ Mixed(s, n) /\ Ready(s, n, o)
    BY <1>1, <1>5
  <2> HIDE DEF s, n, o
  <2> QED
    BY <2>1, WriteReady DEF n
<1>15. out'[c] # <<>> => out'[c][1].type = "disconnect" /\ Ready(wire'[c], sent'[c], out'[c])
  BY <1>1, <1>3, <1>4, <1>5, <1>14
<1> HIDE DEF s, o
<1>16. at'[c] \in {"disconnect", "ncClose"}
  BY <1>4
<1>17. \A w \in Workers : Writes(c, w)' => Ready(wire'[c], sent'[c], work'[w].out)
  BY <1>7, <1>10
<1>18. gotHello'[c] /\ wire'[c] # <<>>
  BY <1>1, <1>5, <1>9
<1>19. MixedLive(c)'
  BY <1>6, <1>11, <1>13, <1>15, <1>16, <1>17, <1>18 DEF MixedLive
<1>20. Mixed(wire'[c], sent'[c])
  BY <1>1, <1>3, <1>14
<1> QED
  BY <1>19, <1>20

\* The other steps of Serve write nothing.
LEMMA MixedServe ==
  ASSUME AgentTypes, NEW c \in Conns, MixedLive(c), Mixed(wire[c], sent[c]), peer[c] = "leaving",
         Accept(c) \/ Serve(c)
  PROVE  MixedLive(c)' /\ Mixed(wire'[c], sent'[c])
<1> gotHello[c] /\ at[c] \notin {"none", "hello"} /\ OneNotify(c) /\ LastNotify(c)
  BY DEF MixedLive
<1>1. CASE WriteDisconnect(c)
  BY <1>1, MixedDisconnect
<1>2. CASE Close(c)
  <2>1. wire'[c] = wire[c] /\ sent'[c] = sent[c]
    BY <1>2 DEF Close, peers
  <2> QED
    BY <1>2, <2>1, MixedClose
<1>3. ASSUME ReadFrame(c) \/ Schedule(c) \/ ReadFails(c) \/ CloseConn(c)
      PROVE  MixedLive(c)' /\ Mixed(wire'[c], sent'[c])
  <2>1. /\ wire'[c] = wire[c] /\ sent'[c] = sent[c] /\ out'[c] = out[c] /\ gotHello'[c] = gotHello[c]
        /\ work' = work
    BY <1>3 DEF ReadFrame, Schedule, ReadFails, CloseConn, peers
  <2>2. /\ at'[c] \in {"read", "schedule", "close", "closed"}
        /\ at'[c] # "closed" => at[c] \in {"read", "schedule", "close"}
    BY <1>3 DEF ReadFrame, Schedule, ReadFails, CloseConn, AgentTypes, TypeOK
  <2>3. OneNotify(c)' /\ LastNotify(c)' /\ (Pending(c)' => Pending(c))
    <3>1. CASE ReadFrame(c)
      BY <3>1, ReadFrameNotes
    <3>2. CASE Schedule(c)
      BY <3>2, ScheduleNotes
    <3>3. CASE ReadFails(c) \/ CloseConn(c)
      <4>1. inbox'[c] \in {inbox[c], <<>>} /\ at'[c] # "schedule" /\ queue' = queue
        BY <3>3 DEF ReadFails, CloseConn, AgentTypes, TypeOK
      <4> QED
        BY <2>1, <4>1, HandsKept
    <3> QED
      BY <1>3, <3>1, <3>2, <3>3
  <2>4. \A w \in Workers : /\ Writes(c, w)' <=> Writes(c, w)
                           /\ Writes(c, w) => work'[w] = work[w]
    BY <2>1 DEF Writes, InWork
  <2> QED
    BY <2>1, <2>2, <2>3, <2>4, NothingWritten
<1>4. ~ Accept(c) /\ ~ ReadHello(c) /\ ~ WriteHello(c) /\ ~ RefuseHello(c)
  BY DEF Accept, ReadHello, WriteHello, RefuseHello
<1> QED
  BY <1>1, <1>2, <1>3, <1>4 DEF Serve

\* After its last piece the ACK is due no more.
LEMMA LastAckEnds ==
  ASSUME AgentTypes, NEW c \in Conns, OneNotify(c),
         NEW w \in Workers, WriteAck(w), Writes(c, w), work'[w] = Nil
  PROVE  ~ Pending(c)' /\ \A v \in Workers : ~ Writes(c, v)'
<1>1. InWork(c, w) /\ AtWork(c, w) /\ Handed(c)
  BY WriterHasNotify DEF Writes
<1>2. /\ \A v \in Workers : AtWork(c, v) => v = w
      /\ \A i \in 1 .. Len(queue) : ~ AtQueue(c, i)
      /\ \A i \in 1 .. Len(inbox[c]) : ~ AtInbox(c, i)
      /\ ~ AtCur(c)
  BY <1>1 DEF OneNotify
<1>3. QueueWorker(w) /\ ~ Get(w)
  BY DEF QueueWorker, WriteAck, Get
<1>4. ~ AtWork(c, w)' /\ ~ Writes(c, w)'
  BY DEF AtWork, Writes, InWork
<1>5. \A v \in Workers : ~ AtWork(c, v)' /\ ~ Writes(c, v)'
  <2>1. ASSUME NEW v \in Workers, v # w
        PROVE  ~ AtWork(c, v) /\ ~ Writes(c, v)
    BY <1>2, <2>1, WriterHasNotify
  <2> QED
    BY <1>1, <1>3, <1>4, <2>1, WorkMoves
<1>6. ~ Handed(c)'
  BY <1>1, <1>2, <1>3, <1>5, WorkMoves DEF Handed
<1> QED
  BY <1>1, <1>2, <1>3, <1>5, <1>6, WorkMoves DEF Pending

\* The ACK is begun, maybe beside AGENT-DISCONNECT.
LEMMA MixedReturns ==
  ASSUME AgentTypes, NEW c \in Conns, MixedLive(c), NEW w \in Workers, HandlerReturns(w), InWork(c, w)
  PROVE  MixedLive(c)'
<1>1. /\ work[w].out = <<>> /\ work[w].f.type = "notify" /\ work[w] # Nil
      /\ work[w] \in Job
      /\ UNCHANGED <<env, peers, inbox, wire, conn, cancelled, queue>>
      /\ wire[c] \in Seq(Piece) /\ sent[c] \in Nat
  BY DEF HandlerReturns, Handling, AgentTypes, TypeOK
<1>2. AtWork(c, w) /\ Handed(c) /\ Pending(c)
  BY <1>1 DEF AtWork, Handed, Pending
<1>3. OneNotify(c) /\ LastNotify(c) /\ wire[c] # <<>> /\ LastWhole(wire[c], "hello")
  BY DEF MixedLive
<1>4. \A v \in Workers : ~ Writes(c, v)
  <2>1. ~ Writes(c, w)
    BY <1>1 DEF Writes
  <2> QED
    BY <1>2, <1>3, <2>1, WriterHasNotify DEF OneNotify
<1>5. /\ sent[c] # 0 /\ work[w].f.id = sent[c]
      /\ AcksBelow(wire[c], sent[c]) /\ LastWhole(wire[c], "ack")
  BY <1>2, <1>4 DEF MixedLive, LastNotify
<1>6. PICK k \in {2, 3} : work'[w] = [work[w] EXCEPT !.out = Pieces("ack", sent[c], k)]
  <2>1. PICK k \in {2, 3} : work' = [work EXCEPT ![w].out = Pieces("ack", work[w].f.id, k)]
    BY HandlerAssumption DEF HandlerReturns
  <2>2. work \in [Workers -> Job \cup {Nil}]
    BY DEF AgentTypes, TypeOK
  <2> QED
    BY <1>5, <2>1, <2>2
<1>7. work'[w].out = Pieces("ack", sent[c], k)
  BY <1>1, <1>6 DEF Job
<1>8. MayBegin(wire[c], sent[c], "ack")
  <2>1. /\ Len(wire[c]) \in 1 .. Len(wire[c])
        /\ wire[c][Len(wire[c])].type \in {"hello", "ack", "disconnect"}
    BY <1>1, <1>3, EmptySeq, PieceFields
  <2>2. \/ wire[c][Len(wire[c])].part = wire[c][Len(wire[c])].of
        \/ {"ack", wire[c][Len(wire[c])].type} = {"ack", "disconnect"}
    BY <1>3, <1>5, <2>1 DEF LastWhole
  <2> QED
    BY <1>3, <1>5, <2>2 DEF MayBegin, AcksBelow
<1>9. Ready(wire[c], sent[c], work'[w].out)
  BY <1>1, <1>5, <1>7, <1>8, FrameIsReady
<1>10. QueueWorker(w) /\ ~ Get(w)
  BY <1>1 DEF QueueWorker, Get
<1>11. OneNotify(c)' /\ LastNotify(c)' /\ (Pending(c)' => Pending(c))
  BY <1>3, <1>10, WorkNotes, WorkMoves
<1>12. /\ out'[c] = out[c] /\ sent'[c] = sent[c] /\ wire'[c] = wire[c] /\ at'[c] = at[c]
       /\ gotHello'[c] = gotHello[c]
  BY <1>1 DEF conn, peers
<1>13. \A v \in Workers : Writes(c, v)' => Ready(wire'[c], sent'[c], work'[v].out)
  <2>1. \A v \in Workers : v # w => ~ Writes(c, v)'
    BY <1>4, <1>10, WorkMoves
  <2> QED
    BY <1>9, <1>12, <2>1
<1>14. Pending(c)' =>
           /\ sent'[c] # 0
           /\ \/ \E v \in Workers : Writes(c, v)'
              \/ AcksBelow(wire'[c], sent'[c]) /\ LastWhole(wire'[c], "ack")
  BY <1>5, <1>12
<1> QED
  BY <1>11, <1>12, <1>13, <1>14 DEF MixedLive

\* A piece of the ACK is written, or fails because Serve has closed the connection.
LEMMA MixedAck ==
  ASSUME AgentTypes, NEW c \in Conns, MixedLive(c), Mixed(wire[c], sent[c]), peer[c] = "leaving",
         NEW w \in Workers, WriteAck(w), InWork(c, w)
  PROVE  MixedLive(c)' /\ Mixed(wire'[c], sent'[c])
<1> DEFINE s == wire[c]
           n == sent[c]
           o == work[w].out
<1>1. /\ o # <<>> /\ work[w] # Nil /\ work[w].pc = c /\ work[w] \in Job
      /\ UNCHANGED <<env, peers, inbox, conn, cancelled, queue>>
      /\ s \in Seq(Piece) /\ n \in Nat
  BY DEF WriteAck, InWork, AgentTypes, TypeOK, Job
<1>2. Writes(c, w) /\ AtWork(c, w) /\ Pending(c) /\ QueueWorker(w) /\ ~ Get(w)
  BY <1>1, WriterHasNotify DEF Writes, QueueWorker, Get
<1>3. OneNotify(c) /\ LastNotify(c) /\ Ready(s, n, o) /\ n # 0
  BY <1>2 DEF MixedLive
<1>4. /\ o \in Seq(Piece) /\ o[1] \in Piece /\ o[1].type = "ack" /\ o[1].id = n /\ Head(o) = o[1]
      /\ Tail(o) \in Seq(Piece) /\ (Len(o) # 1 => Tail(o) # <<>>)
  <2>1. o \in Seq(Piece) /\ 1 \in 1 .. Len(o) /\ o[1].type = "ack" /\ o[1].id = n
    BY <1>2, <1>3, WriterOut
  <2> HIDE DEF o
  <2> QED
    BY <1>1, <2>1, WriteHead
<1>5. OneNotify(c)' /\ LastNotify(c)' /\ (Pending(c)' => Pending(c))
  BY <1>2, <1>3, WorkNotes, WorkMoves DEF Writes
<1>6. /\ out'[c] = out[c] /\ sent'[c] = n /\ at'[c] = at[c] /\ gotHello'[c] = gotHello[c]
  BY <1>1 DEF conn, peers
<1>7. \A v \in Workers : v # w => ~ Writes(c, v) /\ ~ Writes(c, v)'
  <2>1. \A v \in Workers : v # w => ~ Writes(c, v)
    BY <1>2, <1>3, WriterHasNotify DEF OneNotify
  <2> QED
    BY <1>2, <2>1, WorkMoves DEF Writes
<1>8. PICK ok \in BOOLEAN : /\ Write(c, Head(o), ok)
                           /\ IF ~ ok \/ Len(o) = 1
                              THEN FinishWork(w)
                              ELSE work' = [work EXCEPT ![w].out = Tail(@)]
  BY <1>1 DEF WriteAck
<1>9. work'[w] = Nil => ~ Pending(c)' /\ \A v \in Workers : ~ Writes(c, v)'
  BY <1>2, <1>3, LastAckEnds
<1>10. CASE at[c] = "closed"
  <2>1. wire'[c] = s /\ work'[w] = Nil
    BY <1>8, <1>10 DEF Write, FinishWork, AgentTypes, TypeOK
  <2>2. ~ Pending(c)' /\ \A v \in Workers : ~ Writes(c, v)'
    BY <1>9, <2>1
  <2>3. MixedLive(c)'
    BY <1>5, <1>6, <2>1, <2>2 DEF MixedLive
  <2> QED
    BY <1>6, <2>1, <2>3
<1>11. CASE at[c] # "closed"
  <2>1. ok /\ wire'[c] = Append(s, o[1])
    BY <1>4, <1>8, <1>11 DEF Write, AgentTypes, TypeOK
  <2>2. IF Len(o) = 1 THEN work'[w] = Nil
        ELSE work'[w] = [work[w] EXCEPT !.out = Tail(o)]
    BY <1>8, <2>1 DEF FinishWork, AgentTypes, TypeOK
  <2>3. Len(o) # 1 => work'[w].out = Tail(o)
    BY <1>1, <2>2 DEF Job
  <2>4. Writes(c, w)' => Len(o) # 1
    BY <2>2 DEF Writes, InWork
  <2>5. Len(o) # 1 => Writes(c, w)'
    <3>1. Len(o) # 1 => work'[w].pc = c /\ work'[w] \in Job
      BY <1>1, <1>4, <2>2 DEF Job
    <3> QED
      BY <1>4, <2>3, <3>1, NilAssumption DEF Writes, InWork
  <2>6. /\ Mixed(Append(s, o[1]), n)
        /\ Len(o) # 1 => Ready(Append(s, o[1]), n, Tail(o))
    <3>1. Mixed(s, n) /\ s \in Seq(Piece) /\ n \in Nat
      BY <1>1
    <3> HIDE DEF s, n, o
    <3> QED
      BY <1>1, <1>3, <1>4, <3>1, WriteReady
  <2>7. \A v \in Workers : Writes(c, v)' => Ready(wire'[c], sent'[c], work'[v].out)
    BY <1>6, <1>7, <2>1, <2>3, <2>4, <2>6
  <2>8. out'[c] # <<>> => out'[c][1].type = "disconnect" /\ Ready(wire'[c], sent'[c], out'[c])
    <3>1. ASSUME out[c] # <<>>
          PROVE  out[c][1].type = "disconnect" /\ Ready(Append(s, o[1]), n, out[c])
      <4>1. out[c][1].type = "disconnect" /\ Ready(s, n, out[c])
        BY <3>1 DEF MixedLive
      <4>2. Other(out[c][1], o[1])
        BY <1>4, <4>1 DEF Other
      <4> QED
        BY <1>1, <1>4, <4>1, <4>2, ReadyAfterOther
    <3> QED
      BY <1>6, <2>1, <3>1
  <2>9. Pending(c)' => sent'[c] # 0 /\ \E v \in Workers : Writes(c, v)'
    BY <1>3, <1>6, <1>9, <2>2, <2>5
  <2>10. /\ wire'[c] # <<>> /\ Len(wire'[c]) = Len(s) + 1 /\ wire'[c][Len(s) + 1] = o[1]
         /\ \A i \in 1 .. Len(wire'[c]) : (i \in 1 .. Len(s) /\ wire'[c][i] = s[i]) \/ wire'[c][i] = o[1]
    <3> DEFINE p == o[1]
               u == wire'[c]
    <3>1. s \in Seq(Piece) /\ p \in Piece /\ u = Append(s, p)
      BY <1>1, <1>4, <2>1
    <3> HIDE DEF s, p, u
    <3>2. /\ u # <<>> /\ Len(u) = Len(s) + 1 /\ u[Len(s) + 1] = p
          /\ \A i \in 1 .. Len(u) : (i \in 1 .. Len(s) /\ u[i] = s[i]) \/ u[i] = p
      BY <3>1, AppendProperties
    <3> QED
      BY <3>2 DEF s, p, u
  <2>11. NoPiece(s, "disconnect") => NoPiece(wire'[c], "disconnect")
    BY <1>4, <2>10 DEF NoPiece
  <2>12. LastWhole(wire'[c], "hello")
    BY <1>4, <2>10 DEF LastWhole
  <2> HIDE DEF o, n
  <2>13. /\ at'[c] \in {"read", "schedule", "close", "disconnect", "ncClose", "closed"}
         /\ at'[c] \in {"read", "schedule", "close"} => NoPiece(wire'[c], "disconnect")
         /\ gotHello'[c]
    BY <1>6, <2>11 DEF MixedLive
  <2>14. MixedLive(c)'
    BY <1>5, <2>7, <2>8, <2>9, <2>10, <2>12, <2>13 DEF MixedLive
  <2> QED
    BY <1>6, <2>1, <2>6, <2>14
<1> QED
  BY <1>10, <1>11

\* The worker takes or has a frame of the connection.
ItsFrame(c, w) == IF Get(w) THEN InQueue(c, 1) ELSE InWork(c, w)

\* The other steps of a worker write nothing.
LEMMA MixedWork ==
  ASSUME AgentTypes, NEW c \in Conns, MixedLive(c), Mixed(wire[c], sent[c]), peer[c] = "leaving",
         NEW w \in Workers, QueueWorker(w), ItsFrame(c, w)
  PROVE  MixedLive(c)' /\ Mixed(wire'[c], sent'[c])
<1>1. /\ OneNotify(c) /\ LastNotify(c)
      /\ at[c] \in {"read", "schedule", "close", "disconnect", "ncClose", "closed"}
  BY DEF MixedLive
<1>2. CASE Get(w) /\ InQueue(c, 1)
  <2>1. /\ wire'[c] = wire[c] /\ sent'[c] = sent[c] /\ out'[c] = out[c]
        /\ gotHello'[c] = gotHello[c] /\ at'[c] = at[c]
    BY <1>2 DEF Get, peers, conn
  <2>2. OneNotify(c)' /\ LastNotify(c)' /\ (Pending(c)' => Pending(c))
    BY <1>1, <1>2, GetNotes
  <2>3. \A v \in Workers : /\ Writes(c, v)' <=> Writes(c, v)
                           /\ Writes(c, v) => work'[v] = work[v]
    BY <1>1, <1>2, GetNotes
  <2> QED
    BY <1>1, <2>1, <2>2, <2>3, NothingWritten
<1>3. ASSUME HandlerReturns(w), InWork(c, w)
      PROVE  MixedLive(c)' /\ Mixed(wire'[c], sent'[c])
  <2>1. wire'[c] = wire[c] /\ sent'[c] = sent[c]
    BY <1>3 DEF HandlerReturns, peers
  <2> QED
    BY <1>3, <2>1, MixedReturns
<1>4. ASSUME HandlerFails(w) \/ OnRefused(w) \/ OnDisconnect(w), InWork(c, w), ~ Get(w)
      PROVE  MixedLive(c)' /\ Mixed(wire'[c], sent'[c])
  <2>1. /\ work[w].out = <<>> /\ work'[w] = Nil
        /\ UNCHANGED <<env, peers, inbox, wire, conn, queue>>
    BY <1>4 DEF HandlerFails, OnRefused, OnDisconnect, Handling, FinishWork, AgentTypes, TypeOK
  <2>2. /\ wire'[c] = wire[c] /\ sent'[c] = sent[c] /\ out'[c] = out[c]
        /\ gotHello'[c] = gotHello[c] /\ at'[c] = at[c]
    BY <2>1 DEF peers, conn
  <2>3. OneNotify(c)' /\ LastNotify(c)' /\ (Pending(c)' => Pending(c))
    BY <1>1, <1>4, WorkNotes, WorkMoves
  <2>4. \A v \in Workers : /\ Writes(c, v)' <=> Writes(c, v)
                           /\ Writes(c, v) => work'[v] = work[v]
    <3>1. ~ Writes(c, w) /\ ~ Writes(c, w)'
      BY <2>1 DEF Writes, InWork
    <3> QED
      BY <1>4, <3>1, WorkMoves
  <2> QED
    BY <1>1, <2>2, <2>3, <2>4, NothingWritten
<1> QED
  BY <1>2, <1>3, <1>4, MixedAck DEF QueueWorker, ItsFrame

-------------------------------------------------------------------------------
(* The invariant *)

LEMMA ConnInit ==
  ASSUME Init, NEW c \in Conns
  PROVE  ConnInv(c)
<1>1. /\ peer[c] = "new" /\ at[c] = "none" /\ out[c] = <<>> /\ inbox[c] = <<>> /\ wire[c] = <<>>
      /\ sent[c] = 0 /\ ~ faulty[c] /\ ~ gotHello[c] /\ ~ cancelled[c] /\ queue = <<>>
      /\ \A w \in Workers : work[w] = Nil
  BY DEF Init
<1>2. Len(queue) = 0 /\ Len(inbox[c]) = 0
  BY <1>1, EmptySeq
<1>3. Unscheduled(c) /\ \A w \in Workers : ~ Writes(c, w)
  BY <1>1, <1>2 DEF Unscheduled, InWork, Writes
<1>4. ~ Handed(c) /\ ~ AtCur(c) /\ ~ Pending(c)
  BY <1>1, <1>2, <1>3, UnscheduledIsNotHanded DEF AtCur, Pending
<1>5. NewInv(c) /\ GreetInv(c) /\ CheckInv(c) /\ IdleInv(c) /\ WaitInv(c) /\ LeaveInv(c)
  BY <1>1, <1>3 DEF NewInv, GreetInv, CheckInv, IdleInv, WaitInv, LeaveInv
<1>6. OneNotify(c) /\ LastNotify(c) /\ PendingInv(c)
  BY <1>4 DEF Pending, Handed, OneNotify, LastNotify, PendingInv
<1>7. WireInv(c)
  BY <1>1, <1>3, NothingIsGood DEF WireInv
<1> QED
  BY <1>1, <1>5, <1>6, <1>7 DEF ConnInv, Live

LEMMA NotifySent ==
  ASSUME NEW c \in Conns, PeerNotifies(c)
  PROVE  /\ peer[c] = "idle" /\ Send(c, Frame("notify", sent[c] + 1), "waiting")
         /\ faulty' = faulty
  BY ZenonT(30) DEF PeerNotifies

\* Only the peer of c sends an unreadable frame on c.
LEMMA FaultyStays ==
  ASSUME NEW c \in Conns,
         \/ \E d \in Conns : Accept(d) \/ Serve(d)
         \/ \E w \in Workers : QueueWorker(w)
         \/ Peer(c) /\ ~ PeerMisbehaves(c)
  PROVE  faulty' = faulty
<1>1. CASE \E d \in Conns : Accept(d) \/ Serve(d)
  BY <1>1 DEF Accept, Serve, ReadHello, WriteHello, RefuseHello, ReadFrame, Schedule, ReadFails,
       Close, WriteDisconnect, CloseConn, peers
<1>2. CASE \E w \in Workers : QueueWorker(w)
  BY <1>2 DEF QueueWorker, Get, HandlerReturns, HandlerFails, WriteAck, OnDisconnect, OnRefused, peers
<1>3. CASE Peer(c) /\ ~ PeerMisbehaves(c)
  <2>1. PeerOpens(c) => faulty' = faulty
    BY DEF PeerOpens
  <2>2. PeerGreeted(c) \/ PeerAcked(c) => faulty' = faulty
    BY DEF PeerGreeted, PeerAcked
  <2>3. PeerDisconnects(c) \/ PeerCloses(c) => faulty' = faulty
    BY DEF PeerDisconnects, PeerCloses
  <2> QED
    BY <1>3, <2>1, <2>2, <2>3, NotifySent DEF Peer
<1> QED
  BY <1>1, <1>2, <1>3

\* After the peer has closed nothing reaches it.
LEMMA ClosedStays ==
  ASSUME AgentTypes, [Next]_vars, NEW c \in Conns, ConnInv(c), peer[c] = "closed"
  PROVE  ConnInv(c)'
<1> TypeOK
  BY DEF AgentTypes
<1>1. ASSUME NEW d \in Conns, Accept(d) \/ Serve(d)
      PROVE  wire'[c] = wire[c] /\ peer' = peer /\ sent' = sent /\ faulty' = faulty
  BY <1>1 DEF Accept, Serve, ReadHello, WriteHello, RefuseHello, ReadFrame, Schedule, ReadFails,
       Close, WriteDisconnect, CloseConn, Write, peers, TypeOK
<1>2. ASSUME NEW d \in Conns, Peer(d)
      PROVE  wire'[c] = wire[c] /\ peer'[c] = peer[c] /\ sent'[c] = sent[c] /\ faulty'[c] = faulty[c]
  <2>1. CASE d = c
    <3>1. ~ PeerOpens(c) /\ ~ PeerGreeted(c) /\ ~ PeerNotifies(c) /\ ~ PeerAcked(c)
      BY NotifySent DEF PeerOpens, PeerGreeted, PeerAcked
    <3>2. ~ PeerDisconnects(c) /\ ~ PeerMisbehaves(c) /\ ~ PeerCloses(c)
      BY DEF PeerDisconnects, PeerMisbehaves, PeerCloses
    <3> QED
      BY <1>2, <2>1, <3>1, <3>2 DEF Peer
  <2>2. CASE d # c
    BY <1>2, <2>2, PeerOfOther DEF Untouched
  <2> QED
    BY <2>1, <2>2
<1>3. ASSUME NEW w \in Workers, QueueWorker(w)
      PROVE  wire'[c] = wire[c] /\ peer' = peer /\ sent' = sent /\ faulty' = faulty
  BY <1>3 DEF QueueWorker, Get, HandlerReturns, HandlerFails, WriteAck, OnDisconnect, OnRefused,
       Write, peers, TypeOK
<1>4. CASE CancelBase \/ CloseListener \/ UNCHANGED vars
  BY <1>4, ApplicationStep, UntouchedKeepsInv
<1>5. ASSUME wire'[c] = wire[c], peer'[c] = peer[c], sent'[c] = sent[c], faulty'[c] = faulty[c]
      PROVE  ConnInv(c)'
  BY <1>5 DEF ConnInv, MixedInv
<1> QED
  BY <1>1, <1>2, <1>3, <1>4, <1>5 DEF Next

\* The connection's own goroutine and a worker that handles its frame.
LEMMA ServeStep ==
  ASSUME AgentTypes, NEW c \in Conns, ConnInv(c), peer[c] # "closed", Accept(c) \/ Serve(c)
  PROVE  ConnInv(c)'
<1>1. faulty' = faulty /\ peer' = peer
  BY DEF Accept, Serve, ReadHello, WriteHello, RefuseHello, ReadFrame, Schedule, ReadFails,
     Close, WriteDisconnect, CloseConn, peers
<1>2. CASE ~ faulty[c]
  <2>1. Live(c)
    BY <1>2 DEF ConnInv
  <2>2. Live(c)'
    BY <2>1, AcceptStep, ReadHelloStep, WriteHelloStep, RefuseHelloStep, ReadFrameStep,
       ScheduleStep, ReadFailsStep, CloseStep, WriteDisconnectStep, CloseConnStep DEF Serve
  <2> QED
    BY <1>1, <1>2, <2>2 DEF ConnInv
<1>3. CASE faulty[c]
  <2>1. MixedLive(c) /\ Mixed(wire[c], sent[c]) /\ peer[c] = "leaving"
    BY <1>3 DEF ConnInv, MixedInv
  <2>2. MixedLive(c)' /\ Mixed(wire'[c], sent'[c])
    BY <2>1, MixedServe
  <2> QED
    BY <1>1, <1>3, <2>1, <2>2 DEF ConnInv, MixedInv
<1> QED
  BY <1>2, <1>3

LEMMA WorkerStep ==
  ASSUME AgentTypes, NEW c \in Conns, ConnInv(c), peer[c] # "closed",
         NEW w \in Workers, QueueWorker(w), ItsFrame(c, w)
  PROVE  ConnInv(c)'
<1>1. faulty' = faulty /\ peer' = peer
  BY DEF QueueWorker, Get, HandlerReturns, HandlerFails, WriteAck, OnDisconnect, OnRefused, peers
<1>2. CASE ~ faulty[c]
  <2>1. Live(c)
    BY <1>2 DEF ConnInv
  <2>2. Live(c)'
    BY <2>1, GetStep, HandlerReturnsStep, HandledStep, WriteAckStep DEF QueueWorker, ItsFrame
  <2> QED
    BY <1>1, <1>2, <2>2 DEF ConnInv
<1>3. CASE faulty[c]
  <2>1. MixedLive(c) /\ Mixed(wire[c], sent[c]) /\ peer[c] = "leaving"
    BY <1>3 DEF ConnInv, MixedInv
  <2>2. MixedLive(c)' /\ Mixed(wire'[c], sent'[c])
    BY <2>1, MixedWork
  <2> QED
    BY <1>1, <1>3, <2>1, <2>2 DEF ConnInv, MixedInv
<1> QED
  BY <1>2, <1>3

\* The peer of the connection.
LEMMA PeerStep ==
  ASSUME AgentTypes, NEW c \in Conns, ConnInv(c), peer[c] # "closed", Peer(c)
  PROVE  ConnInv(c)'
<1>1. CASE PeerCloses(c)
  <2>1. /\ peer'[c] = "closed" /\ wire' = wire /\ sent' = sent /\ faulty' = faulty
    BY <1>1 DEF PeerCloses, AgentTypes, TypeOK
  <2>2. CASE faulty[c]
    BY <2>1, <2>2 DEF ConnInv, MixedInv
  <2>3. CASE ~ faulty[c]
    <3>1. Clean(wire[c], sent[c])
      BY <2>3, LiveIsClean DEF ConnInv
    <3> QED
      BY <2>1, <2>3, <3>1 DEF ConnInv
  <2> QED
    BY <2>2, <2>3
<1>2. CASE ~ PeerCloses(c)
  <2>1. peer[c] # "leaving" /\ peer'[c] # "closed"
    <3>1. CASE PeerOpens(c)
      BY <3>1, PeerAssumption DEF PeerOpens, Send, AgentTypes, TypeOK
    <3>2. CASE PeerGreeted(c) \/ PeerAcked(c)
      BY <3>2 DEF PeerGreeted, PeerAcked, AgentTypes, TypeOK
    <3>4. CASE PeerNotifies(c)
      <4>1. peer[c] = "idle" /\ Send(c, Frame("notify", sent[c] + 1), "waiting")
        BY <3>4, NotifySent
      <4> QED
        BY <4>1 DEF Send, AgentTypes, TypeOK
    <3>3. CASE PeerDisconnects(c) \/ PeerMisbehaves(c)
      BY <3>3 DEF PeerDisconnects, PeerMisbehaves, Send, AgentTypes, TypeOK
    <3> QED
      BY <1>2, <3>1, <3>2, <3>3, <3>4 DEF Peer
  <2>2. ~ faulty[c] /\ Live(c)
    BY <2>1 DEF ConnInv, MixedInv
  <2>3. CASE faulty'[c]
    <3>1. PeerMisbehaves(c)
      BY <2>2, <2>3, FaultyStays
    <3>2. MixedInv(c)'
      BY <2>2, <2>3, <3>1, FaultStep
    <3> QED
      BY <2>3, <3>2 DEF ConnInv
  <2>4. CASE ~ faulty'[c]
    <3>1. Live(c)'
      BY <1>2, <2>2, <2>4, PeerOpensStep, PeerGreetedStep, PeerNotifiesStep, PeerAckedStep,
         PeerLeavesStep DEF Peer
    <3> QED
      BY <2>1, <2>4, <3>1 DEF ConnInv
  <2> QED
    BY <2>3, <2>4
<1> QED
  BY <1>1, <1>2

LEMMA ConnStep ==
  ASSUME AgentTypes, [Next]_vars, NEW c \in Conns, ConnInv(c)
  PROVE  ConnInv(c)'
<1>1. CASE peer[c] = "closed"
  BY <1>1, ClosedStays
<1>2. CASE peer[c] # "closed"
  <2>1. ASSUME Accept(c) \/ Serve(c)
        PROVE  ConnInv(c)'
    BY <1>2, <2>1, ServeStep
  <2>2. ASSUME Peer(c)
        PROVE  ConnInv(c)'
    BY <1>2, <2>2, PeerStep
  <2>3. ASSUME NEW w \in Workers, QueueWorker(w), Get(w)
        PROVE  ConnInv(c)'
    <3>1. CASE InQueue(c, 1)
      <4>1. ItsFrame(c, w)
        BY <2>3, <3>1 DEF ItsFrame
      <4> QED
        BY <1>2, <2>3, <4>1, WorkerStep
    <3>2. CASE ~ InQueue(c, 1)
      BY <2>3, <3>2, GetOfOther, UntouchedKeepsInv
    <3> QED
      BY <3>1, <3>2
  <2>4. ASSUME NEW w \in Workers, QueueWorker(w), ~ Get(w)
        PROVE  ConnInv(c)'
    BY <1>2, <2>4, WorkerStep, WorkOfOther, UntouchedKeepsInv DEF ItsFrame
  <2>5. ASSUME NEW d \in Conns, d # c, Accept(d) \/ Serve(d) \/ Peer(d)
        PROVE  ConnInv(c)'
    BY <2>5, ServeOfOther, PeerOfOther, UntouchedKeepsInv
  <2>6. CASE CancelBase \/ CloseListener \/ UNCHANGED vars
    BY <2>6, ApplicationStep, UntouchedKeepsInv
  <2> QED
    BY <2>1, <2>2, <2>3, <2>4, <2>5, <2>6 DEF Next
<1> QED
  BY <1>1, <1>2

AgentInv == AgentTypes /\ \A c \in Conns : ConnInv(c)

LEMMA AgentInvariant == Spec => []AgentInv
<1>1. Init => AgentInv
  BY TypesInit, ConnInit DEF AgentInv
<1>2. AgentInv /\ [Next]_vars => AgentInv'
  BY TypesStep, ConnStep DEF AgentInv
<1> QED
  BY <1>1, <1>2, PTL DEF Spec

-------------------------------------------------------------------------------
(* What the peers see *)

\* While the peer listens no frame is torn on the wire, although Serve, Close and
\* the workers write to the socket without a lock (frame.writeTo): between two
\* pieces of one frame comes nothing, or, when HAProxy has sent an unreadable
\* frame with an ACK due, only pieces of AGENT-DISCONNECT in the ACK and of the
\* ACK in AGENT-DISCONNECT.
THEOREM FramesAreIntact == Spec => []WireIntact
<1>1. ASSUME AgentInv, NEW c \in Conns, NEW i \in DOMAIN wire[c]
      PROVE  LET p == wire[c][i]
             IN /\ p.part = 1 /\ i > 1 =>
                       \/ wire[c][i - 1].part = wire[c][i - 1].of
                       \/ Mixes(c, p, wire[c][i - 1])
                /\ p.part > 1 => \E j \in 1 .. i - 1 :
                       /\ wire[c][j] = [p EXCEPT !.part = p.part - 1]
                       /\ \A k \in j + 1 .. i - 1 : Mixes(c, p, wire[c][k])
  <2>1. i \in 1 .. Len(wire[c]) /\ wire[c] \in Seq(Piece) /\ wire[c][i].part \in 1 .. 3
    BY <1>1, PieceFields DEF AgentInv, AgentTypes, TypeOK
  <2>2. CASE faulty[c]
    <3>1. Woven(wire[c])
      BY <1>1, <2>2 DEF AgentInv, ConnInv, MixedInv, Mixed
    <3> QED
      BY <2>1, <2>2, <3>1 DEF Woven, Mixes, Other
  <2>3. CASE ~ faulty[c]
    <3>1. Intact(wire[c])
      BY <1>1, <2>3, LiveIsClean DEF AgentInv, ConnInv, Clean
    <3>2. wire[c][i].part > 1 => /\ i - 1 \in 1 .. i - 1
                                 /\ wire[c][i - 1] = [wire[c][i] EXCEPT !.part = wire[c][i].part - 1]
                                 /\ \A k \in (i - 1) + 1 .. i - 1 : FALSE
      BY <2>1, <3>1 DEF Intact
    <3>3. wire[c][i].part = 1 /\ i > 1 => wire[c][i - 1].part = wire[c][i - 1].of
      BY <2>1, <3>1 DEF Intact
    <3> QED
      BY <3>2, <3>3
  <2> QED
    BY <2>2, <2>3
<1>2. AgentInv => WireIntact
  BY <1>1 DEF WireIntact
<1> QED
  BY <1>2, AgentInvariant, PTL

\* One AGENT-HELLO, the ACKs of the NOTIFYs that were sent, each once and in
\* order, and at most one AGENT-DISCONNECT, after which nothing is written but the
\* ACK that was due when HAProxy sent an unreadable frame.
THEOREM AnswersAreInOrder == Spec => []AnswersInOrder
<1>1. ASSUME AgentInv, NEW c \in Conns, NEW i \in Answers(c)
      PROVE  LET a == wire[c][i]
             IN /\ a.type = "hello" => i = 1
                /\ a.type = "ack" => i > 1 /\ a.id \in 1 .. sent[c]
                /\ a.type = "disconnect" => \A j \in Answers(c) :
                     j <= i \/ (Mixes(c, a, wire[c][j]) /\ wire[c][j].id = sent[c])
                /\ \A j \in Answers(c) :
                     a.type = "ack" /\ wire[c][j].type = "ack" /\ i < j => a.id < wire[c][j].id
  <2>1. wire[c] \in Seq(Piece)
    BY <1>1 DEF AgentInv, AgentTypes, TypeOK
  <2>2. \A j \in Answers(c) : j \in 1 .. Len(wire[c]) /\ j \in Nat /\ wire[c][j].part = 1
    BY <2>1 DEF Answers
  <2>3. CASE faulty[c]
    <3>1. Placed(wire[c], sent[c])
      BY <1>1, <2>3 DEF AgentInv, ConnInv, MixedInv, Mixed
    <3>2. /\ wire[c][i].type = "hello" => i = 1
          /\ wire[c][i].type = "ack" => i > 1 /\ wire[c][i].id \in 1 .. sent[c]
      BY <2>2, <3>1 DEF Placed
    <3>3. ASSUME wire[c][i].type = "disconnect", NEW j \in Answers(c), ~ (j <= i)
          PROVE  Mixes(c, wire[c][i], wire[c][j]) /\ wire[c][j].id = sent[c]
      <4>1. wire[c][j].type = "ack" /\ wire[c][j].id = sent[c]
        BY <2>2, <3>1, <3>3 DEF Placed
      <4> QED
        BY <2>3, <3>3, <4>1 DEF Mixes
    <3>4. ASSUME NEW j \in Answers(c), wire[c][i].type = "ack", wire[c][j].type = "ack", i < j
          PROVE  wire[c][i].id < wire[c][j].id
      BY <2>2, <3>1, <3>4 DEF Placed
    <3> QED
      BY <3>2, <3>3, <3>4
  <2>4. CASE ~ faulty[c]
    <3>1. Ordered(wire[c], sent[c])
      BY <1>1, <2>4, LiveIsClean DEF AgentInv, ConnInv, Clean
    <3>2. /\ wire[c][i].type = "hello" => i = 1
          /\ wire[c][i].type = "ack" => i > 1 /\ wire[c][i].id \in 1 .. sent[c]
      BY <2>2, <3>1 DEF Ordered
    <3>3. ASSUME wire[c][i].type = "disconnect", NEW j \in Answers(c)
          PROVE  j <= i
      <4>1. ~ (i < j)
        BY <2>2, <3>1, <3>3 DEF Ordered
      <4> QED
        BY <2>2, <4>1
    <3>4. ASSUME NEW j \in Answers(c), wire[c][i].type = "ack", wire[c][j].type = "ack", i < j
          PROVE  wire[c][i].id < wire[c][j].id
      BY <2>2, <3>1, <3>4 DEF Ordered
    <3> QED
      BY <3>2, <3>3, <3>4
  <2> QED
    BY <2>3, <2>4
<1>2. AgentInv => AnswersInOrder
  BY <1>1 DEF AnswersInOrder
<1> QED
  BY <1>2, AgentInvariant, PTL

\* A health check gets AGENT-HELLO and nothing else, in particular no
\* AGENT-DISCONNECT, as the comment in onHAProxyHello says.
THEOREM HealthcheckGetsHello == Spec => []HealthcheckOnlyHello
<1>1. ASSUME AgentInv
      PROVE  HealthcheckOnlyHello
  <2> SUFFICES ASSUME NEW c \in Conns, peer[c] = "checking", NEW i \in DOMAIN wire[c]
               PROVE  wire[c][i].type = "hello"
    BY DEF HealthcheckOnlyHello
  <2> DEFINE s == wire[c]
             o == out[c]
  <2>1. s \in Seq(Piece) /\ o \in Seq(Piece) /\ i \in 1 .. Len(s)
    BY <1>1 DEF AgentInv, AgentTypes, TypeOK
  <2>2. s = <<>> \/ s \o o = Greeting \/ s = Greeting
    BY <1>1 DEF AgentInv, ConnInv, MixedInv, Live, CheckInv, HelloSent, HelloAnswering, HelloAnswered
  <2> HIDE DEF s, o
  <2>3. CASE s \o o = Greeting
    <3>1. i \in 1 .. Len(Greeting) /\ Greeting[i] = s[i]
      BY <2>1, <2>3, PlacesOfConcat
    <3>2. s[i] = [type |-> "hello", id |-> 0, part |-> i, of |-> 2]
      BY <3>1, GreetingFacts
    <3> QED
      BY <3>2 DEF s
  <2>4. CASE s = Greeting
    <3>1. s[i] = [type |-> "hello", id |-> 0, part |-> i, of |-> 2]
      BY <2>1, <2>4, GreetingFacts
    <3> QED
      BY <3>1 DEF s
  <2>5. CASE s = <<>>
    BY <2>1, <2>5, EmptySeq
  <2> QED
    BY <2>2, <2>3, <2>4, <2>5
<1> QED
  BY <1>1, AgentInvariant, PTL

\* The context handed to the handlers of a connection is not cancelled while
\* HAProxy uses it: not by another connection, a late worker, or Close.
THEOREM UsedConnIsLive == Spec => []ServedConnIsLive
<1>1. AgentInv => ServedConnIsLive
  BY DEF AgentInv, ConnInv, MixedInv, Live, IdleInv, WaitInv, ServedConnIsLive
<1> QED
  BY <1>1, AgentInvariant, PTL
===============================================================================

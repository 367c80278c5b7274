------------------------------ MODULE SpopAgent ------------------------------
(****************************************************************************)
(* The SPOP agent: Agent.Serve accepts connections (spop/agent.go), one     *)
(* goroutine per connection reads frames (protocolClient.Serve in           *)
(* spop/protocol.go), the workers of the shared scheduler handle them, and  *)
(* both kinds of goroutine write answers to the same socket without a lock. *)
(*                                                                          *)
(* The queue between them is the bounded queue that module FrameQueue       *)
(* implements.  A frame is written by two or three calls of Write           *)
(* (frame.writeTo), so the frames of two writers may mix on the wire.       *)
(* HAProxy, the peer, is external: it sends one NOTIFY at a time, because   *)
(* the agent's hello advertises no capability (no pipelining), it may give  *)
(* up waiting, disconnect or close at any time, and it may send frames that *)
(* the agent rejects.  The contents of frames are abstracted to what        *)
(* happens to them: handled, failing, or unreadable.                        *)
(****************************************************************************)
EXTENDS Naturals, Sequences, FiniteSets, Functions

CONSTANTS
    Conns,        \* the connections
    Workers,      \* the scheduler's worker goroutines
    Cap,          \* the capacity of its queue
    Notifies,     \* how many NOTIFYs HAProxy sends on all connections (bound)
    Firsts,       \* what a peer may send as its first frame (bound)
    Faults,       \* what a peer may wrongly send later (bound)
    Shutdown,     \* whether the application may cancel BaseContext (bound)
    HandlerWaits, \* whether HandleSPOE returns only when its context is done
    Outcomes,     \* how HandleSPOE may end: a subset of {"ack", "fail"}
    AckParts,     \* in how many pieces an ACK is written: 3 with actions, else 2
    Nil

ASSUME SizesAssumption   == Cap \in Nat \ {0} /\ Notifies \in Nat
ASSUME PeerAssumption    ==
    /\ Firsts \subseteq {"hello", "healthcheck", "badHello", "bad", "unreadable"}
    /\ Faults \subseteq {"hello", "bad", "unreadable"}
    /\ Shutdown \in BOOLEAN
ASSUME HandlerAssumption ==
    HandlerWaits \in BOOLEAN /\ Outcomes \subseteq {"ack", "fail"} /\ AckParts \subseteq {2, 3}

VARIABLES
    baseDone,   \* Agent.BaseContext is done
    listening,  \* the listener is open
    peer,       \* peer[c]: what HAProxy is doing on c
    sent,       \* sent[c]: the number of NOTIFYs sent on c
    faulty,     \* history: HAProxy has sent an unreadable frame on c with an ACK due
    inbox,      \* inbox[c]: frames sent to the agent and not read yet
    wire,       \* wire[c]: the pieces of frames that reached the peer
    at,         \* at[c]: where the goroutine of c is
    cur,        \* cur[c]: Serve's frame on its way into the queue
    out,        \* out[c]: what that goroutine has still to write
    gotHello,   \* protocolClient.gotHello
    cancelled,  \* cancelled[c]: c.ctxCancel has been called
    queue,      \* the scheduler's queue
    work        \* work[w]: the frame worker w handles and what it still writes

env   == <<baseDone, listening>>
peers == <<peer, sent, faulty>>
conn  == <<at, cur, out, gotHello>>
vars  == <<env, peers, inbox, wire, conn, cancelled, queue, work>>

\* The frames HAProxy sends.  "unreadable" stands for what readFrom refuses (too
\* long, cut off, header broken), "bad" for what frameHandler refuses (unknown
\* type, malformed disconnect), "badHello" for a hello without a usable
\* max-frame-size.
Frame(type, id) == [type |-> type, id |-> id]
Types == {"hello", "healthcheck", "badHello", "notify", "disconnect", "bad", "unreadable"}
InFrames == [type : Types, id : Nat]

\* The n pieces in which frame.writeTo writes one frame: length, header and
\* fixed part, and the actions of an ACK when there are any.
Piece == [type : {"hello", "ack", "disconnect"}, id : Nat, part : 1 .. 3, of : {2, 3}]
Pieces(type, id, n) == [i \in 1 .. n |-> [type |-> type, id |-> id, part |-> i, of |-> n]]

\* What a worker has at hand: the connection, its frame, and what of the answer is
\* still to be written.
Job == [pc : Conns, f : InFrames, out : Seq(Piece)]
ASSUME NilAssumption == Nil \notin Job

\* The context of c is done; it derives from BaseContext.
Done(c) == cancelled[c] \/ baseDone

\* Mutant: the cancel function of a context all connections share.
CancelShared(c) == cancelled' = [d \in Conns |-> TRUE]

Cancel(c) == cancelled' = [cancelled EXCEPT ![c] = TRUE]

\* What one Write on c does: the outcome is TRUE when it succeeds.  It fails
\* after nc.Close; when the peer is gone it may succeed or fail.
Write(c, piece, ok) ==
    \/ /\ at[c] # "closed" /\ peer[c] # "closed"
       /\ ok
       /\ wire' = [wire EXCEPT ![c] = Append(@, piece)]
    \/ /\ at[c] # "closed" /\ peer[c] = "closed"
       /\ UNCHANGED wire
    \/ /\ at[c] = "closed"
       /\ ~ ok
       /\ UNCHANGED wire

-------------------------------------------------------------------------------
(* The agent: Agent.Serve *)

Init == /\ baseDone = FALSE /\ listening = TRUE
        /\ peer = [c \in Conns |-> "new"]
        /\ sent = [c \in Conns |-> 0]
        /\ faulty = [c \in Conns |-> FALSE]
        /\ inbox = [c \in Conns |-> <<>>]
        /\ wire = [c \in Conns |-> <<>>]
        /\ at = [c \in Conns |-> "none"]
        /\ cur = [c \in Conns |-> Nil]
        /\ out = [c \in Conns |-> <<>>]
        /\ gotHello = [c \in Conns |-> FALSE]
        /\ cancelled = [c \in Conns |-> FALSE]
        /\ queue = <<>>
        /\ work = [w \in Workers |-> Nil]

\* A connection is accepted and its goroutine started.
Accept(c) == /\ listening /\ at[c] = "none"
             /\ at' = [at EXCEPT ![c] = "read"]
             /\ UNCHANGED <<env, peers, inbox, wire, cur, out, gotHello, cancelled, queue, work>>

\* The application cancels BaseContext, and with it the context of every
\* connection.  No connection is closed.
CancelBase == /\ Shutdown /\ ~ baseDone
              /\ baseDone' = TRUE
              /\ UNCHANGED <<listening, peers, inbox, wire, conn, cancelled, queue, work>>

\* The goroutine that waits for BaseContext closes the listener.
CloseListener == /\ baseDone /\ listening
                 /\ listening' = FALSE
                 /\ UNCHANGED <<baseDone, peers, inbox, wire, conn, cancelled, queue, work>>

-------------------------------------------------------------------------------
(* The goroutine of a connection: protocolClient.Serve and Close *)

\* The first frame is a HAPROXY-HELLO: onHAProxyHello runs in this goroutine.
ReadHello(c) ==
    /\ at[c] = "read" /\ ~ gotHello[c]
    /\ inbox[c] # <<>> /\ Head(inbox[c]).type \in {"hello", "healthcheck"}
    /\ inbox' = [inbox EXCEPT ![c] = Tail(@)]
    /\ gotHello' = [gotHello EXCEPT ![c] = TRUE]
    /\ cur' = [cur EXCEPT ![c] = Head(inbox[c])]
    /\ out' = [out EXCEPT ![c] = Pieces("hello", 0, 2)]
    /\ at' = [at EXCEPT ![c] = "hello"]
    /\ UNCHANGED <<env, peers, wire, cancelled, queue, work>>

\* Mutant: the healthcheck key is ignored.
EndsNever(c) == FALSE

\* The hello has a healthcheck key: the deferred ctxCancel(nil).
EndsWithHello(c) == cur[c].type = "healthcheck"

\* AGENT-HELLO is being written.  After the last piece the deferred cancel of a
\* health check has run and Serve returns if the context is done.
WriteHello(c) ==
    /\ at[c] = "hello"
    /\ \E ok \in BOOLEAN :
        /\ Write(c, Head(out[c]), ok)
        /\ IF ok /\ Len(out[c]) > 1
           THEN /\ out' = [out EXCEPT ![c] = Tail(@)]
                /\ UNCHANGED <<cur, at, cancelled>>
           ELSE /\ out' = [out EXCEPT ![c] = <<>>]
                /\ cur' = [cur EXCEPT ![c] = Nil]
                /\ IF EndsWithHello(c) THEN Cancel(c) ELSE UNCHANGED cancelled
                /\ at' = [at EXCEPT ![c] =
                             IF ok /\ ~ cancelled'[c] /\ ~ baseDone THEN "read" ELSE "close"]
    /\ UNCHANGED <<env, peers, inbox, gotHello, queue, work>>

\* The first frame is no HAPROXY-HELLO, or one that onHAProxyHello refuses; in
\* the second case a healthcheck key before the error still cancels the context.
RefuseHello(c) ==
    /\ at[c] = "read" /\ ~ gotHello[c]
    /\ inbox[c] # <<>> /\ Head(inbox[c]).type \notin {"hello", "healthcheck", "unreadable"}
    /\ inbox' = [inbox EXCEPT ![c] = Tail(@)]
    /\ at' = [at EXCEPT ![c] = "close"]
    /\ IF Head(inbox[c]).type = "badHello"
       THEN /\ gotHello' = [gotHello EXCEPT ![c] = TRUE]
            /\ Cancel(c) \/ UNCHANGED cancelled
       ELSE UNCHANGED <<gotHello, cancelled>>
    /\ UNCHANGED <<env, peers, wire, cur, out, queue, work>>

\* A later frame is read in full and scheduled, whatever the state of c.ctx.
ReadFrame(c) ==
    /\ at[c] = "read" /\ gotHello[c]
    /\ inbox[c] # <<>> /\ Head(inbox[c]).type # "unreadable"
    /\ inbox' = [inbox EXCEPT ![c] = Tail(@)]
    /\ cur' = [cur EXCEPT ![c] = Head(inbox[c])]
    /\ at' = [at EXCEPT ![c] = "schedule"]
    /\ UNCHANGED <<env, peers, wire, out, gotHello, cancelled, queue, work>>

\* Mutant: Put does not wait for room.
ScheduleUnbounded(c) ==
    /\ at[c] = "schedule"
    /\ queue' = Append(queue, [pc |-> c, f |-> cur[c]])
    /\ cur' = [cur EXCEPT ![c] = Nil]
    /\ at' = [at EXCEPT ![c] = "read"]
    /\ UNCHANGED <<env, peers, inbox, wire, out, gotHello, cancelled, work>>

\* asyncScheduler.schedule: blocks while the shared queue is full.
Schedule(c) ==
    /\ at[c] = "schedule"
    /\ Len(queue) < Cap
    /\ queue' = Append(queue, [pc |-> c, f |-> cur[c]])
    /\ cur' = [cur EXCEPT ![c] = Nil]
    /\ at' = [at EXCEPT ![c] = "read"]
    /\ UNCHANGED <<env, peers, inbox, wire, out, gotHello, cancelled, work>>

\* readFrom fails: the frame is unreadable, the stream ended, or the peer reset
\* the connection and what it had sent is lost.
ReadFails(c) ==
    /\ at[c] = "read"
    /\ \/ peer[c] = "closed"
       \/ inbox[c] # <<>> /\ Head(inbox[c]).type = "unreadable"
    /\ inbox' = [inbox EXCEPT ![c] = <<>>]
    /\ at' = [at EXCEPT ![c] = "close"]
    /\ UNCHANGED <<env, peers, wire, cur, out, gotHello, cancelled, queue, work>>

\* Mutant: Close does not look at the context.
CloseAlways(c) ==
    /\ at[c] = "close"
    /\ at' = [at EXCEPT ![c] = "disconnect"]
    /\ out' = [out EXCEPT ![c] = Pieces("disconnect", 0, 2)]
    /\ UNCHANGED <<env, peers, inbox, wire, cur, gotHello, cancelled, queue, work>>

\* protocolClient.Close, deferred: nothing to say on a context that is done.
Close(c) ==
    /\ at[c] = "close"
    /\ IF Done(c)
       THEN /\ at' = [at EXCEPT ![c] = "ncClose"]
            /\ UNCHANGED out
       ELSE /\ at' = [at EXCEPT ![c] = "disconnect"]
            /\ out' = [out EXCEPT ![c] = Pieces("disconnect", 0, 2)]
    /\ UNCHANGED <<env, peers, inbox, wire, cur, gotHello, cancelled, queue, work>>

\* Mutant: Close returns when AGENT-DISCONNECT cannot be written.
WriteDisconnectOrReturn(c) ==
    /\ at[c] = "disconnect"
    /\ \E ok \in BOOLEAN :
        /\ Write(c, Head(out[c]), ok)
        /\ IF ~ ok \/ Len(out[c]) = 1
           THEN /\ out' = [out EXCEPT ![c] = <<>>]
                /\ at' = [at EXCEPT ![c] = "ncClose"]
                /\ IF ok THEN Cancel(c) ELSE UNCHANGED cancelled
           ELSE /\ out' = [out EXCEPT ![c] = Tail(@)]
                /\ UNCHANGED <<at, cancelled>>
    /\ UNCHANGED <<env, peers, inbox, cur, gotHello, queue, work>>

\* AGENT-DISCONNECT is being written, on best effort; then the context is
\* cancelled.
WriteDisconnect(c) ==
    /\ at[c] = "disconnect"
    /\ \E ok \in BOOLEAN :
        /\ Write(c, Head(out[c]), ok)
        /\ IF ~ ok \/ Len(out[c]) = 1
           THEN /\ out' = [out EXCEPT ![c] = <<>>]
                /\ at' = [at EXCEPT ![c] = "ncClose"]
                /\ Cancel(c)
           ELSE /\ out' = [out EXCEPT ![c] = Tail(@)]
                /\ UNCHANGED <<at, cancelled>>
    /\ UNCHANGED <<env, peers, inbox, cur, gotHello, queue, work>>

\* nc.Close, the outermost deferred call.
CloseConn(c) ==
    /\ at[c] = "ncClose"
    /\ at' = [at EXCEPT ![c] = "closed"]
    /\ inbox' = [inbox EXCEPT ![c] = <<>>]
    /\ UNCHANGED <<env, peers, wire, cur, out, gotHello, cancelled, queue, work>>

Serve(c) == \/ ReadHello(c) \/ WriteHello(c) \/ RefuseHello(c) \/ ReadFrame(c)
            \/ Schedule(c) \/ ReadFails(c) \/ Close(c) \/ WriteDisconnect(c)
            \/ CloseConn(c)

-------------------------------------------------------------------------------
(* A worker: queueWorker, frameHandler, onNotify, onHAProxyDisconnect *)

\* Get, and the start of frameHandler.
Get(w) == /\ work[w] = Nil /\ queue # <<>>
          /\ work' = [work EXCEPT ![w] = [pc |-> Head(queue).pc, f |-> Head(queue).f, out |-> <<>>]]
          /\ queue' = Tail(queue)
          /\ UNCHANGED <<env, peers, inbox, wire, conn, cancelled>>

Handling(w, type) == work[w] # Nil /\ work[w].out = <<>> /\ work[w].f.type = type

FinishWork(w) == work' = [work EXCEPT ![w] = Nil]

\* HandleSPOE is over and the ACK fits the negotiated frame size.  A handler may
\* wait for the end of the connection's context, as c.ctx is handed to it.
HandlerReturns(w) ==
    /\ Handling(w, "notify")
    /\ "ack" \in Outcomes
    /\ HandlerWaits => Done(work[w].pc)
    /\ \E n \in AckParts : work' = [work EXCEPT ![w].out = Pieces("ack", work[w].f.id, n)]
    /\ UNCHANGED <<env, peers, inbox, wire, conn, cancelled, queue>>

\* The handler panics, the message cannot be parsed, or the ACK is too long: an
\* error is logged, nothing is written and the connection stays.
HandlerFails(w) ==
    /\ Handling(w, "notify")
    /\ "fail" \in Outcomes
    /\ FinishWork(w)
    /\ UNCHANGED <<env, peers, inbox, wire, conn, cancelled, queue>>

\* Mutant: a failed Write is tried again.
WriteAckRetries(w) ==
    /\ work[w] # Nil /\ work[w].out # <<>>
    /\ \E ok \in BOOLEAN :
        /\ Write(work[w].pc, Head(work[w].out), ok)
        /\ IF ~ ok
           THEN UNCHANGED work
           ELSE IF Len(work[w].out) = 1
           THEN FinishWork(w)
           ELSE work' = [work EXCEPT ![w].out = Tail(@)]
    /\ UNCHANGED <<env, peers, inbox, conn, cancelled, queue>>

\* One Write of the ACK.
WriteAck(w) ==
    /\ work[w] # Nil /\ work[w].out # <<>>
    /\ \E ok \in BOOLEAN :
        /\ Write(work[w].pc, Head(work[w].out), ok)
        /\ IF ~ ok \/ Len(work[w].out) = 1
           THEN FinishWork(w)
           ELSE work' = [work EXCEPT ![w].out = Tail(@)]
    /\ UNCHANGED <<env, peers, inbox, conn, cancelled, queue>>

\* Mutant: the worker answers HAPROXY-DISCONNECT with AGENT-DISCONNECT.
OnDisconnectAnswers(w) ==
    /\ Handling(w, "disconnect")
    /\ Cancel(work[w].pc)
    /\ work' = [work EXCEPT ![w].out = Pieces("disconnect", 0, 2)]
    /\ UNCHANGED <<env, peers, inbox, wire, conn, queue>>

\* HAPROXY-DISCONNECT: the context is cancelled, the connection stays open and
\* no AGENT-DISCONNECT is sent.
OnDisconnect(w) ==
    /\ Handling(w, "disconnect")
    /\ Cancel(work[w].pc)
    /\ FinishWork(w)
    /\ UNCHANGED <<env, peers, inbox, wire, conn, queue>>

\* Mutant: a second hello is answered like the first.
OnRefusedGreets(w) ==
    /\ \E type \in Types \ {"notify", "disconnect"} : Handling(w, type)
    /\ IF work[w].f.type = "hello"
       THEN work' = [work EXCEPT ![w].out = Pieces("hello", 0, 2)]
       ELSE FinishWork(w)
    /\ UNCHANGED <<env, peers, inbox, wire, conn, cancelled, queue>>

\* Mutant: the worker does not survive the panic or error.
OnRefusedDies(w) == FALSE

\* A frame frameHandler refuses, or a second hello, whose panic wrapPanic turns
\* into an error: logged.
OnRefused(w) ==
    /\ \E type \in Types \ {"notify", "disconnect"} : Handling(w, type)
    /\ FinishWork(w)
    /\ UNCHANGED <<env, peers, inbox, wire, conn, cancelled, queue>>

QueueWorker(w) == \/ Get(w) \/ HandlerReturns(w) \/ HandlerFails(w)
                  \/ WriteAck(w) \/ OnDisconnect(w) \/ OnRefused(w)

-------------------------------------------------------------------------------
(* HAProxy *)

Send(c, m, next) == /\ inbox' = [inbox EXCEPT ![c] = IF at[c] = "closed" THEN @ ELSE Append(@, m)]
                    /\ peer' = [peer EXCEPT ![c] = next]

\* The whole frame has reached the peer.
Received(c, type, id) == \E i \in DOMAIN wire[c] :
    wire[c][i].type = type /\ wire[c][i].id = id /\ wire[c][i].part = wire[c][i].of

\* The first frame, once the connection is accepted.
PeerOpens(c) ==
    /\ peer[c] = "new" /\ at[c] # "none"
    /\ \E t \in Firsts : Send(c, Frame(t, 0), CASE t = "hello"       -> "greeting"
                                                [] t = "healthcheck" -> "checking"
                                                [] OTHER             -> "leaving")
    /\ UNCHANGED <<env, sent, faulty, wire, conn, cancelled, queue, work>>

\* AGENT-HELLO arrives.
PeerGreeted(c) ==
    /\ peer[c] = "greeting" /\ Received(c, "hello", 0)
    /\ peer' = [peer EXCEPT ![c] = "idle"]
    /\ UNCHANGED <<env, sent, faulty, inbox, wire, conn, cancelled, queue, work>>

\* A NOTIFY: the next one only after the ACK of the last.
PeerNotifies(c) ==
    /\ peer[c] = "idle" /\ FoldFunction(+, 0, sent) < Notifies
    /\ Send(c, Frame("notify", sent[c] + 1), "waiting")
    /\ sent' = [sent EXCEPT ![c] = @ + 1]
    /\ UNCHANGED <<env, faulty, wire, conn, cancelled, queue, work>>

PeerAcked(c) ==
    /\ peer[c] = "waiting" /\ Received(c, "ack", sent[c])
    /\ peer' = [peer EXCEPT ![c] = "idle"]
    /\ UNCHANGED <<env, sent, faulty, inbox, wire, conn, cancelled, queue, work>>

\* HAPROXY-DISCONNECT: the peer needs the connection no more, or has waited too
\* long for an ACK.
PeerDisconnects(c) ==
    /\ peer[c] \in {"idle", "waiting"}
    /\ Send(c, Frame("disconnect", 0), "leaving")
    /\ UNCHANGED <<env, sent, faulty, wire, conn, cancelled, queue, work>>

\* A frame the agent cannot read or refuses, even while an ACK is due: Serve does
\* not wait for the workers, and Close may write beside one of them.
PeerMisbehaves(c) ==
    /\ peer[c] \in {"idle", "waiting"}
    /\ \E t \in Faults :
        /\ Send(c, Frame(t, 0), "leaving")
        /\ faulty' = [faulty EXCEPT ![c] = peer[c] = "waiting" /\ t = "unreadable"]
    /\ UNCHANGED <<env, sent, wire, conn, cancelled, queue, work>>

\* The peer closes the connection, at any time.
PeerCloses(c) ==
    /\ peer[c] # "closed" /\ at[c] # "none"
    /\ peer' = [peer EXCEPT ![c] = "closed"]
    /\ UNCHANGED <<env, sent, faulty, inbox, wire, conn, cancelled, queue, work>>

Peer(c) == \/ PeerOpens(c) \/ PeerGreeted(c) \/ PeerNotifies(c) \/ PeerAcked(c)
           \/ PeerDisconnects(c) \/ PeerMisbehaves(c) \/ PeerCloses(c)

Next == \/ CancelBase \/ CloseListener
        \/ \E c \in Conns : Accept(c) \/ Serve(c) \/ Peer(c)
        \/ \E w \in Workers : QueueWorker(w)

Spec == Init /\ [][Next]_vars

\* Goroutines run; the runtime starves none.  Peers owe nothing, except to look
\* at what has arrived.
FairSpec == /\ Spec
            /\ \A c \in Conns : WF_vars(Serve(c)) /\ WF_vars(PeerGreeted(c) \/ PeerAcked(c))
            /\ \A w \in Workers : WF_vars(QueueWorker(w))

-------------------------------------------------------------------------------
(* Properties *)

\* Every variable keeps its type, the queue its capacity, and Serve holds a frame
\* exactly while it handles the hello or schedules.
TypeOK ==
    /\ baseDone \in BOOLEAN /\ listening \in BOOLEAN
    /\ peer \in [Conns -> {"new", "greeting", "checking", "idle", "waiting", "leaving", "closed"}]
    /\ at \in [Conns -> {"none", "read", "hello", "schedule", "close", "disconnect", "ncClose", "closed"}]
    /\ sent \in [Conns -> Nat] /\ faulty \in [Conns -> BOOLEAN]
    /\ inbox \in [Conns -> Seq(InFrames)]
    /\ wire \in [Conns -> Seq(Piece)] /\ out \in [Conns -> Seq(Piece)]
    /\ gotHello \in [Conns -> BOOLEAN] /\ cancelled \in [Conns -> BOOLEAN]
    /\ cur \in [Conns -> InFrames \cup {Nil}]
    /\ \A c \in Conns : /\ at[c] \in {"hello", "schedule"} => cur[c] \in InFrames
                        /\ at[c] \notin {"hello", "schedule"} => cur[c] = Nil
                        /\ out[c] # <<>> <=> at[c] \in {"hello", "disconnect"}
    /\ queue \in Seq([pc : Conns, f : InFrames]) /\ Len(queue) <= Cap
    /\ work \in [Workers -> Job \cup {Nil}]

\* Close and a worker may write at once: HAProxy has sent an unreadable frame
\* while an ACK was due, and their answers have no order.
Mixes(c, p, q) == faulty[c] /\ {p.type, q.type} = {"ack", "disconnect"}

\* While the peer listens, the pieces of one frame follow each other on the wire.
\* No lock protects the writes of Serve, Close and the workers: this holds
\* because each of them writes only when the others have nothing to write.  The
\* exception is the unreadable frame in front of an ACK, and even then only
\* AGENT-DISCONNECT comes between the pieces of that ACK, and the other way round.
WireIntact ==
    \A c \in Conns : \A i \in DOMAIN wire[c] :
        LET p == wire[c][i]
        IN /\ p.part = 1 /\ i > 1 =>
                  \/ wire[c][i - 1].part = wire[c][i - 1].of
                  \/ Mixes(c, p, wire[c][i - 1])
           /\ p.part > 1 => \E j \in 1 .. i - 1 :
                  /\ wire[c][j] = [p EXCEPT !.part = p.part - 1]
                  /\ \A k \in j + 1 .. i - 1 : Mixes(c, p, wire[c][k])

\* The frames on the wire of c, as the places of their first pieces.
Answers(c) == {i \in DOMAIN wire[c] : wire[c][i].part = 1}

\* What the peer gets is one AGENT-HELLO, then the ACKs of NOTIFYs it has sent,
\* each once and in order, then at most one AGENT-DISCONNECT and nothing more,
\* although the hello is written by Serve, the ACKs by workers and the
\* disconnect by Close.  After the disconnect comes at most the ACK that was due
\* when HAProxy sent an unreadable frame.
AnswersInOrder ==
    \A c \in Conns : \A i \in Answers(c) :
        LET a == wire[c][i]
        IN /\ a.type = "hello" => i = 1
           /\ a.type = "ack" => i > 1 /\ a.id \in 1 .. sent[c]
           /\ a.type = "disconnect" => \A j \in Answers(c) :
                j <= i \/ (Mixes(c, a, wire[c][j]) /\ wire[c][j].id = sent[c])
           /\ \A j \in Answers(c) :
                a.type = "ack" /\ wire[c][j].type = "ack" /\ i < j => a.id < wire[c][j].id

\* A health check gets AGENT-HELLO and the end of the connection, never an
\* AGENT-DISCONNECT, as the comment in onHAProxyHello says.
HealthcheckOnlyHello ==
    \A c \in Conns : peer[c] = "checking" =>
        \A i \in DOMAIN wire[c] : wire[c][i].type = "hello"

\* A connection the peer is using is alive for its handlers: neither the health
\* check's deferred cancel, nor a DISCONNECT handled by a worker, nor Close
\* reaches the context of another connection or comes early.
ServedConnIsLive ==
    \A c \in Conns : peer[c] \in {"idle", "waiting"} => ~ cancelled[c]

\* When nc.Close is called the context is done, on every way out of Serve and
\* whatever the writing of AGENT-DISCONNECT has met: no handler is left waiting
\* for the end of a connection that has ended.
ClosedIsDone ==
    \A c \in Conns : at[c] \in {"ncClose", "closed"} => Done(c)

\* A peer that waits for an ACK does not wait for ever: its NOTIFY passes the
\* shared queue and a worker among the frames of other connections, when handlers
\* return and neither fail nor wait for their context.  (A connection that
\* BaseContext ended right after its hello is closed instead.)  The others send
\* finitely many NOTIFYs here; with rivals that never pause, the scheduler would
\* have to be fair to the connections that wait for room, which nothing in it ensures.
NotifyAnswered ==
    \A c \in Conns : peer[c] = "waiting" ~> (peer[c] # "waiting" \/ at[c] = "closed")

\* When the peer has gone, the connection's goroutine ends and its handlers'
\* context is done, even if Serve is blocked in the scheduler at that time, other
\* connections sending finitely many NOTIFYs, as above.
GoroutineEnds ==
    \A c \in Conns : peer[c] = "closed" ~> (at[c] = "closed" /\ Done(c))

\* A health check is closed by the agent.
HealthcheckCloses ==
    \A c \in Conns : peer[c] = "checking" ~> at[c] = "closed"

\* spop/e2e_test.go:54 "ctx cancel on disconnect": a handler that waits for its
\* context is released when HAProxy has disconnected, here even closed.
CtxCancelledOnDisconnect ==
    \A c \in Conns :
        (peer[c] = "closed" /\ \E w \in Workers : Handling(w, "notify") /\ work[w].pc = c)
            ~> Done(c)
===============================================================================

----------------------------- MODULE PeersSession -----------------------------
(****************************************************************************)
(* One session of the peers listener (peers/peers.go, peers/protocol.go,    *)
(* peers/writer.go): the goroutine that serves the connection, the heartbeat*)
(* and last-message goroutines it starts, and application goroutines that   *)
(* push stick table entries with the session's Writer.  They share one      *)
(* bufio.Writer under one mutex, one context and the handler; sessions share*)
(* nothing but the handler, so one session is enough.                       *)
(*                                                                          *)
(* A critical section of the mutex is one step.  Control messages are only  *)
(* modelled by the flush they cause; timers may expire at any time.  What   *)
(* goes through the buffer goes message by message: that bufio.Writer may   *)
(* cut a message in two, and a failing write leave a piece on the wire, is  *)
(* left out.                                                                *)
(****************************************************************************)
EXTENDS Naturals, Sequences

CONSTANTS
    Pushers,    \* application goroutines; each pushes to a stick table of its own
    Shutdown,   \* whether the application ever cancels BaseContext
    IDs,        \* how many update IDs there are: 2^32, nextUpdateID being a uint32
    MaxDraws,   \* how often the pushers take an update ID (bound)
    MaxIn,      \* how many messages the peer sends (bound)
    MaxSwitch   \* how many table switches are sent (bound)

ASSUME BoundsAssumption ==
    /\ Shutdown \in BOOLEAN /\ IDs \in Nat \ {0}
    /\ MaxDraws \in Nat /\ MaxIn \in Nat /\ MaxSwitch \in Nat

VARIABLES
    baseDone,      \* Peer.BaseContext is done
    cancelled,     \* c.ctxCancel has been called
    at,            \* where protocolClient.Serve is
    goroutine,     \* goroutine[g]: where goroutine g is on its way through Close
    closes,        \* how often handler.Close has been called
    hasTable,      \* c.lastTableDefinition is set
    peer,          \* whether the peer has closed the connection
    sent,          \* the number of messages the peer has sent
    unread,        \* how many of them are still to be read
    bw,            \* the messages in the shared bufio.Writer
    broken,        \* its sticky error
    wire,          \* the messages the connection has taken
    nextUpdateID,  \* Writer.nextUpdateID
    drawn,         \* how often an update ID has been taken from it (history)
    pushing,       \* pushing[p]: what pusher p has done with the Writer
    switches       \* the number of table switches sent

session == <<cancelled, at, goroutine, closes, hasTable>>
remote  == <<peer, sent, unread>>
output  == <<bw, broken, wire>>
pusher  == <<nextUpdateID, drawn, pushing, switches>>
vars    == <<baseDone, session, remote, output, pusher>>

Goroutines == {"serve", "heartbeat", "lastMessage"}
Kinds == {"quiet", "definition", "entry", "bad"}    \* and sync requests

Status == [type |-> "status"]
Table(type, t) == [type |-> type, table |-> t]     \* a definition or a switch

\* An entry with its update ID; nth is not in the message, it says how many IDs had
\* been taken before this one.
Entry(t, id, nth) == [type |-> "entry", table |-> t, id |-> id, nth |-> nth]

Message == {Status} \cup {Table(type, t) : type \in {"definition", "switch"}, t \in Pushers}
                    \cup [type : {"entry"}, table : Pushers, id : 0 .. IDs - 1, nth : Nat]

\* c.ctx is done; it derives from BaseContext.
Done == cancelled \/ baseDone

NcClosed == at = "closed"

-------------------------------------------------------------------------------
(* The shared bufio.Writer *)

\* A write fails once one has failed, for the error sticks; after nc.Close; and,
\* perhaps, after the peer has gone.  Nothing leaves the buffer from then on, and
\* what was to be added is lost.
WriteFails ==
    /\ broken \/ NcClosed \/ peer = "closed"
    /\ broken' = TRUE
    /\ UNCHANGED <<bw, wire>>

\* Messages are written and not flushed, unless the buffer is full and has to be
\* emptied before they fit in.
Buffer(msgs, ok) ==
    \/ ok /\ ~ broken /\ bw' = bw \o msgs /\ UNCHANGED <<broken, wire>>
    \/ ok /\ ~ broken /\ ~ NcClosed /\ wire' = wire \o bw /\ bw' = msgs /\ UNCHANGED broken
    \/ ~ ok /\ WriteFails

\* Messages are written and flushed with all that was buffered.
Flush(msgs, ok) ==
    \/ /\ ok /\ ~ broken /\ ~ NcClosed
       /\ wire' = (wire \o bw) \o msgs /\ bw' = <<>>
       /\ UNCHANGED broken
    \/ ~ ok /\ WriteFails

\* Flush of a buffer that another goroutine may have flushed already: then there is
\* nothing to write, and nothing that could fail.
FlushBuffered(ok) == IF bw = <<>> /\ ~ broken THEN ok /\ UNCHANGED output ELSE Flush(<<>>, ok)

\* Mutant: lockedWrite leaves the flush to others.
LockedWriteUnflushed(msgs, ok) ==
    /\ ok = ~ broken
    /\ bw' = IF ok THEN bw \o msgs ELSE bw
    /\ UNCHANGED <<broken, wire>>

\* protocolClient.lockedWrite.
LockedWrite(msgs, ok) == Flush(msgs, ok)

-------------------------------------------------------------------------------
(* protocolClient.Close, called by any of three goroutines *)

\* Mutant: the context is cancelled before it is looked at.
CloseCancelsFirst(g) ==
    /\ goroutine[g] = "close"
    /\ cancelled' = TRUE
    /\ goroutine' = [goroutine EXCEPT ![g] = "ended"]
    /\ UNCHANGED <<baseDone, at, closes, hasTable, remote, output, pusher>>

\* The test of the context, and the entry into handler.Close.
Close(g) ==
    /\ goroutine[g] = "close"
    /\ IF Done
       THEN /\ goroutine' = [goroutine EXCEPT ![g] = "ended"]
            /\ cancelled' = TRUE
            /\ UNCHANGED closes
       ELSE /\ goroutine' = [goroutine EXCEPT ![g] = "inHandlerClose"]
            /\ closes' = closes + 1
            /\ UNCHANGED cancelled
    /\ UNCHANGED <<baseDone, at, hasTable, remote, output, pusher>>

\* handler.Close returns; the deferred ctxCancel runs.
HandlerClosed(g) ==
    /\ goroutine[g] = "inHandlerClose"
    /\ goroutine' = [goroutine EXCEPT ![g] = "ended"]
    /\ cancelled' = TRUE
    /\ UNCHANGED <<baseDone, at, closes, hasTable, remote, output, pusher>>

-------------------------------------------------------------------------------
(* Serve *)

Init == /\ baseDone = FALSE /\ cancelled = FALSE
        /\ at = "handshake"
        /\ goroutine = [g \in Goroutines |-> IF g = "serve" THEN "running" ELSE "none"]
        /\ closes = 0
        /\ hasTable = FALSE
        /\ peer = "open" /\ sent = 0 /\ unread = 0
        /\ bw = <<>> /\ broken = FALSE /\ wire = <<>>
        /\ nextUpdateID = 0 /\ drawn = 0
        /\ pushing = [p \in Pushers |-> "no"] /\ switches = 0

\* The application cancels BaseContext: contexts end, connections stay.
CancelBase == /\ Shutdown /\ ~ baseDone
              /\ baseDone' = TRUE
              /\ UNCHANGED <<session, remote, output, pusher>>

\* Mutant: only nc.Close is deferred.
ReturnWithoutClose == at' = "return" /\ UNCHANGED goroutine

\* Serve returns: p.Close and nc.Close are deferred.
Return == /\ at' = "return"
          /\ goroutine' = [goroutine EXCEPT !["serve"] = "close"]

\* The next message is taken from the connection; nobody looks at it before.
Take == unread > 0 /\ unread' = unread - 1

\* The handshake is read and HandleHandshake is called; its context carries the
\* Writer, which the application may hand to its own goroutines.
ReadHandshake ==
    /\ at = "handshake" /\ Take
    /\ \/ at' = "handleHandshake" /\ UNCHANGED goroutine
       \/ Return
    /\ UNCHANGED <<baseDone, cancelled, closes, hasTable, peer, sent, output, pusher>>

\* HandleHandshake returns and the status line is written; then the timers and
\* their goroutines start.
WriteStatus ==
    /\ at = "handleHandshake"
    /\ \E ok \in BOOLEAN :
        /\ LockedWrite(<<Status>>, ok)
        /\ IF ok
           THEN /\ at' = "read"
                /\ goroutine' = [g \in Goroutines |-> "running"]
           ELSE Return
    /\ UNCHANGED <<baseDone, cancelled, closes, hasTable, remote, pusher>>

\* rawMessage.ReadFrom and messageHandler, for messages that send no answer.  An
\* entry before any table definition, and what OnMessage refuses, end Serve.
ReadMessage(k) ==
    /\ at = "read" /\ Take
    /\ hasTable' = (hasTable \/ k = "definition")
    /\ IF k = "bad" \/ (k = "entry" /\ ~ hasTable)
       THEN Return
       ELSE UNCHANGED <<at, goroutine>>
    /\ UNCHANGED <<baseDone, cancelled, closes, peer, sent, output, pusher>>

\* A sync request is answered under the lock; a failing answer is ignored.
ReadSyncRequest ==
    /\ at = "read" /\ Take
    /\ \E ok \in BOOLEAN : LockedWrite(<<>>, ok)
    /\ UNCHANGED <<baseDone, session, peer, sent, pusher>>

\* The peer has closed or reset the connection.
ReadFails ==
    /\ at \in {"handshake", "read"} /\ peer = "closed"
    /\ Return
    /\ unread' = 0
    /\ UNCHANGED <<baseDone, cancelled, closes, hasTable, peer, sent, output, pusher>>

\* nc.Close, after p.Close.
CloseConn ==
    /\ at = "return" /\ goroutine["serve"] = "ended"
    /\ at' = "closed"
    /\ UNCHANGED <<baseDone, cancelled, goroutine, closes, hasTable, remote, output, pusher>>

Serve == \/ ReadHandshake \/ WriteStatus \/ ReadSyncRequest
         \/ \E k \in Kinds : ReadMessage(k)
         \/ ReadFails \/ CloseConn \/ Close("serve") \/ HandlerClosed("serve")

-------------------------------------------------------------------------------
(* The heartbeat and last-message goroutines *)

\* Mutant: a heartbeat that cannot be written is ignored.
HeartbeatIgnoresError ==
    /\ goroutine["heartbeat"] = "running"
    /\ \E ok \in BOOLEAN : LockedWrite(<<>>, ok)
    /\ UNCHANGED <<baseDone, session, remote, pusher>>

\* A tick of the three-second ticker, which runs on after Serve has returned.
Heartbeat ==
    /\ goroutine["heartbeat"] = "running"
    /\ \E ok \in BOOLEAN :
        /\ LockedWrite(<<>>, ok)
        /\ IF ok THEN UNCHANGED goroutine
                 ELSE goroutine' = [goroutine EXCEPT !["heartbeat"] = "close"]
    /\ UNCHANGED <<baseDone, cancelled, at, closes, hasTable, remote, pusher>>

\* Five seconds without a message: Close is called, and nothing else.
LastMessage ==
    /\ goroutine["lastMessage"] = "running"
    /\ goroutine' = [goroutine EXCEPT !["lastMessage"] = "close"]
    /\ UNCHANGED <<baseDone, cancelled, at, closes, hasTable, remote, output, pusher>>

Timers == \/ Heartbeat \/ LastMessage
          \/ \E g \in {"heartbeat", "lastMessage"} : Close(g) \/ HandlerClosed(g)

-------------------------------------------------------------------------------
(* The application's pushers *)

\* The Writer is out once HandleHandshake has been called.
WriterOut == at # "handshake" /\ (at = "handleHandshake" \/ goroutine["heartbeat"] # "none")

\* SendTableDefinition, up to the release of the mutex in writeMessage.
SendTableDefinition(p) ==
    /\ WriterOut /\ pushing[p] = "no"
    /\ \E ok \in BOOLEAN :
        /\ Buffer(<<Table("definition", p)>>, ok)
        /\ pushing' = [pushing EXCEPT ![p] = IF ok THEN "flush" ELSE "failed"]
    /\ UNCHANGED <<baseDone, session, remote, nextUpdateID, drawn, switches>>

\* SendTableSwitch, back to the pusher's own table.
SendTableSwitch(p) ==
    /\ pushing[p] = "defined" /\ switches < MaxSwitch
    /\ switches' = switches + 1
    /\ \E ok \in BOOLEAN :
        /\ Buffer(<<Table("switch", p)>>, ok)
        /\ pushing' = [pushing EXCEPT ![p] = IF ok THEN "flush" ELSE "failed"]
    /\ UNCHANGED <<baseDone, session, remote, nextUpdateID, drawn>>

\* The Flush of either, under the mutex again.
FlushTable(p) ==
    /\ pushing[p] = "flush"
    /\ \E ok \in BOOLEAN :
        /\ FlushBuffered(ok)
        /\ pushing' = [pushing EXCEPT ![p] = IF ok THEN "defined" ELSE "failed"]
    /\ UNCHANGED <<baseDone, session, remote, nextUpdateID, drawn, switches>>

\* n update IDs are taken, and will not be given back; after the last one comes the
\* first one again.
Draw(n) ==
    /\ drawn + n <= MaxDraws /\ drawn' = drawn + n
    /\ nextUpdateID' = (nextUpdateID + n) % IDs

\* The entry with the ID taken first, or second.
FirstEntry(p) == Entry(p, nextUpdateID, drawn)
SecondEntry(p) == Entry(p, (nextUpdateID + 1) % IDs, drawn + 1)

\* SendEntry: an update ID is taken first and stays taken when the entry cannot
\* be marshalled.
SendEntry(p) ==
    /\ pushing[p] = "defined" /\ Draw(1)
    /\ UNCHANGED output \/ \E ok \in BOOLEAN : Flush(<<FirstEntry(p)>>, ok)
    /\ UNCHANGED <<baseDone, session, remote, pushing, switches>>

\* Mutant: the IDs of a failed batch are used again.
SendEntriesRollsBack(p) ==
    /\ pushing[p] = "defined"
    /\ \/ Draw(2) /\ \E ok \in BOOLEAN : Flush(<<FirstEntry(p), SecondEntry(p)>>, ok)
       \/ /\ drawn + 2 <= MaxDraws /\ drawn' = drawn + 2 /\ UNCHANGED nextUpdateID
          /\ ~ broken /\ Buffer(<<FirstEntry(p)>>, TRUE)
    /\ UNCHANGED <<baseDone, session, remote, pushing, switches>>

\* SendEntries with two entries.  The first one that cannot be marshalled or written
\* ends the call; a first entry stays in the buffer without a flush.
SendEntries(p) ==
    /\ pushing[p] = "defined"
    /\ \/ Draw(1) /\ (UNCHANGED output \/ Buffer(<<FirstEntry(p)>>, FALSE))
       \/ Draw(2) /\ Buffer(<<FirstEntry(p)>>, TRUE)
       \/ /\ Draw(2) /\ ~ broken
          /\ \E ok \in BOOLEAN : Flush(<<FirstEntry(p), SecondEntry(p)>>, ok)
    /\ UNCHANGED <<baseDone, session, remote, pushing, switches>>

Push(p) == \/ SendTableDefinition(p) \/ SendTableSwitch(p) \/ FlushTable(p)
           \/ SendEntry(p) \/ SendEntries(p)

-------------------------------------------------------------------------------
(* HAProxy *)

\* What is sent after nc.Close is lost.
PeerSends ==
    /\ peer = "open" /\ sent < MaxIn
    /\ sent' = sent + 1
    /\ unread' = IF NcClosed THEN unread ELSE unread + 1
    /\ UNCHANGED <<baseDone, session, peer, output, pusher>>

PeerCloses ==
    /\ peer = "open"
    /\ peer' = "closed"
    /\ UNCHANGED <<baseDone, session, sent, unread, output, pusher>>

Next == \/ CancelBase \/ Serve \/ Timers \/ PeerSends \/ PeerCloses
        \/ \E p \in Pushers : Push(p)

Spec == Init /\ [][Next]_vars

\* Goroutines run, handler.Close returns, the ticker ticks, and a peer that sends
\* finitely many messages lets the last-message timer expire.
FairSpec == /\ Spec
            /\ WF_vars(Serve) /\ WF_vars(Heartbeat) /\ WF_vars(LastMessage)
            /\ \A g \in Goroutines : WF_vars(Close(g) \/ HandlerClosed(g))

-------------------------------------------------------------------------------
(* Properties *)

\* Every variable keeps its type; the timer goroutines exist only after the
\* status has been written.
TypeOK ==
    /\ baseDone \in BOOLEAN /\ cancelled \in BOOLEAN /\ hasTable \in BOOLEAN /\ broken \in BOOLEAN
    /\ at \in {"handshake", "handleHandshake", "read", "return", "closed"}
    /\ goroutine \in [Goroutines -> {"none", "running", "close", "inHandlerClose", "ended"}]
    /\ goroutine["serve"] = "running" <=> at \notin {"return", "closed"}
    /\ at = "read" => \A g \in Goroutines : goroutine[g] # "none"
    /\ closes \in 0 .. 3
    /\ peer \in {"open", "closed"} /\ sent \in 0 .. MaxIn /\ unread \in 0 .. sent
    /\ bw \in Seq(Message) /\ wire \in Seq(Message)
    /\ nextUpdateID \in 0 .. IDs - 1 /\ drawn \in 0 .. MaxDraws /\ switches \in 0 .. MaxSwitch
    /\ pushing \in [Pushers -> {"no", "flush", "defined", "failed"}]

\* When the connection is closed the context is done and, unless BaseContext had
\* ended it before, the handler has been told, whichever of the three goroutines
\* got to Close first.
HandlerIsTold == at = "closed" => cancelled /\ (closes > 0 \/ baseDone)

\* What has been written, first to last: on the wire or still in the buffer.
Output == wire \o bw

\* The entries are written in the order in which their update IDs were taken, and an
\* ID is used again only when all the others have been taken since, whatever calls of
\* SendEntry and SendEntries run side by side, fail or leave entries behind.
UpdateIDsInOrder ==
    \A i, j \in DOMAIN Output :
        i < j /\ Output[i].type = "entry" /\ Output[j].type = "entry"
            => /\ Output[i].nth < Output[j].nth
               /\ Output[i].id = Output[j].id => Output[j].nth - Output[i].nth >= IDs

\* An entry that a failed SendEntries has left in the buffer is not left there
\* for ever: a heartbeat flushes it, or the writer is broken.
BufferDrains == (bw # <<>> /\ at = "read") ~> (bw = <<>> \/ broken)

\* When the peer has gone, the connection is closed, the context is done, and no
\* goroutine of the session is left, although the ticker is never stopped.
SessionEnds ==
    peer = "closed" ~> /\ at = "closed" /\ cancelled
                       /\ \A g \in Goroutines : goroutine[g] \in {"none", "ended"}

\* peers/writer_test.go:41-43, reading the answer to the handshake: the first
\* thing the peer gets is the status line.
StatusFirst == wire # <<>> => wire[1] = Status

\* peers/writer.go:15 "safe for concurrent use", SendTableDefinition "must be
\* called before sending entry updates for a table": every entry the peer gets
\* follows a definition of its own table or a switch to it, not to another.
IsTable(m) == m.type \in {"definition", "switch"}

TableAt(i) == LET selected == CHOOSE j \in 1 .. i :
                    /\ IsTable(wire[j])
                    /\ \A k \in j + 1 .. i : ~ IsTable(wire[k])
              IN wire[selected].table

EntriesFollowTheirTable ==
    \A i \in DOMAIN wire : wire[i].type = "entry" => TableAt(i) = wire[i].table

\* peers/protocol.go:118 "last message timer expired: closing connection".
ExpiryClosesConnection == goroutine["lastMessage"] = "ended" ~> at = "closed"
===============================================================================

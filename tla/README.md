# A verification project for haproxy-go

haproxy-go is a library with two listeners that HAProxy connects to: an SPOP agent
(`src/spop`), which answers NOTIFY frames with actions, and a peers listener
(`src/peers`), which receives stick table updates and can push its own. This directory
holds TLA+ models of their concurrent parts and of what they read from and write to the
wire, the TLC configurations that check them, and proofs of what TLC can only check on
small instances: of the agent's scheduler, its connections, the SPOP codec and scanners, the
answer to a NOTIFY, the peers session, the stick table codec and the updates it carries.

## The system

### SPOP agent (`src/spop`, with `src/pkg/encoding` and `src/pkg/buffer`)

| part | state | operations |
|---|---|---|
| `Agent.Serve` (agent.go) | listener, `BaseContext`, one scheduler | accept a connection, start its goroutine; close the listener when `BaseContext` is done |
| `protocolClient` (protocol.go) | context and cancel, `gotHello`, `maxFrameSize` | `Serve` (read loop), `onHAProxyHello`, `onNotify`, `onHAProxyDisconnect`, `Close` |
| scheduler (scheduler.go) | ring `elems`, `head`, `tail`, `size`; two condition variables; `NumCPU` workers | `Put` by the connections, `Get` and the frame's handling by the workers |
| frames (frame.go, frames.go) | a `sync.Pool` of frames with buffers | `acquireFrame`, `releaseFrame`, `readFrom`, `writeTo`; one writer per answer |
| message and KV scanners, KV and action writers | cursor into a frame's buffer | called by the handlers |
| `KVScanner.Unmarshal` (kvunmarshal.go) | the handler's struct, often from a pool | reads the entries that are left into the struct |

The goroutine of a connection handles the hello itself and queues every later frame. The
queue and its workers are shared by all connections. Serve, Close and the workers write to
one socket without a lock. A handler gets the context of its connection.

### Peers listener (`src/peers`, `src/peers/sticktable`)

| part | state | operations |
|---|---|---|
| `Peer.Serve` (peers.go) | listener, `BaseContext` | accept, build Writer and client, deferred `p.Close` and `nc.Close` |
| `protocolClient` (protocol.go) | context, timers, last table and entry | handshake, message loop, heartbeat goroutine, last-message goroutine, `Close` from all three |
| `Writer` (writer.go) | shared `bufio.Writer`, mutex, `nextUpdateID` | `SendTableDefinition`, `SendTableSwitch`, `SendEntry`, `SendEntries`, `Flush` |
| message handling (`OnMessage`, protocol.go) | `lastTableDefinition`, `lastEntryUpdate` | each stick table message, read by the two |
| stick table codec (sticktable/) | none | `Marshal` and `Unmarshal` of definitions, entries, keys and values |

### What is hard

The order in which goroutines take the scheduler's lock and are woken; frames that travel
through a pool shared by all connections; answers written by different goroutines to one
socket; a queue that is full when a connection ends; contexts cancelled by a worker, by
Close, by a health check or by the application; `Close` of a peers session from three
goroutines; a buffer shared by heartbeats and pushers, some of which fail half way;
numbers whose representation changes length, lengths computed apart from what they are the
lengths of, and messages that can only be read with what earlier ones have said.
PROJECT.json lists these hazards line by line.

What makes each part correct: the scheduler is a bounded FIFO queue without lost wake-ups and a
frame has one user; a connection's answers are whole frames in protocol order, its context ends
with it and not before, and its goroutine ends when its peer does; a peers session tells its
handler, drains its buffer and leaves no goroutine behind, and entries go out in the order of
their update IDs, which are used again only after all the others; what a handler is given is what
the peer sent, and what it answers arrives; what a codec writes it can read.

## The modules

| module | models |
|---|---|
| `BoundedFIFO` | what the scheduler promises: a bounded first-in first-out queue |
| `FrameQueue` | scheduler.go and the frame pool |
| `FrameQueueProofs` | theorems about `FrameQueue` |
| `SpopAgent` | agent.go, protocol.go, frames.go: connections, workers and HAProxy around the queue |
| `SpopAgentProofs`, `SpopConnProofs` | theorems about `SpopAgent`: frames on a wire, types and goroutines of the agent; what one connection goes through |
| `Encoding` | varints, byte strings and typed data, written and read (pkg/encoding), as operators |
| `EncodingProofs` | theorems about `Encoding`: what is written is read |
| `MessageScan` | onNotify's loop over messagescanner.go and kvscanner.go |
| `KVUnmarshal` | kvunmarshal.go: entries into a struct |
| `ActionWriter` | actionwriter.go: lengths, growth and setters |
| `NotifyAnswer` | a NOTIFY and its ACK: `KVUnmarshal` (with `MessageScan`) and `ActionWriter` together, and `AckFrame.writeTo` |
| `MessageScanProofs`, `NotifyAnswerProofs` | theorems about the reading of a NOTIFY and about its answer |
| `PeersSession` | one session of the peers listener with its Writer and the goroutines that use it |
| `PeersSessionProofs` | theorems about `PeersSession` |
| `StickTable` | the codec: `Marshal` and `Unmarshal` of package sticktable, as operators |
| `PeersUpdates` | the stick table messages of a session as HAProxy sends and `OnMessage` receives them |
| `PeersUpdatesProofs` | theorems about `StickTable` and `PeersUpdates` |
| `MCFrameQueue`, `MCSpopAgent`, `MCNotifyAnswer`, `MCPeersSession`, `MCPeersUpdates` | what TLC needs besides |

`SpopAgent` and `PeersSession` abstract frames and messages to what happens to them;
`NotifyAnswer` and `PeersUpdates` are the insides of one of their steps, a handler's work on a
NOTIFY and the reading of a stick table message.

### FrameQueue

The variables are the fields of `queue`, the two sets of goroutines parked in `Wait`, the
local variables `f` of Serve and `qe` of queueWorker, the pool, and for each frame the
connection whose bytes it holds. Since the lock is held from the start of `Put` and `Get`
to their end or to `Wait`, and `Wait` registers the goroutine before it releases the lock,
each such section is one action: `PutWait`, `PutElem`, `GetWait`, `GetElem`. A woken
goroutine has left the waiting set and competes like any other. The pool is a set of
frames; that `sync.Pool` may drop or make frames is covered by its being any subset that is
large enough. The frame a worker takes for its own answer is acquired and released inside
the handler and not modelled.

`SpopAgent` uses a sequence for the queue, which `FrameQueue` justifies: its steps, seen
through the ring's window, are those of `BoundedFIFO` (`RefinesFIFO`).

### SpopAgent

`at[c]` is the place of a connection's goroutine; each blocking or observable call is a
step of its own: reading a frame, `Put`, each `Write`, the test of the context in `Close`,
the cancel, `nc.Close`. A worker's `work[w]` is the frame it handles and the pieces of the
answer it has still to write. `frame.writeTo` writes length, header and payload with two or
three calls of `Write`, so `wire[c]` is a sequence of pieces. A `Write` fails after
`nc.Close`; when the peer has closed it may succeed or fail.

Frames are abstracted to what happens to them: hello, health check, refused hello, NOTIFY,
DISCONNECT, refused ("bad"), unreadable. HAProxy is external: it sends one NOTIFY at a time, since
the agent's hello advertises no capability, may disconnect or send a faulty frame instead of
waiting, and may close at any time. An unreadable frame ends Serve, and its Close then writes
AGENT-DISCONNECT while a worker may be writing the ACK that is still due; the history variable
`faulty[c]` remembers that. `WireIntact` and `AnswersInOrder` say what that case may break, these
two frames and nothing else (`Mixes`), and hold in full in all others. An ACK has as many pieces
as one of `AckParts`. A TCP connection is closed by a reset or an end of stream; what the agent
had not read may be lost in the first case. A handler ends, fails, or (with `HandlerWaits`) ends
only after its context.

### MessageScan, KVUnmarshal, ActionWriter and NotifyAnswer

A handler in `SpopAgent` is one step; here is what happens to the frames meanwhile. `buf`
and `kv` are the two scanners' views of one buffer of bytes. The payload is written with the
rules of `KVWriter` and `PutVarint`, and read with those of `KVScanner.Next` and `Varint`;
each read ends well, with an error or with an index out of range. The handler may read any
number of entries, also past the last. `left` is not a variable, since the code only
decrements it. Error and panic both end the NOTIFY without an ACK ("failed").

Instead of reading on, the handler may have a struct filled: `Unmarshal` moves the same cursor,
one entry a step. A struct type is the list of its fields with a key, their kinds and whether they
are pointers; how reflection finds these is left out. A tagged field that is not exported has the
kind "unsettable": every entry for it is an error, also Null, and when it is optional and has no
entry the clean-up at the end panics at it, with the fields before it cleared, and the NOTIFY has
no ACK ("panicked"). The struct is one from a pool, with an older message's value (`Old`) in every
field: what is not a pointer may keep it, what is a pointer may not, unless Unmarshal fails.

Between its reads the handler calls setters of the writer, `aw`: the bytes written, the
length of the slice, and whether something did not fit. A setter is one step with one or two
parts, for each of which the length is computed (`HeaderSize`, `ValueSize`), the slice grown
to it (`Grow`) and the part written (`Header`, `PutTyped`). An invalid address fails after
the header, and the handler may go on. `WriteAck` is the rest of `AckFrame.writeTo`: the frame
is sent unless it exceeds the peer's maximum. `Actions` is HAProxy's reading of it.

### PeersSession

A session shares only the handler with others, so one session is modelled. Critical sections of
the Writer's mutex are steps; `SendTableDefinition` and `SendTableSwitch` have two, `SendEntry`
and `SendEntries` one (with one and with two entries). `goroutine[g]` follows each of the three
goroutines through `Close`, whose test of the context and whose call of the handler are not
atomic. `bw` is what the `bufio.Writer` holds, `broken` its sticky error, `wire` what the
connection has taken. The buffer may be full at any write and then empties itself; a `Flush` of an
empty one does nothing; messages go through it whole. `nextUpdateID` counts modulo `IDs`, which is
2^32 in the code; the history variable `drawn` counts how often an ID has been taken, and an entry
carries with its ID the count at which it was (`nth`), which is not part of the message.
Heartbeats and sync answers are only the flush they cause. What a message is, is decided when it
is read: refused, a definition, an entry, or without effect. Either timer may expire at any time.

### StickTable and PeersUpdates

`StickTable` has an operator for each `Marshal` and `Unmarshal`. A key or a datum is a sequence of
numbers; an interface value is told by the type that the definition gives. What `copy` does with a
buffer that is too short, what slicing does and what the constructors return for unknown types are
outcomes of the operators. `PeersUpdates` runs them over a session: `lastTable` and `lastID` are
what `OnMessage` remembers of the last definition and update, and what it reads the next by. What
can be sent is assumed by name (`IsDefinition`, `IsEntry`): data types in the order of their bits,
keys and data as the definition says. HAProxy defines a table before it sends updates of it and
leaves an ID out only after the one before in the same table.

## The runs

| run | bounds | shows |
|---|---|---|
| frame_queue | 2 connections, 2 workers, 4 frames, capacity 2 | types, window, ownership, no lost wake-up, refinement, and under fairness that queued frames are handled; no deadlock |
| spop_safety | 2 connections, 2 workers, capacity 2, two NOTIFYs in all, every first frame, an unreadable frame or a second hello later, ACKs of three pieces, shutdown | when contexts end, what a health check sees, what reaches the peer piece by piece |
| spop_liveness | 2 connections, 1 worker, capacity 1, two NOTIFYs, a refused frame, health checks, ACKs of two pieces | NOTIFYs are answered, health checks closed, goroutines end |
| spop_ctx | 2 connections, 1 worker, capacity 2 (`NumCPU` = 1), two NOTIFYs, ACKs of two or three pieces | finding 1 |
| notify_answer | up to one message of up to two entries, two setter calls; five structs, two with a field that cannot be set; numbers and lengths around 240, 256, 2288, 2^18; buffers that start with 0 or 8 bytes | what is read is what was written and the ACK says what was set, whatever the handler reads; no older message shows in a struct; when Unmarshal fails or panics |
| notify_two | two messages of up to one entry | finding 5 |
| peers_session | 1 pusher, 3 update IDs taken 4 times, 2 messages, 1 switch, shutdown | the session's three goroutines, its buffer and the update IDs |
| peers_updates | 5 tables with all kinds of keys and data, 4 messages, 8 IDs | updates are received as they were sent |
| peers_dict | a table with a server key before another datum, 3 messages | finding 6 |
| peers_status, peers_tables, peers_expiry | 1 or 2 pushers, 1 message, 1 entry | findings 2 to 4 |

Why the bounds are enough. Two connections and two workers let goroutines overtake each other on
both conditions; with capacity 2 the ring wraps, fills and empties; four frames are one per
connection and worker, so that an extra release or a lost frame shows. The theorems below do
without these bounds. In the agent, two NOTIFYs are one of each connection or two of one, of which
each may still be with a worker when the peer disconnects or sends a faulty frame; refused frames
of other kinds than a second hello take the same steps (`OnRefused`), and an ACK of two pieces is
one of three without the last. One worker and capacity 1 are the tightest instance for blocking.
One pusher stands for any number in peers_session: it calls the writer's methods in any order, and
the update IDs and the buffer do not depend on who calls; only the table an entry belongs to does,
for which peers_tables has two. The 2^32 update IDs are scaled to 3 in peers_session, so that they
wrap and one is used a second time, and to 8 in peers_updates, with updates that start at the last
one; 64 KB for an ACK and the peer's maximum are scaled so that the slice grows for the first part
of an action, for the second, or not at all, and so that the longest ACKs are refused. The structs
have fields of most kinds, with and without a pointer, two fields with one key or none in the
message, and one that no data fits. Four messages are a definition and three updates, of which the
last counts on from one that was itself counted, or two definitions and their updates. Runs of the
agent and the sessions set CHECK_DEADLOCK FALSE: each connection of the model is used once, and
then nothing is left to do. Symmetry is used for invariants only.

Fairness. Serve and the workers are weakly fair: Go's scheduler starves no goroutine, and its
mutex hands the lock to a goroutine that has waited too long. `NotifyAnswered`, `GoroutineEnds`
and `QueuedIsHandled` need handlers that return, which the models state (WF on the workers,
`Outcomes`, `HandlerWaits`), and connections that do not block a `Write` for ever. Peers owe
nothing, except to look at what has arrived (`PeerGreeted`, `PeerAcked`). `NotifyAnswered` and
`GoroutineEnds` rest on the peers sending finitely many NOTIFYs (`Notifies`): a connection in
`Put` finds room in the end because its rivals run out of frames. With rivals that never pause,
weak fairness of `Put` would not be enough. In a session, the ticker ticks, handler callbacks
return, and the last-message timer expires in the end, because a peer sends finitely many messages
here; pushers are under no fairness. Weak fairness is enough for lock acquisition, since every
guard that a waiting goroutine needs is tested inside its critical section.

### What the checks found

1. `spop_ctx`: a DISCONNECT waits behind the handlers that wait for it. With all workers in
   handlers that wait for their context and the queue full, Serve is blocked in `Put`
   (protocol.go:103), reads neither the DISCONNECT nor the end of the stream, and no context
   is cancelled. e2e_test.go:54 checks the cancellation with a single request.
2. `peers_status`: HandleHandshake hands out the Writer before the status line is written
   (protocol.go:70-72); a goroutine that uses it at once writes first.
3. `peers_tables`: the Writer is "safe for concurrent use" (writer.go:15), but an entry
   belongs to the table defined or selected last, whoever did so.
4. `peers_expiry`: the timer logs "closing connection" (protocol.go:118) and closes nothing;
   a peer that stays silent with an open connection keeps Serve for ever.

5. `notify_two`: the number of entries of a message is passed to the entry scanner
   (kvscanner.go:195) and never used, so a second message in a NOTIFY is read as entries of
   the first. Neither handler nor error handling can prevent it.
6. `peers_dict`: `DictData.Marshal` writes the length of the value (values.go:310) where
   `Unmarshal` reads the length of all that follows (values.go:196-216). No entry, and a value
   of one byte, leave bytes unread, and the data after it are wrong. Values of two bytes or
   more happen to be read back, as in values_test.go:194-215.

## The proofs

PROJECT.json lists the theorems and the run that checks each one's property on a small instance.
Their assumptions are those the modules name, which TLC evaluates on every run: types of the
constants, finite sets of connections and workers for the scheduler, a capacity above 0, a `Nil`
that is none of the values it stands in for, in `PeersUpdates` update IDs of at most 32 bits, and
tables and entries as described above. Bounds such as `Notifies`, `MaxDraws`, `MaxCalls` or
`MaxSent` are any naturals, and `IDs` is any positive one, the code's 2^32 included. TLC has also
checked the inductive invariants on the instances of the runs, with two exceptions: `AckInv`,
which speaks of all byte strings, was not checked, and the last conjunct of `StreamInv` only with
two tables and three messages, since it chooses a whole sequence of positions.

### Scheduler (`FrameQueueProofs`)

`QueueInvariant` is the conjunction of the run's invariants and `GoroutineState`, and
inductive; `ImplementsFIFO` is `Spec => RefinesFIFO`. Types and goroutine states are
inductive by themselves. With them `NoLostWakeup` is: it counts the goroutines on their way
into `Put` against the free slots and those on their way into `Get` against the elements, and
each Signal pays for the slot or element its caller makes; a woken goroutine that is
overtaken goes back to sleep together with the slot it came for. `RingWindow` needs
arithmetic modulo the capacity, which the lemmas `ModSmall` to `AtShift` reduce to
comparisons. Ownership and the right connection need the window, because the slot `Put`
writes is outside it and the slot `Get` frees is no longer read although it keeps its value.
The refinement follows from the window: appending to and taking the head of `Queued`.

### Agent (`SpopAgentProofs`, `SpopConnProofs`)

`AgentTypes` adds to `TypeOK` that what a worker still has to write is the ACK of the frame it
handles (`WorkOut`): `TypeCorrect` needs it, and `EndedConnIsDone` (`ClosedIsDone`) only what
comes before `nc.Close` in `Close` and Serve.

The four properties of a connection (`FramesAreIntact`, `AnswersAreInOrder`,
`HealthcheckGetsHello`, `UsedConnIsLive`) come from one invariant, `ConnInv(c)`. It goes by where
the peer stands. Until the peer closes, it says where the connection's frames can be: nowhere
before the hello and between two NOTIFYs, and while a NOTIFY is pending in one place only, the
inbox, Serve's hands, the queue or one worker, ahead of every other frame (`OneNotify`,
`LastNotify`). So at most one goroutine has something to write to the socket, which nothing in the
code says and no lock ensures: it follows from HAProxy sending one NOTIFY at a time. `WireInv`
then says that what is on the wire, continued by what that goroutine still has to write, is whole
frames in order; the first lemmas of `SpopAgentProofs` show that every frame written as a whole
keeps this. HAProxy may stop waiting and send a DISCONNECT or a frame the agent refuses while the
NOTIFY is pending; `PendingInv` has that Serve only reads and queues then, so that it does not
write into an ACK. Once the peer has closed, writes may fail or vanish, and the invariant is only
about what is on the wire.

After an unreadable frame that argument is gone: Serve returns, and Close and the worker with the
ACK that is due may both be writing (`faulty`). `MixedInv` takes over. There are two writers then,
each with a frame of its own to start or to go on with (`Ready`), and no third: the hello is
written, the NOTIFY is the last one, and the peer sends nothing more. `Mixed` says of the wire
what the two properties allow, that the pieces of each of the two frames are in order and that
only the other one's come between. So the hypothesis that one writer has something to write is not
assumed anywhere; where the code breaks it, the theorems say what is left. The steps of other
connections are one lemma: they leave the connection's frames in the queue in their order.

### SPOP codec (`EncodingProofs`)

`VarintIsRead`, `BytesAreRead` and `TypedDataAreRead`: for every natural, byte string and typed
datum, what `PutVarint`, `PutBytes` and the setters write is read back with exactly what follows
left over. These are inductions over data. The library's induction theorems cannot be used
with the provers here, so they are put as the least counterexample of a set of naturals
(`Induction`), and what a recursive function of the model is equal to comes from `Recursion`: a
recursive definition whose argument gets smaller is met by a function. Negative integers are
covered as the naturals of 64 bits they travel as.

### A NOTIFY and its ACK (`MessageScanProofs`, `NotifyAnswerProofs`)

`ScannersKeepTheirPlaces` holds for every NOTIFY, however reading ends. `MessageSeenIsSent`,
`MessageIsHandled` and `UnmarshalIsFresh` are for NOTIFYs of at most one message, of any length,
for every struct type and everything a handler may do: with two messages they are false, which is
finding 5 and the reason for the hypothesis. `OneInv` says that the scanner's buffer is always the
entries not yet read, as HAProxy writes them, so that `TypedDataAreRead` applies to the next one;
`FieldsInv` adds, for a struct that is being filled, which fields have been assigned and that each
has what the message last said of its key. A struct whose optional field cannot be set panics or
fails unless that field has been assigned, which no entry can do.

`SettersHaveRoom` has `WriterInv`: the bytes written fit the slice. The length each setter
computes before it writes is the length of what it writes, by an induction on the varint.
`AckHasWhatWasSet` needs more than its property: reading the ACK must not depend on what follows,
so `AckInv` says that the bytes written so far, with any others appended, are read as the calls
made so far and then the rest. Without "any others" the next call would not preserve it.

### Peers session (`PeersSessionProofs`)

`HandlerHasBeenTold` needs `SessionInv`, which relates the calls of the handler's `Close` to the
goroutines that have come past the test of the context, and the cancelled context to one of them
or to the application. `UpdateIDsKeepOrder` needs `UpdateInv`: the wire followed by the buffer is
one sequence of messages whose entries are in the order of `nth`, all below `drawn`, with `nth`
modulo `IDs` for an ID, and `nextUpdateID` is `drawn` modulo `IDs`. That two entries with one ID
are at least `IDs` draws apart is then arithmetic (`ModNext`, `ModRepeats`). A send that fails
after it has taken an ID leaves a gap and keeps the order.

### Stick table updates (`PeersUpdatesProofs`)

`DefinitionIsRead` and `UpdateIsRead` are about the codec alone, for every definition and entry
that can be sent and whatever follows in the buffer. For a definition, the work is in the bit
field: that bit t is set exactly when t is among the data types (`BitsAreRead`), and that the
loop over 64 bits, which takes the parameters as it comes to each rate, meets the types in the
order they were written in. For an update, each datum is read by the type at its place.

`UpdatesTypeCorrect` holds without a hypothesis. `UpdatesArriveAsSent` and `EveryUpdateArrives`
suppose that the values of dictionary entries have two bytes or more (`LongValues`), because
shorter ones are finding 6, which refutes both. They come from `StreamInv`. That the handler
has had a prefix of what was sent is not inductive: the next message is read with the table
and the ID that earlier ones left behind. So `Leads` says of the messages still on the wire
that, one after the other, they take the receiver from where it is (`Here`: its definition, and
how many updates it has had) to where the sender is (`There`), each bringing either a table or
the next update of the table reached by then. That an update carries no ID only if it follows
the one before makes the receiver's count right, also past the end of the ID space.

### Only model-checked

- Liveness: `QueuedIsHandled`, `NotifyAnswered`, `HealthcheckCloses`, `GoroutineEnds` and what
  the peers session promises under fairness. Fairness and ENABLED are beyond the prover.
- NOTIFYs of two messages and dictionary values of less than two bytes, where the properties
  proved are false (findings 5 and 6).

## Not modelled

- Malformed payloads inside a readable frame or message; `ReadVarint`, which repeats `Varint`
  on a reader. In stick tables, numbers of 2^28 and more and negative integers.
- KVWriter without room: it writes the agent's hello and disconnect, two or three short
  entries into 64 KB.
- The data types that hold arrays (gpt, gpc, gpc_rate), as HAProxy writes them: the code reads
  them as dictionary entries, and what HAProxy writes is not in this repository.
- The byte stream below a frame (partial reads, `bufio.Scanner` in the peers handshake).
- Write deadlines: the code sets none, and a peer that never reads blocks its writer.
- Test helpers, examples, generated String methods.

## Plan

1. `FrameQueue`: the frame a worker acquires for its answer, and the proofs with it.
2. `SpopAgent`: a peer that stops reading, so that `Write` blocks a worker.

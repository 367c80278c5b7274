----------------------------- MODULE PeersUpdates -----------------------------
(****************************************************************************)
(* The stick table messages of one peers session, as they are received:     *)
(* StickTableUpdateMessageType.OnMessage (peers/protocol.go) keeps the last *)
(* table definition and the last entry update, by which it reads the next   *)
(* ones.  PeersSession abstracts these messages to their kind.              *)
(*                                                                          *)
(* The sender is HAProxy, external.  It selects a table by defining it, and *)
(* leaves the update ID out of a message that directly follows the one      *)
(* before, in the same table.  Bytes are written with the package's own     *)
(* Marshal, which is also what the Writer sends to HAProxy.                 *)
(****************************************************************************)
EXTENDS StickTable

CONSTANTS
    Tables,     \* the tables: their definitions, each with the keys and data to send
    FirstIDs,   \* the update IDs a run of updates may start with (bound)
    IDs,        \* how many update IDs there are; 2^32 in the code
    MaxSent,    \* how many messages are sent (bound)
    Nil         \* Go's nil

ASSUME IDsAssumption == /\ IDs \in Nat \ {0} /\ Word(IDs - 1) /\ FirstIDs \subseteq 0 .. IDs - 1
                        /\ MaxSent \in Nat
ASSUME TablesAssumption == \A t \in Tables :
    IsDefinition(t.definition) /\ \A e \in t.entries : IsEntry(t.definition, e)
ASSUME NilAssumption == Nil \notin Tables \cup {t.definition : t \in Tables} /\ Nil \notin Nat

VARIABLES
    table,      \* the table the sender has defined last
    follows,    \* the ID it may leave out next, or Nil
    sent,       \* the updates it has sent
    count,      \* how many messages it has sent
    wire,       \* messages not received yet
    lastTable,  \* c.lastTableDefinition
    lastID,     \* the LocalUpdateID of c.lastEntryUpdate, or Nil
    failed,     \* OnMessage has returned an error or panicked
    updates     \* what HandleUpdate has been given

sender == <<table, follows, sent, count>>
receiver == <<lastTable, lastID, failed, updates>>
vars == <<sender, wire, receiver>>

Message(type, data) == [type |-> type, data |-> data]
Updates == {"entry", "timed", "incremental", "incrementalTimed"}

Init == /\ table = Nil /\ follows = Nil /\ sent = <<>> /\ count = 0
        /\ wire = <<>>
        /\ lastTable = Nil /\ lastID = Nil /\ failed = FALSE /\ updates = <<>>

-------------------------------------------------------------------------------
(* HAProxy *)

Send(m) == /\ count < MaxSent
           /\ count' = count + 1
           /\ wire' = Append(wire, m)

\* A table is defined, and so selected for the updates that follow.
SendDefinition ==
    /\ \E t \in Tables :
        /\ table' = t
        /\ Send(Message("definition", PutDefinition(t.definition)))
    /\ follows' = Nil
    /\ UNCHANGED <<sent, receiver>>

\* An update with its ID, or one without where the ID goes without saying.  Either
\* may be timed.
SendUpdate ==
    /\ table # Nil
    /\ \E e \in table.entries, timed \in BOOLEAN, withID \in BOOLEAN :
        \E id \in IF withID THEN FirstIDs ELSE {follows} \ {Nil} :
            LET update == [table |-> table.definition, id |-> id, timed |-> timed,
                           expiry |-> IF timed THEN 300 ELSE 0, key |-> e.key, data |-> e.data]
                bytes == PutEntry(update, withID)
                type == IF withID THEN IF timed THEN "timed" ELSE "entry"
                        ELSE IF timed THEN "incrementalTimed" ELSE "incremental"
            IN /\ bytes.is = "ok"
               /\ Send(Message(type, bytes.val))
               /\ sent' = Append(sent, update)
               /\ follows' = (id + 1) % IDs
    /\ UNCHANGED <<table, receiver>>

\* The acknowledgement of an update of ours, or a switch to the table that is
\* selected anyway (HAProxy does not use them: peers/constants.go).
SendOther ==
    /\ \E type \in {"acknowledge", "switch"} :
        /\ type = "switch" => table # Nil
        /\ Send(Message(type, <<>>))
    /\ UNCHANGED <<table, follows, sent, receiver>>

-------------------------------------------------------------------------------
(* OnMessage *)

\* Mutant: every update has its ID.
WithLocalUpdateIDAlways(type) == TRUE

WithLocalUpdateID(type) == type \in {"entry", "timed"}

WithExpiry(type) == type \in {"timed", "incrementalTimed"}

\* The ID of an update without one: after the last, in 32 bits; 0 if there is none.
NextID == IF lastID = Nil THEN 0 ELSE (lastID + 1) % IDs

\* A message of any of the types, from the front of the stream.
Receive(types) == /\ ~ failed /\ wire # <<>> /\ Head(wire).type \in types
                  /\ wire' = Tail(wire)

\* A definition replaces the last one; bytes that follow it are not looked at.
OnDefinition ==
    /\ Receive({"definition"})
    /\ \E d \in {GetDefinition(Head(wire).data)} :
           IF d.is = "ok" THEN lastTable' = d.val /\ UNCHANGED failed
           ELSE failed' = TRUE /\ UNCHANGED lastTable
    /\ UNCHANGED <<sender, lastID, updates>>

\* Mutant: only an ID that has been received counts as the last.
OnUpdateForgets ==
    /\ Receive(Updates)
    /\ LET type == Head(wire).type IN
           \E e \in {GetEntry(lastTable, NextID, WithLocalUpdateID(type), WithExpiry(type),
                             Head(wire).data)} :
               IF lastTable # Nil /\ e.is = "ok"
               THEN /\ lastID' = IF WithLocalUpdateID(type) THEN e.val.id ELSE lastID
                    /\ updates' = Append(updates, e.val)
                    /\ UNCHANGED failed
               ELSE failed' = TRUE /\ UNCHANGED <<lastID, updates>>
    /\ UNCHANGED <<sender, lastTable>>

\* An update of whatever table was defined last, which there must be one.
OnUpdate ==
    /\ Receive(Updates)
    /\ LET type == Head(wire).type IN
           \E e \in {GetEntry(lastTable, NextID, WithLocalUpdateID(type), WithExpiry(type),
                             Head(wire).data)} :
               IF lastTable # Nil /\ e.is = "ok"
               THEN /\ lastID' = e.val.id
                    /\ updates' = Append(updates, e.val)
                    /\ UNCHANGED failed
               ELSE failed' = TRUE /\ UNCHANGED <<lastID, updates>>
    /\ UNCHANGED <<sender, lastTable>>

\* Acknowledgements and switches are accepted and have no effect.
OnOther == Receive({"acknowledge", "switch"}) /\ UNCHANGED <<sender, receiver>>

Next == SendDefinition \/ SendUpdate \/ SendOther \/ OnDefinition \/ OnUpdate \/ OnOther

Spec == Init /\ [][Next]_vars

-------------------------------------------------------------------------------
(* Properties *)

\* The types; what is taken for a table definition has been sent as one.
TypeOK ==
    /\ table \in Tables \cup {Nil} /\ follows \in 0 .. IDs - 1 \cup {Nil}
    /\ count \in 0 .. MaxSent /\ Len(wire) <= count
    /\ lastTable # Nil => lastTable \in {t.definition : t \in Tables}
    /\ lastID # Nil => lastID \in 0 .. IDs - 1
    /\ failed \in BOOLEAN

\* The handler is given the updates that were sent, each with its table, its ID
\* whether or not it was in the message, its expiry, its key and its data, across
\* changes of the table, the end of the ID space and every layout.
\* sticktable/sticktables_test.go:119 "The encoded bytes must decode back to the
\* original value."
UpdatesAsSent == IsPrefix(updates, sent)

\* No update is refused, and none is dropped between its reception and the handler.
NoUpdateIsLost ==
    /\ ~ failed
    /\ Len(updates) + Cardinality({i \in DOMAIN wire : wire[i].type \in Updates}) = Len(sent)
===============================================================================

----------------------------- MODULE NotifyAnswer -----------------------------
(****************************************************************************)
(* A NOTIFY and its ACK: protocolClient.onNotify inside AckFrame.writeTo    *)
(* (spop/protocol.go, spop/frames.go).  The loop over the messages is       *)
(* MessageScan, the struct its handler may fill KVUnmarshal, the writer it  *)
(* passes to each call of the handler ActionWriter.                         *)
(****************************************************************************)
EXTENDS KVUnmarshal, ActionWriter

CONSTANTS
    FrameHeader,    \* the bytes of an ACK before its actions
    Limit           \* c.maxFrameSize

ASSUME LimitAssumption == FrameHeader \in Nat /\ Limit \in Nat

VARIABLE ack    \* what has become of the ACK: "no", "sent" or "tooLong"

answer == <<aw, calls, ack>>

AnswerInit == Init /\ StructInit /\ AcquireWriter /\ ack = "no"

\* The handler calls a setter, at any time between its reads.
HandlerSets ==
    /\ at = "handler"
    /\ CallSetter
    /\ UNCHANGED <<vars, struct, ack>>

\* fn has returned: the frame is written unless it is too long for the peer.
WriteAck ==
    /\ at = "done" /\ ack = "no"
    /\ ack' = IF FrameHeader + Len(aw.bytes) > Limit THEN "tooLong" ELSE "sent"
    /\ UNCHANGED <<vars, struct, aw, calls>>

AnswerNext == (HandlerNext /\ UNCHANGED answer) \/ HandlerSets \/ WriteAck

AnswerSpec == AnswerInit /\ [][AnswerNext]_<<vars, struct, answer>>

-------------------------------------------------------------------------------
(* Properties *)

\* Whatever a setter is given, the length it has computed is not below the length
\* it writes: no setter runs past the end of its buffer, whatever room there was
\* and whatever has been written before.
RoomIsMade == ~ aw.full /\ Len(aw.bytes) <= aw.len

\* HAProxy reads from the ACK the actions the handler has asked for, in the order
\* of its calls over all messages and through every growth of the buffer; when a
\* setter has failed half way, at least those asked for before it.
AckIsWhatWasSet ==
    ack = "sent" =>
        LET failed == SelectInSeq(calls, Fails)
            got == Actions[aw.bytes]
        IN IF failed = 0 THEN got = calls ELSE IsPrefix(Take(calls, failed - 1), got)
===============================================================================

----------------------------- MODULE BoundedFIFO -----------------------------
(****************************************************************************)
(* What spop/scheduler.go promises its two kinds of callers, without the    *)
(* ring, the condition variables or the frame pool: a bounded first-in      *)
(* first-out queue.  Put appends while there is room, Get gives the oldest  *)
(* element to one idle worker, and the worker lets go of it when it is done.*)
(****************************************************************************)
EXTENDS Naturals, Sequences

CONSTANTS
    Elems,     \* what is queued: a frame together with its connection
    Workers,   \* the goroutines that run queueWorker
    Cap,       \* the capacity of the queue
    Nil        \* a worker that holds nothing

VARIABLES
    buf,       \* the queued elements, oldest first
    held       \* held[w]: the element worker w is working on, or Nil

vars == <<buf, held>>

Init == /\ buf = <<>>
        /\ held = [w \in Workers |-> Nil]

Put(e) == /\ Len(buf) < Cap
          /\ buf' = Append(buf, e)
          /\ UNCHANGED held

Get(w) == /\ held[w] = Nil
          /\ buf # <<>>
          /\ held' = [held EXCEPT ![w] = Head(buf)]
          /\ buf' = Tail(buf)

Done(w) == /\ held[w] # Nil
           /\ held' = [held EXCEPT ![w] = Nil]
           /\ UNCHANGED buf

Next == \/ \E e \in Elems : Put(e)
        \/ \E w \in Workers : Get(w) \/ Done(w)

Spec == Init /\ [][Next]_vars
=============================================================================

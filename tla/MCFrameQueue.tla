---------------------------- MODULE MCFrameQueue ----------------------------
(* A small instance of FrameQueue for TLC: FrameQueue.cfg gives the values. *)
EXTENDS FrameQueue
=============================================================================

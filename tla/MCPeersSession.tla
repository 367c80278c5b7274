---------------------------- MODULE MCPeersSession ----------------------------
(* Small instances of PeersSession for TLC. *)
EXTENDS PeersSession, TLC

\* The pushers are alike; used for invariants only.
Symmetry == Permutations(Pushers)
===============================================================================

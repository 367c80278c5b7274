----------------------------- MODULE MCSpopAgent -----------------------------
(* Small instances of SpopAgent for TLC. *)
EXTENDS SpopAgent, TLC

\* Connections and workers are interchangeable; used for the invariants only.
Symmetry == Permutations(Conns) \cup Permutations(Workers)
===============================================================================

-------------------------- MODULE MCDnbd2Requests --------------------------
(***************************************************************************)
(* Instances of Dnbd2Requests for TLC.                                     *)
(***************************************************************************)
EXTENDS Dnbd2Requests, TLC

\* Requests, slots, servers and sectors are interchangeable.
Symmetry == Permutations(Reqs) \cup Permutations(Slots)
              \cup Permutations(Servers) \cup Permutations(Sectors)
=============================================================================

--------------------------- MODULE MCDnbd2Servers ---------------------------
(***************************************************************************)
(* Instances of Dnbd2Servers for TLC.                                      *)
(***************************************************************************)
EXTENDS Dnbd2Servers, TLC

\* Hosts, datasets and memory blocks are interchangeable; slots are not, the
\* code looks at them in order.
Symmetry == Permutations(Hosts) \cup Permutations(Datasets)
              \cup Permutations(Ctl)
=============================================================================

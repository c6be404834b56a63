---------------------------- MODULE MCDnbd1Cache ----------------------------
(***************************************************************************)
(* Instances of Dnbd1Cache for TLC.                                        *)
(***************************************************************************)
EXTENDS Dnbd1Cache, TLC

\* Memory is interchangeable, and so are sectors.
Symmetry == Permutations(Nodes) \cup Permutations(Sectors)
=============================================================================

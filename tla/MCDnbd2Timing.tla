--------------------------- MODULE MCDnbd2Timing ----------------------------
(***************************************************************************)
(* Instances of Dnbd2Timing for TLC.                                       *)
(***************************************************************************)
EXTENDS Dnbd2Timing
=============================================================================

----------------------------- MODULE MCDnbd2Rtt -----------------------------
(***************************************************************************)
(* Instances of Dnbd2Rtt for TLC.                                          *)
(***************************************************************************)
EXTENDS Dnbd2Rtt
=============================================================================

---------------------------- MODULE MCSessionSend ----------------------------
(***************************************************************************)
(* Instances of SessionSend for TLC.                                       *)
(***************************************************************************)
EXTENDS SessionSend

CONSTANTS u, v, strand    \* two threads outside the strand, and the strand
================================================================================

---------------------------- MODULE MCSessionRecv ----------------------------
(***************************************************************************)
(* Instances of SessionRecv for TLC.                                       *)
(***************************************************************************)
EXTENDS SessionRecv

\* Two threads outside the strand, the strand, two io threads that run timer
\* handlers, and the value of an unheld mutex.
CONSTANTS u, v, strand, io1, io2, free
================================================================================

----------------------- MODULE MCXAsioServiceController -----------------------
(***************************************************************************)
(* Instances of XAsioServiceController for TLC.                            *)
(***************************************************************************)
EXTENDS XAsioServiceController

CONSTANTS u, v, s1, s2, r1, r2
================================================================================

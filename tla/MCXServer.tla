------------------------------- MODULE MCXServer -------------------------------
(***************************************************************************)
(* Instances of XServer for TLC.                                           *)
(***************************************************************************)
EXTENDS XServer, TLC

\* Sessions, servers, two threads for the update timer, the application and nothing.
CONSTANTS s1, s2, s3, g1, g2, io1, io2, app, user, none

\* The sessions are alike, and so are the servers.
Alike == Permutations(Session) \cup Permutations(Server)
================================================================================

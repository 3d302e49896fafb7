---------------------------- MODULE MCAuthQueue ----------------------------
(* Small instances of AuthQueue for TLC.                                   *)
EXTENDS AuthQueue
CONSTANTS c1, c2, d1, d2
=============================================================================

---------------------------- MODULE MCExtProfile ----------------------------
(* Small instances of ExtProfile for TLC.                                  *)
EXTENDS ExtProfile
CONSTANTS d1, d2
=============================================================================

------------------------------ MODULE MCReader ------------------------------
(* Small instances of Reader for TLC.                                      *)
EXTENDS Reader
=============================================================================

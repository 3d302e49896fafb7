----------------------------- MODULE MCListener -----------------------------
(* Small instances of Listener for TLC.                                    *)
EXTENDS Listener
CONSTANTS d1, d2, d3
=============================================================================

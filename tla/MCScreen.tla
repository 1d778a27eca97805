------------------------------ MODULE MCScreen ------------------------------
(* Screen with two terminals of two rows and two columns: every character  *)
(* is at an edge.                                                          *)
EXTENDS Screen

NotDisturbed == ~disturbed
=============================================================================

------------------------------- MODULE MCLine -------------------------------
(* Line with two terminals and buffers of two bytes, the shortest in which *)
(* a full line can be edited; reads of fewer and of more bytes than that.  *)
EXTENDS Line
=============================================================================

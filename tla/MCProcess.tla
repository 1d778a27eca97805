----------------------------- MODULE MCProcess -----------------------------
(* Process on three pids and two terminals, with one program next to the   *)
(* shell and one descriptor next to stdin and stdout.                      *)
EXTENDS ProcessInv

NotRaced == ~raced
=============================================================================

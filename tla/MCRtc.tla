------------------------------- MODULE MCRtc -------------------------------
(* Rtc with two processes; the frequencies are the boundary values of every *)
(* check of rtc_write.                                                      *)
EXTENDS Rtc

Requests == {-2147483647, -2, 0, 1, 2, 3, 512, 768, 1024, 1025, 2048, 65536}
=============================================================================

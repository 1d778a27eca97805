------------------------------ MODULE Streams ------------------------------
(***************************************************************************)
(* What open, read and close promise a program: each open descriptor is a  *)
(* stream that delivers its source from the start, in order and without    *)
(* gaps, untouched by what happens to the other descriptors.  How much one *)
(* read delivers is not promised.                                          *)
(***************************************************************************)
EXTENDS Integers, Sequences

CONSTANTS
  Fds,             \* the descriptors that open hands out
  Sources          \* what can be opened: sequences

VARIABLES
  source,          \* per descriptor: Closed, or what it delivers, as <<s>>
  delivered        \* per descriptor: what it has delivered

vars == <<source, delivered>>

Closed == <<>>

Init == source = [fd \in Fds |-> Closed] /\ delivered = [fd \in Fds |-> <<>>]

Open(fd) ==
  /\ source[fd] = Closed
  /\ \E s \in Sources : source' = [source EXCEPT ![fd] = <<s>>]
  /\ delivered' = [delivered EXCEPT ![fd] = <<>>]

Read(fd) ==
  /\ source[fd] # Closed
  /\ \E n \in Len(delivered[fd]) .. Len(source[fd][1]) :
       delivered' = [delivered EXCEPT ![fd] = SubSeq(source[fd][1], 1, n)]
  /\ UNCHANGED source

\* one descriptor by close, all of them when the process halts
Close(fds) ==
  /\ source' = [fd \in Fds |-> IF fd \in fds THEN Closed ELSE source[fd]]
  /\ delivered' = [fd \in Fds |-> IF fd \in fds THEN <<>> ELSE delivered[fd]]

Next ==
  \/ \E fd \in Fds : Open(fd) \/ Read(fd) \/ Close({fd})
  \/ Close(Fds)

Spec == Init /\ [][Next]_vars
=============================================================================

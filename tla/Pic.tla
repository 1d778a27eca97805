-------------------------------- MODULE Pic --------------------------------
(***************************************************************************)
(* The two 8259 interrupt controllers, in the mode i8259_init puts them    *)
(* into, and the operations of i8259.c on them.  Lines 0 to 7 are those of *)
(* the master, 8 to 15 those of the slave, which asks through line 2.      *)
(***************************************************************************)
EXTENDS Integers, FiniteSetsExt

VARIABLES
  irr,             \* lines that ask for an interrupt
  isr,             \* lines whose interrupt is in service
  imr,             \* lines that are masked
  icw2             \* the vectors of lines 0 and 8

pic == <<irr, isr, imr, icw2>>

Line == 0 .. 15
Cascade == 2
Master == 0 .. 7

\* as the BIOS leaves them
BiosVectors == <<8, 112>>

\* (mutant: the vectors of the BIOS are kept)
i8259_initUnmapped ==
  /\ imr' = Line /\ irr' = {} /\ isr' = {}
  /\ UNCHANGED icw2

i8259_init ==
  /\ imr' = Line /\ irr' = {} /\ isr' = {}
  /\ icw2' = <<32, 40>>

enable_irq(irqs) == imr' = imr \ irqs

\* the line a request of irq comes in through at the master
Through(irq) == IF irq \in Master THEN irq ELSE Cascade

\* what one specific end of interrupt per controller acknowledges
Acknowledged(irq) == {irq, Through(irq)}

send_eoi(irq) == isr' = isr \ Acknowledged(irq)

\* A line asks: the request is remembered, once.
Raise(irqs) == irr' = irr \cup irqs

\* the unmasked requests that nothing of the same or a higher priority in
\* service holds back
Offered ==
  {irq \in irr \ imr :
     /\ Through(irq) \notin imr
     /\ \A s \in isr \cap Master : Through(irq) < s
     /\ irq \in Master \/ \A s \in isr \ Master : irq < s}

\* the one the master presents
Presented ==
  {irq \in Offered : \A other \in Offered :
     \/ Through(irq) < Through(other)
     \/ Through(irq) = Through(other) /\ irq <= other}

Vector(irq) == IF irq \in Master THEN icw2[1] + irq ELSE icw2[2] + irq - 8

\* the processor takes it
Acknowledge(irq) ==
  /\ irr' = irr \ {irq}
  /\ isr' = isr \cup {irq, Through(irq)}
=============================================================================

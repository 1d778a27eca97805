-------------------------------- MODULE Rtc --------------------------------
(***************************************************************************)
(* The real-time clock driver: rtc_read, which spins until the interrupt   *)
(* handler sets a flag, and rtc_write, which programs the chip's rate      *)
(* through an index port and a data port that the handler uses too.        *)
(*                                                                         *)
(* One CPU runs the processes.  While interrupts are enabled the PIT may   *)
(* switch between any two instructions, so any process may take the next   *)
(* step; after a cli only the process that executed it does.               *)
(***************************************************************************)
EXTENDS Integers

CONSTANTS
  Proc,            \* processes that have the rtc file open
  Freqs            \* the frequencies they ask rtc_write for

RTC_DEFAULT_FREQ == 32768
RTC_PRGM_MAX_FREQ == 1024
RTC_RATE_LOW == 6
RTC_RATE_HIGH == 15
BootA == 38        \* register A before the first write: divider 2, rate 6
BootB == 66        \* register B: periodic interrupts on, 24 hours

VARIABLES
  rtc_interrupt_happened,
  rtc_cur_freq,
  pc,              \* per process: the step of the driver it is about to take
  freq,            \* per process: its argument to rtc_write
  reg_prev,        \* per process: the local of that name
  masked,          \* the process that has executed cli, or Nobody
  index,           \* the register the index port selects
  reg,             \* the registers of the chip
  unread,          \* register C holds an interrupt nobody has read yet
  irq,             \* the 8259 holds a request of the chip
  seen             \* history: an interrupt was handled since the process
                   \* cleared the flag

Nobody == "nobody"

ASSUME RtcAssumption ==
  /\ Nobody \notin Proc
  /\ Freqs \subseteq Int

Register == {"A", "B", "C", "D", "none"}
Step == {"user", "spin", "freq", "mask", "select", "get", "reselect", "put",
         "unmask"}

Section == {"select", "get", "reselect", "put", "unmask"}

driver == <<rtc_interrupt_happened, rtc_cur_freq>>
chip == <<index, reg, unread, irq>>
vars == <<driver, chip, pc, freq, reg_prev, masked, seen>>

\* after rtc_init
Init ==
  /\ rtc_interrupt_happened = FALSE
  /\ rtc_cur_freq = 0
  /\ pc = [p \in Proc |-> "user"]
  /\ freq = [p \in Proc |-> 0]
  /\ reg_prev = [p \in Proc |-> 0]
  /\ masked = Nobody
  /\ index = "none"
  /\ reg = [r \in Register |-> CASE r = "A" -> BootA [] r = "B" -> BootB
                                 [] OTHER -> 0]
  /\ unread = FALSE
  /\ irq = FALSE
  /\ seen = [p \in Proc |-> FALSE]

Runs(p, step) == masked \in {Nobody, p} /\ pc[p] = step
GoTo(p, step) == pc' = [pc EXCEPT ![p] = step]

(***************************************************************************)
(* The arithmetic of rtc_write                                             *)
(***************************************************************************)

\* the loop that divides by two as long as that is possible
OddPart[n \in Int] == IF n > 1 /\ n % 2 = 0 THEN OddPart[n \div 2] ELSE n

\* the frequency the chip runs at for a rate
Hz(rate) == RTC_DEFAULT_FREQ \div 2^(rate - 1)

LowNibble(byte) == byte % 16
HighNibble(byte) == 16 * (byte \div 16)

\* (mutant: shifts by the rate instead of one less)
RateShifted(f) ==
  CHOOSE r \in 0 .. RTC_RATE_HIGH + 1 : RTC_DEFAULT_FREQ \div 2^r = f

\* the loop that counts up from 1; it ends within 16 steps, since its
\* argument is a power of two no larger than RTC_PRGM_MAX_FREQ
Rate(f) ==
  CHOOSE r \in 1 .. RTC_RATE_HIGH + 1 : RTC_DEFAULT_FREQ \div 2^(r - 1) = f

\* (mutant: without the check of the rate)
AcceptsAnyRate(f) == OddPart[f] = 1 /\ f <= RTC_PRGM_MAX_FREQ /\ f > 0

\* the three checks that return -1, in order
Accepts(f) ==
  /\ OddPart[f] = 1
  /\ f <= RTC_PRGM_MAX_FREQ /\ f > 0
  /\ Rate(f) \in RTC_RATE_LOW .. RTC_RATE_HIGH

(***************************************************************************)
(* rtc_read                                                                *)
(***************************************************************************)

\* (mutant: does not clear the flag)
ReadStale(p) ==
  /\ Runs(p, "user")
  /\ seen' = [seen EXCEPT ![p] = FALSE]
  /\ GoTo(p, "spin")
  /\ UNCHANGED <<driver, chip, freq, reg_prev, masked>>

Read(p) ==
  /\ Runs(p, "user")
  /\ rtc_interrupt_happened' = FALSE
  /\ seen' = [seen EXCEPT ![p] = FALSE]
  /\ GoTo(p, "spin")
  /\ UNCHANGED <<rtc_cur_freq, chip, freq, reg_prev, masked>>

ReadReturn(p) ==
  /\ Runs(p, "spin")
  /\ rtc_interrupt_happened
  /\ GoTo(p, "user")
  /\ UNCHANGED <<driver, chip, freq, reg_prev, masked, seen>>

(***************************************************************************)
(* rtc_write                                                               *)
(***************************************************************************)

\* the checks; a frequency that fails them returns -1 and changes nothing
Write(p, f) ==
  /\ Runs(p, "user")
  /\ Accepts(f)
  /\ freq' = [freq EXCEPT ![p] = f]
  /\ GoTo(p, "freq")
  /\ UNCHANGED <<driver, chip, reg_prev, masked, seen>>

WriteFreq(p) ==
  /\ Runs(p, "freq")
  /\ rtc_cur_freq' = freq[p]
  /\ GoTo(p, "mask")
  /\ UNCHANGED <<rtc_interrupt_happened, chip, freq, reg_prev, masked, seen>>

\* (mutant: without cli)
WriteNoMask(p) ==
  /\ Runs(p, "mask")
  /\ index' = "B"
  /\ GoTo(p, "select")
  /\ UNCHANGED <<driver, masked, reg, unread, irq, freq, reg_prev, seen>>

\* cli, and the first write to the index port, which turns NMIs off
WriteMask(p) ==
  /\ Runs(p, "mask")
  /\ masked' = p
  /\ index' = "B"
  /\ GoTo(p, "select")
  /\ UNCHANGED <<driver, reg, unread, irq, freq, reg_prev, seen>>

\* (mutant: the second outb(REGA, RTC_PORT) is missing)
WriteSelectOnce(p) ==
  /\ Runs(p, "select") \/ Runs(p, "reselect")
  /\ index' = IF pc[p] = "select" THEN "A" ELSE index
  /\ GoTo(p, IF pc[p] = "select" THEN "get" ELSE "put")
  /\ UNCHANGED <<driver, reg, unread, irq, freq, reg_prev, masked, seen>>

\* outb(REGA, RTC_PORT), before the read and again before the write
WriteSelect(p) ==
  /\ Runs(p, "select") \/ Runs(p, "reselect")
  /\ index' = "A"
  /\ GoTo(p, IF pc[p] = "select" THEN "get" ELSE "put")
  /\ UNCHANGED <<driver, reg, unread, irq, freq, reg_prev, masked, seen>>

\* inb(PORT_DATA) leaves the index at register D
WriteGet(p) ==
  /\ Runs(p, "get")
  /\ reg_prev' = [reg_prev EXCEPT ![p] = reg[index]]
  /\ index' = "D"
  /\ GoTo(p, "reselect")
  /\ UNCHANGED <<driver, reg, unread, irq, freq, masked, seen>>

\* (reg_prev & 0xF0) | rate
WritePut(p) ==
  /\ Runs(p, "put")
  /\ reg' = [reg EXCEPT ![index] =
               HighNibble(reg_prev[p]) + Rate(freq[p])]
  /\ GoTo(p, "unmask")
  /\ UNCHANGED <<driver, index, unread, irq, freq, reg_prev, masked, seen>>

\* NMIs back on, sti
WriteUnmask(p) ==
  /\ Runs(p, "unmask")
  /\ index' = "none"
  /\ masked' = Nobody
  /\ GoTo(p, "user")
  /\ UNCHANGED <<driver, reg, unread, irq, freq, reg_prev, seen>>

(***************************************************************************)
(* The chip and the handler                                                *)
(***************************************************************************)

\* the chip raises no second interrupt before register C has been read
ChipTick ==
  /\ ~unread
  /\ unread' = TRUE
  /\ irq' = TRUE
  /\ UNCHANGED <<driver, index, reg, pc, freq, reg_prev, masked, seen>>

\* (mutant: does not read register C)
HandlerNoRead ==
  /\ irq /\ masked = Nobody
  /\ index' = "C"
  /\ irq' = FALSE
  /\ rtc_interrupt_happened' = TRUE
  /\ seen' = [p \in Proc |-> TRUE]
  /\ UNCHANGED <<rtc_cur_freq, reg, unread, pc, freq, reg_prev, masked>>

rtc_handler ==
  /\ irq /\ masked = Nobody
  /\ index' = "D"
  /\ unread' = FALSE
  /\ irq' = FALSE
  /\ rtc_interrupt_happened' = TRUE
  /\ seen' = [p \in Proc |-> TRUE]
  /\ UNCHANGED <<rtc_cur_freq, reg, pc, freq, reg_prev, masked>>

WriteStep(p) ==
  \/ WriteFreq(p) \/ WriteMask(p) \/ WriteSelect(p)
  \/ WriteGet(p) \/ WritePut(p) \/ WriteUnmask(p)

Next ==
  \/ \E p \in Proc :
       \/ Read(p) \/ ReadReturn(p)
       \/ \E f \in Freqs : Write(p, f)
       \/ WriteStep(p)
  \/ ChipTick \/ rtc_handler

Spec == Init /\ [][Next]_vars

\* The round-robin scheduler gives every process the CPU; the chip keeps
\* ticking; the 8259 holds the request while interrupts are masked.
Fairness ==
  /\ \A p \in Proc : SF_vars(WriteStep(p)) /\ SF_vars(ReadReturn(p))
  /\ WF_vars(ChipTick)
  /\ SF_vars(rtc_handler)

FairSpec == Spec /\ Fairness

-----------------------------------------------------------------------------
(***************************************************************************)
(* Properties                                                              *)
(***************************************************************************)

\* The flag, the chip's registers and the locals of rtc_write stay in range.
TypeOK ==
  /\ rtc_interrupt_happened \in BOOLEAN
  /\ rtc_cur_freq \in Int
  /\ pc \in [Proc -> Step]
  /\ freq \in [Proc -> Int]
  /\ reg_prev \in [Proc -> Int]
  /\ masked \in Proc \cup {Nobody}
  /\ index \in Register
  /\ reg \in [Register -> Int]
  /\ unread \in BOOLEAN
  /\ irq \in BOOLEAN
  /\ seen \in [Proc -> BOOLEAN]

\* However many processes share the one flag, rtc_read returns only after an
\* interrupt was handled that came after the call cleared the flag.
ReadsWait ==
  \A p \in Proc : pc[p] = "spin" /\ rtc_interrupt_happened => seen[p]

\* rtc_write changes the rate and nothing else in the chip: whatever the
\* handler does to the shared index port, the data written lands in register
\* A and keeps its upper half, and periodic interrupts stay on.
OnlyRateChanges ==
  /\ reg["B"] = BootB
  /\ HighNibble(reg["A"]) = HighNibble(BootA)
  /\ LowNibble(reg["A"]) \in RTC_RATE_LOW .. RTC_RATE_HIGH

\* When rtc_write has programmed the chip, the chip runs at the frequency
\* that was asked for.
RunsAtRequested ==
  \A p \in Proc : pc[p] = "unmask" => Hz(LowNibble(reg["A"])) = freq[p]

\* Whoever calls it, rtc_write accepts exactly the powers of two from 2 to
\* 1024.
AcceptsPowersOfTwo ==
  \A p \in Proc, f \in Freqs :
    pc[p] = "user" => (Accepts(f) <=> \E k \in 1 .. 10 : f = 2^k)

\* The inductive invariant behind ReadsWait, OnlyRateChanges and
\* RunsAtRequested: a process
\* inside the cli section of rtc_write is the only one there and runs alone,
\* so the register it selected stays selected, and what it has read from
\* register A or written to it is still there.
RtcInv ==
  /\ TypeOK /\ ReadsWait /\ OnlyRateChanges
  /\ \A p \in Proc :
       /\ pc[p] \in Section <=> masked = p
       /\ pc[p] \in Section \cup {"freq", "mask"} => Accepts(freq[p])
       /\ pc[p] \in {"get", "put"} => index = "A"
       /\ pc[p] \in {"reselect", "put"} => reg_prev[p] = reg["A"]
       /\ pc[p] = "unmask" => LowNibble(reg["A"]) = Rate(freq[p])

SoleReader(p) == \A q \in Proc \ {p} : pc[q] # "spin"

\* An rtc_read that no other rtc_read overlaps returns, whatever other
\* processes write to the rtc in the meantime.
ReadReturns ==
  \A p \in Proc :
    []SoleReader(p) => (pc[p] = "spin" ~> pc[p] = "user")

\* rtc.c:8 says of the flag that the handler "changes when it runs so
\* rtc_read knows when to return": a process still in rtc_read after an
\* interrupt was handled finds the flag set.
ReadersNotified ==
  \A p \in Proc : pc[p] = "spin" /\ seen[p] => rtc_interrupt_happened
=============================================================================

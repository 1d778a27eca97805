-------------------------- MODULE InterruptsProofs --------------------------
(***************************************************************************)
(* Interrupts and paging, for any chords of keys, any queue and up to      *)
(* seven processes.                                                        *)
(***************************************************************************)
EXTENDS Interrupts, Arithmetic, TLAPS

Asking == {PIT_IRQ_LINE, KB_IR_LINE, RTC_IRQ_LINE}

\* The controllers: what is in service is what is being handled, and nothing
\* is in service where interrupts are on.
PicInv ==
  /\ irr \subseteq Asking /\ imr \subseteq Line
  /\ icw2 = IF boot < 2 THEN BiosVectors ELSE <<32, 40>>
  /\ boot < 3 => ~iflag
  /\ boot > 0 => /\ {32, 33, 40} \subseteq DOMAIN idt
                 /\ idt[32] = "pit_handler" /\ idt[33] = "keyboard_handler"
                 /\ idt[40] = "rtc_handler"
  /\ cpu \in Handlers \cup {"entry", "user", "tRead", "searching"}
  /\ isr = CASE cpu \in {"pit_handler", "searching"} -> {PIT_IRQ_LINE}
             [] cpu = "keyboard_handler" -> {KB_IR_LINE}
             [] cpu = "rtc_handler" -> {RTC_IRQ_LINE, Cascade}
             [] OTHER -> {}
  /\ cpu \in Handlers \cup {"tRead", "searching"} => ~iflag /\ boot > 2
  /\ kb # Idle => cpu = "keyboard_handler"

\* where a process runs, or is looked for
Process == {"user", "tRead", "searching"}

\* Where the machine is in entry() and what it has set up by then.
BootInv ==
  /\ boot \in 0 .. Started /\ iflag \in BOOLEAN /\ regC \in BOOLEAN
  /\ under \in {"entry", "user"}
  /\ (cpu = "entry" \/ (cpu \in Handlers /\ under = "entry")) => boot < Started
  /\ (cpu \in Process \/ (cpu \in Handlers /\ under = "user"))
       => boot = Started
  /\ live \subseteq Pid /\ numShells \subseteq Term
  /\ boot < Started => live = {} /\ pcb = None /\ cr3 = None
  /\ boot = Started => cr0
  /\ boot < Started => KB_IR_LINE \notin irr /\ cpu # "keyboard_handler"
  /\ cr0 \in BOOLEAN

\* The page directories: the same for everybody but for the page of the
\* program and, perhaps, the video memory.
Directory(d, p) ==
  /\ d[0] = VideoPage /\ d[1] = KernelPage /\ d[34] = TermPages
  /\ d[33] \in {NotPresent, VideoPage}
  /\ d[32] \in {NotPresent, ProgramPage(p)}

PageInv ==
  /\ page_dir \in [Pid -> [Entries -> Entry]]
  /\ IF boot > 5 THEN \A p \in Pid : Directory(page_dir[p], p)
     ELSE SetUp = {}

\* Between two steps of a system call the pid that runs, the directory that is
\* loaded and the processes with their bit set need not agree; but all of them
\* were set up.
UsedInv == boot = Started => live \cup {pcb, cr3} \subseteq SetUp

IntInv == PicInv /\ BootInv /\ PageInv /\ UsedInv

-----------------------------------------------------------------------------
\* One step of keyboard_handler asks for no line but its own, touches nothing
\* but the end of its interrupt, and sends that exactly when it leaves.
LEMMA KeyboardEffect ==
  ASSUME keyboard_handler
  PROVE  /\ irr' \in {irr, irr \cup {KB_IR_LINE}}
         /\ imr' = imr /\ icw2' = icw2
         /\ kb # Idle
         /\ \/ kb' = Idle /\ isr' = isr \ {KB_IR_LINE}
            \/ kb' # Idle /\ isr' = isr
<1> USE DEF AfterInb, Goes, Ends, Idle
<1>0. send_eoi(KB_IR_LINE) <=> isr' = isr \ {KB_IR_LINE}
  BY DEF send_eoi, Acknowledged, Through, KB_IR_LINE, Master
<1>1. CASE Scan
  BY <1>0, <1>1 DEF Scan
<1>2. CASE Control
  BY <1>0, <1>2 DEF Control, Polled
<1>3. CASE Clear
  BY <1>0, <1>3 DEF Clear
<1>4. CASE Alt
  BY <1>0, <1>4 DEF Alt, Polled, Range, FKeys
<1>5. CASE ShiftCondition
  BY <1>0, <1>5 DEF ShiftCondition
<1>6. CASE ShiftKey
  BY <1>0, <1>6 DEF ShiftKey, Polled
<1>7. CASE ShiftReread
  BY <1>0, <1>7 DEF ShiftReread
<1> QED
  BY <1>1, <1>2, <1>3, <1>4, <1>5, <1>6, <1>7 DEF keyboard_handler

\* Typing asks for the line of the keyboard and for nothing else.
LEMMA TypingEffect ==
  ASSUME Typing
  PROVE  /\ irr' \in {irr, irr \cup {KB_IR_LINE}}
         /\ isr' = isr /\ imr' = imr /\ icw2' = icw2 /\ kb' = kb
         /\ UNCHANGED <<core, regC, process, paging>>
<1>1. CASE NextKey
  BY <1>1 DEF Typing, NextKey, Deliver, Raise, Asks
<1>2. CASE \E c \in Chords : StartChord(c)
  BY <1>2 DEF Typing, StartChord, Deliver, Raise, Asks
<1> QED
  BY <1>1, <1>2 DEF Typing

\* An interrupt that is taken is one a device asked for, and reaches its own
\* handler once the gates and the controllers are set up.
LEMMA TakeEffect ==
  ASSUME IntInv, NEW irq \in Line, Take(irq)
  PROVE  /\ irq \in Asking /\ iflag /\ boot > 2
         /\ irr' = irr \ {irq}
         /\ cpu \in {"entry", "user"} /\ under' = cpu /\ ~iflag'
         /\ \/ irq = PIT_IRQ_LINE /\ cpu' = "pit_handler"
               /\ isr' = {PIT_IRQ_LINE}
            \/ irq = KB_IR_LINE /\ cpu' = "keyboard_handler"
               /\ isr' = {KB_IR_LINE}
            \/ irq = RTC_IRQ_LINE /\ cpu' = "rtc_handler"
               /\ isr' = {RTC_IRQ_LINE, Cascade}
<1> USE DEF PIT_IRQ_LINE, KB_IR_LINE, RTC_IRQ_LINE, Cascade
<1>1. irq \in Asking /\ iflag
  BY DEF Take, Presented, Offered, IntInv, PicInv
<1>2. boot > 2 /\ icw2 = <<32, 40>>
  BY <1>1 DEF IntInv, PicInv, BootInv, Started
<1>3. cpu \in {"entry", "user"} /\ isr = {}
  BY <1>1 DEF IntInv, PicInv, Handlers
<1>4. Vector(irq) = 32 + irq
  BY <1>1, <1>2 DEF Vector, Master, Asking
<1>5. isr' = {irq} \cup {Through(irq)} /\ irr' = irr \ {irq}
  BY <1>3 DEF Take, Acknowledge
<1>6. cpu' = IF Vector(irq) \in DOMAIN idt THEN idt[Vector(irq)] ELSE "no gate"
  BY DEF Take
<1>7. /\ 32 \in DOMAIN idt /\ idt[32] = "pit_handler"
      /\ 33 \in DOMAIN idt /\ idt[33] = "keyboard_handler"
      /\ 40 \in DOMAIN idt /\ idt[40] = "rtc_handler"
  BY <1>2 DEF IntInv, PicInv, BootInv, Started
<1>8. under' = cpu /\ ~iflag'
  BY DEF Take, FlagInHandler
<1>9. CASE irq = 0
  BY <1>1, <1>2, <1>3, <1>4, <1>5, <1>6, <1>7, <1>8, <1>9 DEF Through, Master
<1>10. CASE irq = 1
  BY <1>1, <1>2, <1>3, <1>4, <1>5, <1>6, <1>7, <1>8, <1>10 DEF Through, Master
<1>11. CASE irq = 8
  BY <1>1, <1>2, <1>3, <1>4, <1>5, <1>6, <1>7, <1>8, <1>11 DEF Through, Master
<1> QED
  BY <1>1, <1>9, <1>10, <1>11 DEF Asking

\* The steps of a system call are taken by a process, and concern nothing but
\* the process table and paging.
LEMMA UserEffect ==
  ASSUME SystemCall \/ vidmap
  PROVE  cpu = "user" /\ UNCHANGED <<pic, keys, core, regC, numShells>>
BY DEF SystemCall, ExecuteMap, ExecuteSetPcb, ExecutePublish, HaltFree,
       HaltReparent, HaltRepage, vidmap, User

\* Those that are set up are pids.
LEMMA UsedPids ==
  ASSUME UsedInv, boot = Started
  PROVE  live \subseteq Pid /\ pcb \in Pid /\ cr3 \in Pid
BY DEF UsedInv, SetUp

\* The controllers and their handlers keep in step, at every step.
LEMMA PicStep ==
  ASSUME IntInv, [Next]_vars
  PROVE  PicInv'
<1> USE DEF PIT_IRQ_LINE, KB_IR_LINE, RTC_IRQ_LINE, Cascade, Asking, Handlers
<1>0. PicInv /\ BootInv
  BY DEF IntInv
<1>1. CASE BootNext
  <2> USE <1>0 DEF PicInv, BootInv, BootStep, core, keys, pic, Started
  <2>1. CASE BootGates
    BY <2>1 DEF BootGates, Gates, Exceptions
  <2>2. CASE BootPic
    BY <2>2 DEF BootPic, i8259_init, Line
  <2>3. CASE rtc_init \/ pit_init \/ keyboard_init
    BY <2>3 DEF rtc_init, pit_init, keyboard_init, BootDevice, enable_irq
  <2>4. CASE BootPaging \/ pit_set_freq
    BY <2>4 DEF BootPaging, pit_set_freq
  <2>5. CASE BootShell
    BY <2>5 DEF BootShell, LaunchShell, UserGates
  <2> QED
    BY <1>1, <2>1, <2>2, <2>3, <2>4, <2>5 DEF BootNext
<1>2. CASE SystemCall \/ vidmap \/ ReadMasks \/ ReadPort \/ pit_handlerHangs
  <2>1. CASE SystemCall \/ vidmap
    BY <1>0, <2>1, UserEffect DEF pic, keys, core, PicInv
  <2>2. CASE ReadMasks
    BY <1>0, <2>2 DEF ReadMasks, pic, keys, PicInv, BootInv, Process, Started
  <2>3. CASE ReadPort
    <3>1. /\ irr' \in {irr, irr \cup {1}} /\ cpu = "tRead"
          /\ UNCHANGED <<isr, imr, icw2, boot, idt, kb>>
          /\ cpu' = "user" \/ UNCHANGED <<cpu, iflag>>
      BY <2>3 DEF ReadPort, AfterInb
    <3>2. boot = 8 /\ isr = {} /\ kb = Idle
      BY <1>0, <3>1 DEF PicInv, BootInv, Process, Started
    <3> QED
      BY <1>0, <3>1, <3>2 DEF PicInv
  <2>4. CASE pit_handlerHangs
    BY <1>0, <2>4 DEF pit_handlerHangs, pic, keys, PicInv
  <2> QED
    BY <1>2, <2>1, <2>2, <2>3, <2>4
<1>3. CASE PitTick \/ RtcTick
  BY <1>0, <1>3 DEF PitTick, RtcTick, Asks, Raise, keys, core, PicInv
<1>4. CASE Typing
  BY <1>0, <1>4, TypingEffect DEF core, PicInv
<1>5. CASE \E irq \in Line : Take(irq)
  <2> PICK irq \in Line : Take(irq)
    BY <1>5
  <2>1. UNCHANGED <<imr, icw2, boot, idt>>
        /\ kb' = IF cpu' = "keyboard_handler" THEN "scan" ELSE kb
    BY DEF Take
  <2> QED
    BY <1>0, <2>1, TakeEffect DEF PicInv
<1>6. CASE pit_handler \/ rtc_handler
  <2>1. /\ UNCHANGED <<irr, imr, icw2, boot, idt, kb, under>>
        /\ cpu' = under /\ iflag'
    BY <1>6 DEF pit_handler, rtc_handler, Iret, keys
  <2>2. isr' = {}
    BY <1>0, <1>6 DEF pit_handler, rtc_handler, send_eoi, Acknowledged,
                      Through, Master, PicInv
  <2> QED
    BY <1>0, <1>6, <2>1, <2>2 DEF PicInv, BootInv, pit_handler, rtc_handler
<1>7. CASE KeyboardStep
  <2>1. CASE kb' = Idle
    BY <1>0, <1>7, <2>1, KeyboardEffect DEF KeyboardStep, Iret, PicInv, BootInv
  <2>2. CASE kb' # Idle
    BY <1>0, <1>7, <2>2, KeyboardEffect DEF KeyboardStep, core, PicInv
  <2> QED
    BY <2>1, <2>2
<1>8. CASE \E t \in Term : screenChange(t)
  <2> PICK t \in Term : screenChange(t)
    BY <1>8
  <2>1. /\ UNCHANGED <<irr, imr, icw2, boot, idt>> /\ kb' = Idle
        /\ cpu = "keyboard_handler" /\ cpu' \in {under, "user"} /\ iflag'
        /\ send_eoi(KB_IR_LINE)
    BY DEF screenChange, Iret, LaunchEoi, LaunchShell
  <2>2. isr' = {}
    BY <1>0, <2>1 DEF send_eoi, Acknowledged, Through, Master, PicInv
  <2> QED
    BY <1>0, <2>1, <2>2 DEF PicInv, BootInv
<1>9. CASE UNCHANGED vars
  BY <1>0, <1>9 DEF vars, pic, keys, core, PicInv
<1> QED
  BY <1>1, <1>2, <1>3, <1>4, <1>5, <1>6, <1>7, <1>8, <1>9 DEF Next

\* So do entry() and what it has set up.
LEMMA BootStepInv ==
  ASSUME IntInv, [Next]_vars
  PROVE  BootInv'
<1> USE DEF Handlers, Process, PIT_IRQ_LINE, KB_IR_LINE, RTC_IRQ_LINE, Started
<1>0. PicInv /\ BootInv
  BY DEF IntInv
<1>1. CASE BootNext
  <2> USE <1>0 DEF PicInv, BootInv, BootStep, process, paging, pic
  <2>1. CASE BootGates \/ BootPic
    BY <2>1 DEF BootGates, BootPic, i8259_init
  <2>2. CASE rtc_init
    BY <2>2 DEF rtc_init, BootDevice
  <2>3. CASE pit_init
    BY <2>3 DEF pit_init, BootDevice
  <2>4. CASE keyboard_init
    BY <2>4 DEF keyboard_init, BootDevice
  <2>5. CASE BootPaging
    BY <2>5 DEF BootPaging
  <2>6. CASE pit_set_freq
    BY <2>6 DEF pit_set_freq
  <2>7. CASE BootShell
    BY <2>7, InterruptsAssumption
       DEF BootShell, LaunchShell, setup_paging, Pid, Term
  <2> QED
    BY <1>1, <2>1, <2>2, <2>3, <2>4, <2>5, <2>6, <2>7 DEF BootNext
<1>2. CASE SystemCall \/ vidmap
  <2>1. cpu = "user" /\ UNCHANGED <<irr, core, regC, numShells>> /\ boot = 8
    BY <1>0, <1>2, UserEffect DEF pic, BootInv
  <2>2. live \subseteq Pid /\ pcb \in Pid
    BY <2>1, UsedPids DEF IntInv
  <2>3. live' \subseteq live \cup SetUp /\ SetUp \subseteq Pid
    BY <1>2 DEF SystemCall, ExecuteMap, ExecuteSetPcb, ExecutePublish,
                HaltFree, HaltReparent, HaltRepage, vidmap, SetUp
  <2>4. cr0'
    BY <1>0, <1>2, <2>1
       DEF SystemCall, ExecuteMap, ExecuteSetPcb, ExecutePublish, HaltFree,
           HaltReparent, HaltRepage, vidmap, setup_paging, update_paging,
           add_vidmap, paging, BootInv
  <2>5. cr0' \in BOOLEAN
    BY <1>0, <1>2 DEF SystemCall, ExecuteMap, ExecuteSetPcb, ExecutePublish,
                HaltFree, HaltReparent, HaltRepage, vidmap, setup_paging,
                update_paging, add_vidmap, paging, BootInv
  <2>6. /\ boot' = 8 /\ cpu' = "user" /\ live' \subseteq Pid
        /\ UNCHANGED <<iflag, under, regC, numShells>>
    BY <2>1, <2>2, <2>3 DEF core
  <2>7. /\ iflag \in BOOLEAN /\ regC \in BOOLEAN /\ under \in {"entry", "user"}
        /\ numShells \subseteq Term
    BY <1>0 DEF BootInv
  <2> QED
    BY <2>4, <2>5, <2>6, <2>7 DEF BootInv
<1>11. CASE ReadMasks \/ ReadPort
  <2>1. /\ cpu \in {"user", "tRead"} /\ cpu' \in {"user", "tRead"}
        /\ iflag' \in {iflag, TRUE, FALSE}
        /\ irr' \in {irr, irr \cup {1}}
        /\ UNCHANGED <<boot, under, regC, live, pcb, numShells, cr3, cr0>>
    BY <1>11 DEF ReadMasks, ReadPort, AfterInb, process, paging, pic
  <2>2. boot = 8 /\ iflag' \in BOOLEAN
    BY <1>0, <2>1 DEF BootInv
  <2>3. /\ regC \in BOOLEAN /\ under \in {"entry", "user"} /\ cr0 \in BOOLEAN
        /\ live \subseteq Pid /\ numShells \subseteq Term /\ (boot = 8 => cr0)
    BY <1>0 DEF BootInv
  <2> QED
    BY <2>1, <2>2, <2>3 DEF BootInv
<1>12. CASE pit_handlerHangs
  BY <1>0, <1>12 DEF pit_handlerHangs, process, paging, pic, BootInv
<1>3. CASE PitTick \/ RtcTick
  <2>1. /\ irr' \in {irr \cup {0}, irr \cup {8}} /\ regC' \in BOOLEAN
        /\ UNCHANGED <<core, process, paging>>
    BY <1>0, <1>3 DEF PitTick, RtcTick, Asks, Raise, BootInv
  <2> QED
    BY <1>0, <2>1 DEF core, process, paging, BootInv
<1>4. CASE Typing
  <2>1. boot = 8 /\ UNCHANGED <<core, regC, process, paging>>
    BY <1>4, TypingEffect DEF Typing
  <2> QED
    BY <1>0, <2>1 DEF core, process, paging, BootInv
<1>5. CASE \E irq \in Line : Take(irq)
  <2> PICK irq \in Line : Take(irq)
    BY <1>5
  <2>1. UNCHANGED <<boot, regC, live, pcb, numShells, cr3, cr0>>
    BY DEF Take, process, paging
  <2>2. irq \in irr
    BY DEF Take, Presented, Offered
  <2>3. ~iflag' /\ iflag' \in BOOLEAN
    BY DEF Take, FlagInHandler
  <2>4. /\ boot \in 0 .. 8 /\ regC \in BOOLEAN /\ cr0 \in BOOLEAN
        /\ cpu = "entry" => boot < 8
        /\ cpu = "user" => boot = 8
        /\ live \subseteq Pid /\ numShells \subseteq Term
        /\ boot < 8 => live = {} /\ pcb = None /\ cr3 = None
        /\ boot = 8 => cr0
        /\ boot < 8 => 1 \notin irr
    BY <1>0 DEF BootInv
  <2> QED
    BY <2>1, <2>2, <2>3, <2>4, TakeEffect DEF BootInv
<1>6. CASE pit_handler
  BY <1>0, <1>6 DEF pit_handler, Iret, update_paging, paging, BootInv
<1>7. CASE rtc_handler
  BY <1>0, <1>7 DEF rtc_handler, Iret, process, paging, BootInv
<1>8. CASE KeyboardStep
  <2>1. UNCHANGED <<regC, live, pcb, numShells, cr3, cr0, boot, under>>
        /\ \/ cpu' = under /\ iflag' = TRUE
           \/ UNCHANGED <<cpu, iflag>>
    BY <1>8 DEF KeyboardStep, Iret, core, process, paging
  <2>2. cpu = "keyboard_handler" /\ boot = 8
    BY <1>0, <1>8 DEF KeyboardStep, BootInv
  <2> QED
    BY <1>0, <2>1, <2>2 DEF BootInv
<1>9. CASE \E t \in Term : screenChange(t)
  <2> PICK t \in Term : screenChange(t)
    BY <1>9
  <2>0. boot = 8 /\ boot' = 8 /\ UNCHANGED <<regC, under>>
    BY <1>0 DEF screenChange, Iret, BootInv
  <2>1. CASE t \in numShells \/ live = Pid
    <3>1. /\ cpu' = under /\ iflag' = TRUE
          /\ UNCHANGED <<live, pcb, numShells, cr3, cr0>>
      BY <2>1 DEF screenChange, Iret, process, paging
    <3>2. under = "user"
      BY <1>0, <2>0 DEF screenChange, BootInv
    <3> QED
      BY <1>0, <2>0, <3>1, <3>2 DEF BootInv
  <2>2. CASE ~(t \in numShells \/ live = Pid)
    BY <1>0, <2>0, <2>2 DEF screenChange, LaunchShell, setup_paging, Free,
                            BootInv
  <2> QED
    BY <2>1, <2>2
<1>10. CASE UNCHANGED vars
  BY <1>0, <1>10 DEF vars, core, process, paging, pic, BootInv
<1> QED
  BY <1>1, <1>2, <1>3, <1>4, <1>5, <1>6, <1>7, <1>8, <1>9, <1>10, <1>11, <1>12
     DEF Next

-----------------------------------------------------------------------------
\* The page directories.
LEMMA EntriesTyped ==
  /\ {NotPresent, VideoPage, KernelPage, TermPages} \subseteq Entry
  /\ \A p \in Pid : ProgramPage(p) \in Entry
  BY InterruptsAssumption
     DEF NotPresent, VideoPage, KernelPage, TermPages, ProgramPage, Maps,
         Entry, VIDEO, EMPTY_PHYS_MEM, MB, Pid

\* setup_paging gives a process its own page and leaves the others alone.
LEMMA SetupKeeps ==
  ASSUME PageInv, boot \in {7, 8}, boot' = 8, NEW p \in Pid,
         page_dir' = [page_dir EXCEPT ![p][32] = ProgramPage(p)]
  PROVE  PageInv' /\ SetUp' = SetUp \cup {p}
<1>1. page_dir \in [Pid -> [Entries -> Entry]] /\ 32 \in Entries
  BY DEF PageInv, Entries
<1>2. page_dir' \in [Pid -> [Entries -> Entry]]
  BY <1>1, EntriesTyped
<1>3. ASSUME NEW q \in Pid
      PROVE  /\ Directory(page_dir[q], q)'
             /\ q \in SetUp' <=> q \in SetUp \cup {p}
  <2>1. Directory(page_dir[q], q)
    BY DEF PageInv
  <2>2. CASE q = p
    <3>1. page_dir'[q] = [page_dir[q] EXCEPT ![32] = ProgramPage(q)]
      BY <1>1, <2>2
    <3>2. ProgramPage(q).size # NotPresent.size
      BY DEF ProgramPage, NotPresent, Maps, MB
    <3>4. page_dir'[q][32] = ProgramPage(q) /\ ProgramPage(q) # NotPresent
      BY <1>1, <3>1, <3>2
    <3>3. Directory(page_dir[q], q)'
      BY <1>1, <2>1, <3>1 DEF Directory, Entries
    <3> QED
      BY <2>2, <3>3, <3>4 DEF SetUp
  <2>3. CASE q # p
    <3>1. page_dir'[q] = page_dir[q]
      BY <1>1, <2>3
    <3> QED
      BY <2>1, <2>3, <3>1 DEF Directory, SetUp
  <2> QED
    BY <2>2, <2>3
<1>4. SetUp' = SetUp \cup {p}
  BY <1>3 DEF SetUp
<1>5. \A q \in Pid : Directory(page_dir[q], q)'
  BY <1>3
<1>6. boot' > 5
  OBVIOUS
<1> QED
  BY <1>2, <1>4, <1>5, <1>6, Zenon DEF PageInv

\* add_vidmap gives a process the video memory and changes nothing else.
LEMMA VidmapKeeps ==
  ASSUME PageInv, boot \in {7, 8}, boot' = 8, NEW p \in Pid,
         page_dir' = [page_dir EXCEPT ![p][33] = VideoPage]
  PROVE  PageInv' /\ SetUp' = SetUp
<1>1. page_dir \in [Pid -> [Entries -> Entry]] /\ {32, 33} \subseteq Entries
  BY DEF PageInv, Entries
<1>2. page_dir' \in [Pid -> [Entries -> Entry]]
  BY <1>1, EntriesTyped
<1>3. ASSUME NEW q \in Pid
      PROVE  /\ Directory(page_dir[q], q)'
             /\ q \in SetUp' <=> q \in SetUp
  <2>1. Directory(page_dir[q], q)
    BY DEF PageInv
  <2>2. CASE q = p
    <3>1. page_dir'[q] = [page_dir[q] EXCEPT ![33] = VideoPage]
      BY <1>1, <2>2
    <3>2. page_dir'[q][32] = page_dir[q][32]
      BY <1>1, <3>1
    <3>3. Directory(page_dir[q], q)'
      BY <1>1, <2>1, <3>1 DEF Directory, Entries
    <3> QED
      BY <3>2, <3>3 DEF SetUp
  <2>3. CASE q # p
    <3>1. page_dir'[q] = page_dir[q]
      BY <1>1, <2>3
    <3> QED
      BY <2>1, <3>1 DEF Directory, SetUp
  <2> QED
    BY <2>2, <2>3
<1>4. SetUp' = SetUp
  BY <1>3 DEF SetUp
<1>5. \A q \in Pid : Directory(page_dir[q], q)'
  BY <1>3
<1>6. boot' > 5
  OBVIOUS
<1> QED
  BY <1>2, <1>4, <1>5, <1>6, Zenon DEF PageInv

\* Steps that leave the directories alone.
LEMMA OthersKeep ==
  ASSUME PageInv, page_dir' = page_dir, boot' > 5 <=> boot > 5
  PROVE  PageInv' /\ SetUp' = SetUp
BY DEF PageInv, Directory, SetUp

\* Steps that also leave the processes and the directory that is loaded alone.
LEMMA AllKeep ==
  ASSUME PageInv, UsedInv, UNCHANGED <<page_dir, live, pcb, cr3>>,
         boot' > 5 <=> boot > 5, boot' = Started => boot = Started
  PROVE  PageInv' /\ UsedInv'
BY OthersKeep DEF UsedInv

\* The page directories are as PageInv has them after every step, and only
\* those that are set up are used.
LEMMA PageStep ==
  ASSUME IntInv, [Next]_vars
  PROVE  PageInv' /\ UsedInv'
<1>0. PageInv /\ BootInv /\ UsedInv
  BY DEF IntInv
<1>1. CASE BootNext
  <2> USE DEF BootStep, process, paging, Started
  <2>1. CASE BootGates \/ BootPic \/ rtc_init \/ pit_init \/ keyboard_init
             \/ pit_set_freq
    BY <1>0, <2>1, AllKeep
       DEF BootGates, BootPic, rtc_init, pit_init, keyboard_init, BootDevice,
           pit_set_freq
  <2>2. CASE BootPaging
    <3>1. page_dir' \in [Pid -> [Entries -> Entry]]
      BY <2>2, EntriesTyped DEF BootPaging, initilize_paging
    <3>2. \A q \in Pid : Directory(page_dir[q], q)'
      BY <2>2 DEF BootPaging, initilize_paging, Directory, Entries
    <3>3. boot' = 6
      BY <2>2 DEF BootPaging
    <3> QED
      BY <3>1, <3>2, <3>3 DEF PageInv, UsedInv
  <2>3. CASE BootShell
    <3>1. /\ boot = 7 /\ boot' = 8 /\ live' = live \cup {0} /\ 0 \in Pid
          /\ pcb' = 0 /\ cr3' = 0 /\ live = {}
          /\ page_dir' = [page_dir EXCEPT ![0][32] = ProgramPage(0)]
      BY <1>0, <2>3, InterruptsAssumption
         DEF BootShell, LaunchShell, setup_paging, Pid, BootInv
    <3>2. PageInv' /\ SetUp' = SetUp \cup {0}
      BY <1>0, <3>1, SetupKeeps
    <3> QED
      BY <3>1, <3>2 DEF UsedInv
  <2> QED
    BY <1>1, <2>1, <2>2, <2>3 DEF BootNext
<1>2. CASE SystemCall \/ vidmap
  <2>1. boot = 8 /\ boot' = 8
    BY <1>0, <1>2, UserEffect DEF core, BootInv, Process, Started
  <2>2. live \cup {pcb, cr3} \subseteq SetUp /\ pcb \in Pid
    BY <1>0, <2>1, UsedPids DEF UsedInv, Started
  <2>3. CASE ExecuteMap
    <3>1. PICK p \in Pid : setup_paging(p)
      BY <2>3 DEF ExecuteMap
    <3>2. PageInv' /\ SetUp' = SetUp \cup {p}
      BY <1>0, <2>1, <3>1, SetupKeeps DEF setup_paging
    <3>3. UNCHANGED <<live, pcb>> /\ cr3' = p
      BY <2>3, <3>1 DEF ExecuteMap, setup_paging
    <3> QED
      BY <2>2, <3>2, <3>3 DEF UsedInv
  <2>4. CASE ExecuteSetPcb \/ ExecutePublish \/ HaltFree \/ HaltReparent
             \/ HaltRepage
    <3>1. /\ page_dir' = page_dir
          /\ live' \cup {pcb', cr3'} \subseteq SetUp
      BY <2>2, <2>4 DEF ExecuteSetPcb, ExecutePublish, HaltFree, HaltReparent,
                        HaltRepage, update_paging, paging
    <3>2. PageInv' /\ SetUp' = SetUp
      BY <1>0, <2>1, <3>1, OthersKeep
    <3> QED
      BY <3>1, <3>2 DEF UsedInv
  <2>5. CASE vidmap
    <3>1. /\ page_dir' = [page_dir EXCEPT ![pcb][33] = VideoPage]
          /\ cr3' = pcb /\ UNCHANGED <<live, pcb>>
      BY <2>5 DEF vidmap, add_vidmap
    <3>2. PageInv' /\ SetUp' = SetUp
      BY <1>0, <2>1, <2>2, <3>1, VidmapKeeps
    <3> QED
      BY <2>2, <3>1, <3>2 DEF UsedInv
  <2> QED
    BY <1>2, <2>3, <2>4, <2>5 DEF SystemCall
<1>3. CASE PitTick \/ RtcTick
  BY <1>0, <1>3, AllKeep DEF PitTick, RtcTick, Asks, core, process, paging
<1>4. CASE Typing
  BY <1>0, <1>4, AllKeep, TypingEffect DEF core, process, paging
<1>5. CASE \E irq \in Line : Take(irq)
  BY <1>0, <1>5, AllKeep DEF Take, process, paging
<1>6. CASE ReadMasks \/ ReadPort \/ pit_handlerHangs \/ rtc_handler
  BY <1>0, <1>6, AllKeep
     DEF ReadMasks, ReadPort, pit_handlerHangs, rtc_handler, Iret, process, paging
<1>7. CASE KeyboardStep
  BY <1>0, <1>7, AllKeep DEF KeyboardStep, Iret, core, process, paging
<1>8. CASE \E t \in Term : screenChange(t)
  <2> PICK t \in Term : screenChange(t)
    BY <1>8
  <2>1. boot = 8 /\ boot' = 8
    BY <1>0 DEF screenChange, Iret, BootInv, Started, Handlers
  <2>2. CASE t \in numShells \/ live = Pid
    BY <1>0, <2>1, <2>2, AllKeep DEF screenChange, process, paging
  <2>3. CASE ~(t \in numShells \/ live = Pid)
    <3>1. PICK p \in Pid : LaunchShell(p, t)
      BY <2>3 DEF screenChange
    <3>2. PageInv' /\ SetUp' = SetUp \cup {p}
      BY <1>0, <2>1, <3>1, SetupKeeps DEF LaunchShell, setup_paging
    <3>3. live' = live \cup {p} /\ pcb' = p /\ cr3' = p
      BY <3>1 DEF LaunchShell, setup_paging
    <3>4. live \subseteq SetUp
      BY <1>0, <2>1 DEF UsedInv, Started
    <3> QED
      BY <3>2, <3>3, <3>4 DEF UsedInv
  <2> QED
    BY <2>2, <2>3
<1>9. CASE pit_handler
  <2>1. UNCHANGED <<page_dir, live, boot>>
    BY <1>9 DEF pit_handler, Iret, update_paging, paging
  <2>2. PageInv' /\ SetUp' = SetUp
    BY <1>0, <2>1, OthersKeep
  <2>3. \/ UNCHANGED <<pcb, cr3>>
        \/ pcb' \in live /\ cr3' \in {cr3, pcb'}
    BY <1>9 DEF pit_handler, update_paging, paging
  <2> QED
    BY <1>0, <2>1, <2>2, <2>3 DEF UsedInv
<1>10. CASE UNCHANGED vars
  BY <1>0, <1>10, AllKeep DEF vars, core, process, paging
<1> QED
  BY <1>1, <1>2, <1>3, <1>4, <1>5, <1>6, <1>7, <1>8, <1>9, <1>10 DEF Next

-----------------------------------------------------------------------------
\* The invariant holds when the machine is started.
LEMMA InitInv ==
  ASSUME Init
  PROVE  IntInv
<1>1. PicInv
  BY DEF Init, PicInv, Asking, Line, Handlers, KeyboardInit, PIT_IRQ_LINE
<1>2. BootInv
  <2>1. /\ boot = 0 /\ iflag = FALSE /\ regC = FALSE /\ cr0 = FALSE
        /\ cpu = "entry" /\ under = "entry" /\ live = {} /\ numShells = {}
        /\ pcb = None /\ cr3 = None /\ irr \subseteq {0}
    BY DEF Init, PIT_IRQ_LINE
  <2>2. iflag \in BOOLEAN /\ regC \in BOOLEAN /\ cr0 \in BOOLEAN
    BY <2>1
  <2>3. live \subseteq Pid /\ numShells \subseteq Term
    BY <2>1
  <2>4. boot \in 0 .. Started /\ boot < Started /\ boot # Started
    BY <2>1 DEF Started
  <2>5. KB_IR_LINE \notin irr
    BY <2>1 DEF KB_IR_LINE
  <2> QED
    BY <2>1, <2>2, <2>3, <2>4, <2>5, Zenon DEF BootInv, Handlers, Process
<1>3. PageInv /\ UsedInv
  BY EntriesTyped DEF Init, PageInv, UsedInv, SetUp, Entries, Started
<1> QED
  BY <1>1, <1>2, <1>3 DEF IntInv

\* The machine keeps the inductive invariant, with a tick or a key between any
\* two steps of sys_execute and sys_halt.
THEOREM InterruptsInvariant == Spec => []IntInv
<1>1. IntInv /\ [Next]_vars => IntInv'
  BY PicStep, BootStepInv, PageStep DEF IntInv
<1> QED
  BY <1>1, InitInv, PTL DEF Spec

\* Every variable stays in its range, and handlers do not nest.
THEOREM InterruptsTyped == Spec => []InterruptsTypeOK
<1>1. IntInv => InterruptsTypeOK
  <2> SUFFICES ASSUME IntInv PROVE InterruptsTypeOK
    OBVIOUS
  <2>1. irr \subseteq Line /\ isr \subseteq Line /\ imr \subseteq Line
    BY DEF IntInv, PicInv, Asking, Line, PIT_IRQ_LINE, KB_IR_LINE,
           RTC_IRQ_LINE, Cascade
  <2>2. pcb \in Pid \cup {None} /\ cr3 \in Pid \cup {None}
    BY UsedPids DEF IntInv, BootInv, Started
  <2> QED
    BY <2>1, <2>2 DEF IntInv, PicInv, BootInv, PageInv, InterruptsTypeOK
<1> QED
  BY <1>1, InterruptsInvariant, PTL

\* Whenever interrupts are enabled, none is in service.
THEOREM NothingInService == Spec => []InServiceDrained
<1>1. IntInv => InServiceDrained
  BY DEF IntInv, PicInv, InServiceDrained, Handlers
<1> QED
  BY <1>1, InterruptsInvariant, PTL

\* Every interrupt arrives at the handler of its device.
THEOREM GatesAlwaysReady == Spec => []GatesReady
<1>1. IntInv => GatesReady
  BY DEF IntInv, PicInv, GatesReady, Handlers
<1> QED
  BY <1>1, InterruptsInvariant, PTL

\* The frame of a program lies between the kernel and the terminals' pages,
\* and two programs have different ones.
LEMMA FramesApart ==
  ASSUME NEW p \in 0 .. 6
  PROVE  /\ ProgramPage(p).user
         /\ \A e \in {NotPresent, VideoPage, KernelPage, TermPages} :
              Apart(ProgramPage(p), e)
         /\ \A q \in 0 .. 6 \ {p} : Apart(ProgramPage(p), ProgramPage(q))
<1>1. ASSUME NEW r \in 0 .. 6
      PROVE  /\ ProgramPage(r).from = 8192 + 4096 * r
             /\ ProgramPage(r).size = 4096 /\ ProgramPage(r).user = TRUE
  BY <1>1 DEF ProgramPage, Maps, MB
<1>2. \A e \in {NotPresent, VideoPage, KernelPage, TermPages} :
        /\ e.from \in Nat /\ e.size \in Nat
        /\ e.from + e.size <= 8192 \/ 36864 <= e.from
  BY DEF NotPresent, VideoPage, KernelPage, TermPages, Maps, MB, VIDEO,
         EMPTY_PHYS_MEM
<1>3. ASSUME NEW e \in {NotPresent, VideoPage, KernelPage, TermPages}
      PROVE  Apart(ProgramPage(p), e)
  BY <1>1, <1>2 DEF Apart
<1>4. ASSUME NEW q \in 0 .. 6 \ {p}
      PROVE  Apart(ProgramPage(p), ProgramPage(q))
  BY <1>1 DEF Apart
<1>5. ProgramPage(p).user
  BY DEF ProgramPage, Maps
<1> QED
  BY <1>3, <1>4, <1>5

\* The memory of a program is its own, and a process runs under a directory
\* that has one, wherever it was interrupted.
THEOREM MemoryAlwaysApart == Spec => []MemoryApart
<1>1. IntInv => MemoryApart
  <2> SUFFICES ASSUME IntInv PROVE MemoryApart
    OBVIOUS
  <2>1. cpu \in {"user", "tRead"} => cr0 /\ cr3 \in SetUp
    BY DEF IntInv, BootInv, UsedInv, Process
  <2>2. ASSUME NEW p \in SetUp
        PROVE  /\ p \in 0 .. 6
               /\ Directory(page_dir[p], p)
               /\ page_dir[p][32] = ProgramPage(p)
    <3>1. p \in Pid /\ page_dir[p][32] # NotPresent
      BY DEF SetUp
    <3>2. boot > 5
      BY <3>1 DEF IntInv, PageInv
    <3> QED
      BY <3>1, <3>2, InterruptsAssumption DEF IntInv, PageInv, Directory, Pid
  <2>3. ASSUME NEW p \in SetUp
        PROVE  /\ page_dir[p][32].user /\ ~page_dir[p][1].user
               /\ \A e \in Entries \ {32} :
                    Apart(page_dir[p][32], page_dir[p][e])
               /\ \A q \in SetUp \ {p} :
                    Apart(page_dir[p][32], page_dir[q][32])
    <3>1. /\ p \in 0 .. 6 /\ Directory(page_dir[p], p)
          /\ page_dir[p][32] = ProgramPage(p)
      BY <2>2
    <3>2. page_dir[p][32].user
      BY <3>1, FramesApart
    <3>3. page_dir[p][1].user = FALSE
      BY <3>1 DEF Directory, KernelPage, Maps
    <3>4. ASSUME NEW e \in Entries \ {32}
          PROVE  Apart(page_dir[p][32], page_dir[p][e])
      <4>1. page_dir[p][e] \in {NotPresent, VideoPage, KernelPage, TermPages}
        BY <3>1 DEF Directory, Entries
      <4> QED
        BY <3>1, <4>1, FramesApart
    <3>5. ASSUME NEW q \in SetUp \ {p}
          PROVE  Apart(page_dir[p][32], page_dir[q][32])
      <4>1. q \in 0 .. 6 \ {p} /\ page_dir[q][32] = ProgramPage(q)
        BY <2>2
      <4> QED
        BY <3>1, <4>1, FramesApart
    <3> QED
      BY <3>2, <3>3, <3>4, <3>5
  <2> QED
    BY <2>1, <2>3 DEF MemoryApart
<1> QED
  BY <1>1, InterruptsInvariant, PTL

-----------------------------------------------------------------------------
(***************************************************************************)
(* The keyboard: what the handler has done and what the bytes it has still *)
(* to deal with will do is what the keyboard that is meant has done.       *)
(***************************************************************************)

\* what the handler can be noted to have done
Noted == {"a", "l", ";", "A", "L", ":", Undefined, "erase", "clear", "F1",
          "F2", "F3"}

\* the keys that the handler takes for held
Mode ==
  CASE kb \in {"control", "clear", "alt"} -> kb
    [] kb \in {"again", "shift", "reread"} -> held
    [] OTHER -> "plain"

Base == [mode |-> Mode, caps |-> caps, text |-> text]

\* A byte has not had its effect yet: it was not read, or it was read by a
\* branch that leaves it to the next interrupt.
Pending ==
  \/ kb \in {"scan", "reread"}
  \/ kb = Idle /\ KB_IR_LINE \in irr
  \/ kb \in Waiting /\ queue # <<>>

Now == IF Pending THEN Strike(Base, Inb) ELSE Base

Meant == [mode |-> "plain", caps |-> locked, text |-> expect]

\* What the handler relies on between its reads, while bytes come one at a
\* time.
Reading ==
  /\ caps \in BOOLEAN /\ locked \in BOOLEAN
  /\ port \in Bytes /\ typing \in Seq(Bytes) /\ text \in Seq(Noted)
  /\ queue \in Seq(Bytes) /\ Len(queue) <= 1
  /\ kb \in Waiting \cup {Idle, "scan", "again", "reread"} \cup Range(FKeys)
  /\ queue # <<>> => \/ kb = "scan"
                     \/ kb \in Waiting \cup {Idle} /\ KB_IR_LINE \in irr
  /\ kb = "scan" => KB_IR_LINE \notin irr
  /\ kb \in {"again", "shift", "reread"} => held \in Shifts
  /\ kb \in {"again", "reread"} => port # Byte(held, TRUE)
  /\ kb = "reread" => caps
  /\ kb = "clear" => port # Byte("ctrl", TRUE)
  /\ kb \in Range(FKeys) => port = Byte(kb, FALSE)

KeyInv == ~hurried => Reading /\ Strikes(Now, typing) = Meant

\* The function behind Strikes exists, and goes byte by byte.
LEMMA StruckLoop ==
  ASSUME NEW s, NEW codes, Len(codes) \in Nat
  PROVE  /\ Struck(s, codes)[0] = s
         /\ \A n \in 1 .. Len(codes) :
              Struck(s, codes)[n] = Strike(Struck(s, codes)[n - 1], codes[n])
<1> DEFINE C(t, n) == Strike(t, codes[n])
           N == Len(codes)
           S == {n \in Nat :
                   \E g : g = [i \in 0 .. n |->
                                 IF i = 0 THEN s ELSE C(g[i - 1], i)]}
<1> HIDE DEF C
<1>1. 0 \in S
  <2>1. [i \in 0 .. 0 |-> s]
          = [i \in 0 .. 0 |->
               IF i = 0 THEN s ELSE C([j \in 0 .. 0 |-> s][i - 1], i)]
    OBVIOUS
  <2> QED
    BY <2>1
<1>2. ASSUME NEW n \in Nat, n \in S
      PROVE  n + 1 \in S
  <2>1. PICK g : g = [i \in 0 .. n |-> IF i = 0 THEN s ELSE C(g[i - 1], i)]
    BY <1>2
  <2> DEFINE h == [i \in 0 .. n + 1 |->
                     IF i <= n THEN g[i] ELSE C(g[n], n + 1)]
  <2>2. h = [i \in 0 .. n + 1 |-> IF i = 0 THEN s ELSE C(h[i - 1], i)]
    BY <2>1
  <2>3. n + 1 \in Nat
    OBVIOUS
  <2> HIDE DEF h
  <2> QED
    BY <2>2, <2>3
<1>3. N \in S
  <2> HIDE DEF S
  <2> QED
    BY <1>1, <1>2, SetInduction
<1>4. \E g : g = [i \in 0 .. N |-> IF i = 0 THEN s ELSE C(g[i - 1], i)]
  BY <1>3
<1> DEFINE f == Struck(s, codes)
<1>5. f = [i \in 0 .. N |-> IF i = 0 THEN s ELSE C(f[i - 1], i)]
  BY <1>4 DEF Struck, C
<1> HIDE DEF f, N
<1>6. N \in Nat
  BY DEF N
<1>7. f[0] = s /\ \A i \in 1 .. N : f[i] = C(f[i - 1], i)
  BY <1>5, <1>6
<1> QED
  BY <1>7 DEF f, N, C

\* Nothing typed, nothing done.
LEMMA StrikesNone ==
  ASSUME NEW s
  PROVE  Strikes(s, <<>>) = s
BY StruckLoop DEF Strikes

\* The first byte first.
LEMMA StrikesFirst ==
  ASSUME NEW s, NEW codes \in Seq(Bytes), codes # <<>>
  PROVE  Strikes(s, codes) = Strikes(Strike(s, Head(codes)), Tail(codes))
<1> DEFINE N == Len(codes)
           rest == Tail(codes)
           t == Strike(s, Head(codes))
           f == Struck(s, codes)
           g == Struck(t, rest)
           S == {n \in Nat : n <= N - 1 => g[n] = f[n + 1]}
<1>1. /\ N \in Nat \ {0} /\ Len(rest) = N - 1 /\ Head(codes) = codes[1]
      /\ \A n \in 1 .. N - 1 : rest[n] = codes[n + 1]
  OBVIOUS
<1> HIDE DEF rest, N
<1>2. f[0] = s /\ \A n \in 1 .. N : f[n] = Strike(f[n - 1], codes[n])
  BY <1>1, StruckLoop DEF N
<1>3. g[0] = t /\ \A n \in 1 .. N - 1 : g[n] = Strike(g[n - 1], rest[n])
  <2>1. Len(rest) \in Nat
    BY <1>1
  <2> HIDE DEF t
  <2> QED
    BY <1>1, <2>1, StruckLoop
<1> HIDE DEF f, g
<1>4. 0 \in S
  <2>1. f[1] = Strike(f[0], codes[1])
    BY <1>1, <1>2
  <2> QED
    BY <1>1, <1>2, <1>3, <2>1
<1>5. ASSUME NEW n \in Nat, n \in S
      PROVE  n + 1 \in S
  <2>1. CASE n + 1 <= N - 1
    <3>1. n + 1 \in 1 .. N - 1 /\ n + 2 \in 1 .. N /\ n <= N - 1
          /\ (n + 1) - 1 = n /\ (n + 2) - 1 = n + 1 /\ (n + 1) + 1 = n + 2
      BY <1>1, <2>1
    <3>2. g[n + 1] = Strike(g[n], rest[n + 1])
      BY <1>3, <3>1
    <3>3. f[n + 2] = Strike(f[n + 1], codes[n + 2])
      BY <1>2, <3>1
    <3>4. rest[n + 1] = codes[n + 2] /\ g[n] = f[n + 1]
      BY <1>1, <1>5, <3>1
    <3>5. g[n + 1] = f[(n + 1) + 1]
      BY <3>1, <3>2, <3>3, <3>4
    <3> QED
      BY <3>5
  <2>2. CASE ~(n + 1 <= N - 1)
    BY <2>2
  <2> QED
    BY <2>1, <2>2
<1>6. N - 1 \in S
  <2>1. N - 1 \in Nat
    BY <1>1
  <2> HIDE DEF S
  <2> QED
    BY <1>4, <1>5, <2>1, SetInduction
<1>7. g[N - 1] = f[N]
  BY <1>1, <1>6
<1> QED
  BY <1>1, <1>7 DEF f, g, N, rest, Strikes

\* The letters of the tables.
LEMMA Letters ==
  ASSUME NEW c
  PROVE  IsLetter(c) <=> c \in {"a", "l"}
  BY DEF IsLetter, LowerCase

\* The tables of the handler have the characters that are meant.
LEMMA Characters ==
  ASSUME caps \in BOOLEAN, NEW key \in Key
  PROVE  /\ Shifted(scan2Let(key)) = Character(key, TRUE, caps)
         /\ Character(key, TRUE, caps) \in Noted
         /\ Character(key, FALSE, caps) \in Noted
         /\ scan2Let(key) = Undefined <=> Character(key, FALSE, caps) = Undefined
         /\ scan2Let(key) # Undefined =>
              Plain(scan2Let(key)) = Character(key, FALSE, caps)
<1>1. \A c : IsLetter(c) <=> c \in {"a", "l"}
  BY Letters
<1>2. CAPCHANGE("a") = "A" /\ CAPCHANGE("l") = "L"
  <2>1. (CHOOSE i \in DOMAIN LowerCase : LowerCase[i] = "a") = 1
    BY DEF LowerCase
  <2>2. (CHOOSE i \in DOMAIN LowerCase : LowerCase[i] = "l") = 2
    BY DEF LowerCase
  <2>3. /\ CAPCHANGE("a")
             = UpperCase[CHOOSE i \in DOMAIN LowerCase : LowerCase[i] = "a"]
        /\ CAPCHANGE("l")
             = UpperCase[CHOOSE i \in DOMAIN LowerCase : LowerCase[i] = "l"]
    BY Zenon DEF CAPCHANGE
  <2>4. UpperCase[1] = "A" /\ UpperCase[2] = "L"
    BY DEF UpperCase
  <2> QED
    BY <2>1, <2>2, <2>3, <2>4, Zenon
<1>3. /\ Character(key, TRUE, TRUE) = CASE key \in {"a", "l"} -> key
                                        [] key = ";" -> ":"
                                        [] OTHER -> Undefined
      /\ Character(key, FALSE, FALSE) = CASE key \in {"a", "l"} -> key
                                          [] key = ";" -> ";"
                                          [] OTHER -> Undefined
      /\ Character(key, TRUE, FALSE) = CASE key = "a" -> "A"
                                         [] key = "l" -> "L"
                                         [] key = ";" -> ":"
                                         [] OTHER -> Undefined
      /\ Character(key, FALSE, TRUE) = CASE key = "a" -> "A"
                                         [] key = "l" -> "L"
                                         [] key = ";" -> ";"
                                         [] OTHER -> Undefined
  BY <1>1, <1>2 DEF Character
<1>4. CASE caps = TRUE
  <2>1. Shifted(scan2Let(key)) = Character(key, TRUE, TRUE)
    BY <1>1, <1>3, <1>4 DEF Shifted, scan2Let, Undefined, getShift
  <2>2. scan2Let(key) # Undefined =>
          Plain(scan2Let(key)) = Character(key, FALSE, TRUE)
    BY <1>1, <1>2, <1>3, <1>4 DEF Plain, scan2Let
  <2>3. /\ Character(key, TRUE, TRUE) \in Noted
        /\ Character(key, FALSE, TRUE) \in Noted
    BY <1>3 DEF Noted
  <2>4. scan2Let(key) = Undefined <=> key \notin {"a", "l", ";"}
    BY DEF scan2Let, Undefined
  <2>5. Character(key, FALSE, TRUE) = Undefined <=> key \notin {"a", "l", ";"}
    BY <1>3 DEF Undefined
  <2> QED
    BY <1>4, <2>1, <2>2, <2>3, <2>4, <2>5, Zenon
<1>5. CASE caps = FALSE
  <2>1. Shifted(scan2Let(key)) = Character(key, TRUE, FALSE)
    BY <1>1, <1>2, <1>3, <1>5 DEF Shifted, scan2Let, Undefined, getShift
  <2>2. scan2Let(key) # Undefined =>
          Plain(scan2Let(key)) = Character(key, FALSE, FALSE)
    BY <1>1, <1>3, <1>5 DEF Plain, scan2Let
  <2>3. /\ Character(key, TRUE, FALSE) \in Noted
        /\ Character(key, FALSE, FALSE) \in Noted
    BY <1>3 DEF Noted
  <2>4. scan2Let(key) = Undefined <=> key \notin {"a", "l", ";"}
    BY DEF scan2Let, Undefined
  <2>5. Character(key, FALSE, FALSE) = Undefined <=> key \notin {"a", "l", ";"}
    BY <1>3 DEF Undefined
  <2> QED
    BY <1>5, <2>1, <2>2, <2>3, <2>4, <2>5, Zenon
<1> QED
  BY <1>4, <1>5

\* Nothing done, nothing added.
LEMMA NoText ==
  ASSUME NEW t \in Seq(Noted)
  PROVE  t \o <<>> = t
  OBVIOUS

\* Reading one byte at a time: the byte comes from the queue, if there is one,
\* and no new request is made.
LEMMA Read ==
  ASSUME Reading, AfterInb
  PROVE  /\ Inb \in Bytes /\ port' = Inb /\ queue' = <<>> /\ irr' = irr
         /\ queue = <<>> => Inb = port
<1>1. queue \in Seq(Bytes) /\ Len(queue) <= 1 /\ port \in Bytes
  BY DEF Reading
<1>2. queue # <<>> => Head(queue) \in Bytes /\ Tail(queue) = <<>>
  BY <1>1
<1> QED
  BY <1>1, <1>2 DEF AfterInb, Inb

\* The keys that change the screen.
LEMMA FNames == Range(FKeys) = {"F1", "F2", "F3"}
<1>1. DOMAIN FKeys = {1, 2, 3}
  BY DEF FKeys
<1>2. FKeys[1] = "F1" /\ FKeys[2] = "F2" /\ FKeys[3] = "F3"
  BY DEF FKeys
<1> QED
  BY <1>1, <1>2 DEF Range

\* After a byte was read the queue is empty, and what Reading says of the
\* handler is what the place it is at requires of the byte and the held key.
LEMMA ReadingIs ==
  ASSUME caps' \in BOOLEAN, locked' \in BOOLEAN, port' \in Bytes,
         typing' \in Seq(Bytes), text' \in Seq(Noted), queue' = <<>>,
         \/ kb' \in {Idle, "control", "alt"}
         \/ kb' = "clear" /\ port' # Byte("ctrl", TRUE)
         \/ kb' = "shift" /\ held' \in Shifts
         \/ kb' = "again" /\ held' \in Shifts /\ port' # Byte(held', TRUE)
         \/ kb' = "reread" /\ held' \in Shifts /\ port' # Byte(held', TRUE)
              /\ caps'
         \/ kb' \in Range(FKeys) /\ port' = Byte(kb', FALSE)
  PROVE  Reading'
<1>1. queue' \in Seq(Bytes) /\ Len(queue') <= 1
  OBVIOUS
<1>2. /\ kb' \in Waiting \cup {Idle, "scan", "again", "reread"} \cup Range(FKeys)
      /\ kb' # "scan"
      /\ kb' \in {"again", "shift", "reread"} => held' \in Shifts
  BY FNames DEF Waiting, Idle
<1>3. /\ kb' \in {"again", "reread"} => port' # Byte(held', TRUE)
      /\ kb' = "reread" => caps'
      /\ kb' = "clear" => port' # Byte("ctrl", TRUE)
      /\ kb' \in Range(FKeys) => port' = Byte(kb', FALSE)
  BY FNames DEF Idle, Byte
<1> QED
  BY <1>1, <1>2, <1>3, Zenon DEF Reading

\* A release, or a key without a character or a meaning, changes nothing when
\* no other key is held.
LEMMA Harmless ==
  ASSUME NEW s, NEW b \in Bytes,
         s = [mode |-> "plain", caps |-> s.caps, text |-> s.text],
         s.text \in Seq(Noted),
         b.up \/ b.key \in Range(FKeys)
  PROVE  Strike(s, b) = s
<1>1. Strike(s, b) = PlainStrike(s, b)
  <2>1. s.mode = "plain"
    OBVIOUS
  <2> QED
    BY <2>1, Zenon DEF Strike, Shifts
<1>2. CASE b.up
  BY <1>1, <1>2, NoText DEF PlainStrike, Does
<1>3. CASE ~b.up /\ b.key \in Range(FKeys)
  <2>1. b.key \in {"F1", "F2", "F3"}
    BY <1>3, FNames
  <2>2. Character(b.key, FALSE, s.caps) = Undefined
    <3>1. ~IsLetter(b.key) /\ b.key # ";"
      BY <2>1, Letters
    <3> QED
      BY <3>1 DEF Character
  <2>3. PlainStrike(s, b) = Does(s, "plain", <<>>)
    BY <1>3, <2>1, <2>2 DEF PlainStrike, Shifts
  <2> QED
    BY <1>1, <2>3, NoText DEF Does
<1> QED
  BY <1>2, <1>3

\* It is enough that a step of the handler leaves Now as it is.
LEMMA SameNow ==
  ASSUME KeyInv, UNCHANGED typist, ~hurried /\ Reading => Reading' /\ Now' = Now
  PROVE  KeyInv'
BY DEF KeyInv, typist, Meant

\* Steps that have nothing to do with the keyboard.
LEMMA KeysQuiet ==
  ASSUME KeyInv, UNCHANGED keys, KB_IR_LINE \in irr' <=> KB_IR_LINE \in irr
  PROVE  KeyInv'
<1>1. UNCHANGED typist
  BY DEF keys, typist
<1>2. ASSUME Reading
      PROVE  Reading'
  BY <1>2 DEF Reading, keys
<1>3. Now' = Now
  <2>1. Base' = Base /\ Inb' = Inb /\ (Pending' <=> Pending)
    BY DEF Base, Mode, Inb, Pending, keys
  <2> QED
    BY <2>1 DEF Now
<1> QED
  BY <1>1, <1>2, <1>3, SameNow

\* The interrupt of the keyboard is taken.
LEMMA TakeKeeps ==
  ASSUME KeyInv, kb = Idle, kb' = "scan", KB_IR_LINE \in irr,
         irr' = irr \ {KB_IR_LINE},
         UNCHANGED <<queue, port, caps, held, text, typist>>
  PROVE  KeyInv'
<1>1. ASSUME Reading
      PROVE  Reading'
  BY <1>1, FNames DEF Reading, Waiting, Idle, typist
<1>2. Now' = Now
  <2>1. Base' = Base /\ Inb' = Inb
    BY DEF Base, Mode, Inb, Idle
  <2>2. Pending /\ Pending'
    BY DEF Pending
  <2> QED
    BY <2>1, <2>2 DEF Now
<1> QED
  BY <1>1, <1>2, SameNow

\* tRead reads the byte itself: its interrupt is still to come, and repeats
\* it.
LEMMA PortKeeps ==
  ASSUME Reading, kb = Idle, queue # <<>>, AfterInb,
         UNCHANGED <<caps, kb, held, text, typing, locked>>
  PROVE  Reading' /\ Now' = Now
<1>1. /\ Inb \in Bytes /\ port' = Inb /\ queue' = <<>> /\ irr' = irr
  BY Read
<1>2. KB_IR_LINE \in irr
  BY DEF Reading, Idle, Waiting
<1>3. Reading'
  BY <1>1, ReadingIs DEF Reading
<1>4. Base' = Base /\ Inb' = Inb /\ Pending /\ Pending'
  BY <1>1, <1>2 DEF Base, Mode, Inb, Pending
<1> QED
  BY <1>3, <1>4 DEF Now

\* What is noted is added to what was.
LEMMA Noting ==
  ASSUME ~hurried, text \in Seq(Noted), NEW did \in Seq(Noted), Note(did)
  PROVE  text' = text \o did /\ text' \in Seq(Noted)
BY DEF Note

\* With nothing held, the handler does with a byte what is meant.
LEMMA ScanKeeps ==
  ASSUME ~hurried, Reading, Scan
  PROVE  Reading' /\ Now' = Now
<1> DEFINE b == Inb
           c == scan2Let(b.key)
           did == IF c = Undefined THEN <<>> ELSE <<Plain(c)>>
<1>1. /\ b \in Bytes /\ port' = b /\ queue' = <<>> /\ irr' = irr
      /\ kb = "scan" /\ KB_IR_LINE \notin irr
      /\ UNCHANGED <<typing, locked>>
      /\ caps \in BOOLEAN /\ locked \in BOOLEAN /\ typing \in Seq(Bytes)
      /\ text \in Seq(Noted)
  BY Read DEF Scan, Reading, typist
<1>2. b.key \in Key /\ b.up \in BOOLEAN /\ b = Byte(b.key, b.up)
  BY <1>1 DEF Bytes, Byte
<1>3. Base = [mode |-> "plain", caps |-> caps, text |-> text]
  BY <1>1 DEF Base, Mode
<1>4. Now = PlainStrike(Base, b)
  <2>1. Base.mode = "plain"
    BY <1>3
  <2>2. Strike(Base, b) = PlainStrike(Base, b)
    BY <2>1, Zenon DEF Strike, Shifts
  <2>3. Pending
    BY <1>1 DEF Pending
  <2> QED
    BY <2>2, <2>3 DEF Now
<1>5. /\ caps' = IF b = Byte("caps", FALSE) THEN ~caps ELSE caps
      /\ held' = IF b.key \in Shifts THEN b.key ELSE "none"
      /\ CASE b.up \/ b.key = "caps" -> Ends(<<>>)
           [] b = Byte("ctrl", FALSE) -> Goes("control", <<>>)
           [] b = Byte("alt", FALSE) -> Goes("alt", <<>>)
           [] b = Byte("bksp", FALSE) -> Ends(<<"erase">>)
           [] b \in {Byte("lshift", FALSE), Byte("rshift", FALSE)} ->
                Goes("again", <<>>)
           [] OTHER -> Ends(did)
  BY DEF Scan, Shifts
<1>6. /\ Base.caps = caps /\ Base.text = text
      /\ c = Undefined <=> Character(b.key, FALSE, caps) = Undefined
      /\ c # Undefined => Plain(c) = Character(b.key, FALSE, caps)
      /\ Character(b.key, FALSE, caps) \in Noted
  BY <1>1, <1>2, <1>3, Characters
<1> HIDE DEF b, c
<1>7. \A d, m : Does(Base, m, d) = [mode |-> m, caps |-> caps, text |-> text \o d]
  BY <1>6 DEF Does
<1>8. ASSUME NEW m, NEW d \in Seq(Noted), Mode' = m, caps' = caps,
             kb' \in {Idle, "control", "alt", "again"},
             Note(d), Now = Does(Base, m, d),
             kb' = "again" => held' \in Shifts /\ ~b.up
      PROVE  Reading' /\ Now' = Now
  <2>1. text' = text \o d /\ text' \in Seq(Noted)
    BY <1>1, <1>8, Noting
  <2>2. Reading'
    <3>1. b.up = FALSE => b # Byte(held', TRUE)
      BY DEF Byte
    <3> QED
      BY <1>1, <1>2, <1>8, <2>1, <3>1, ReadingIs
  <2>3. ~Pending'
    BY <1>1, <1>8 DEF Pending, Idle, Waiting
  <2>4. Now' = [mode |-> m, caps |-> caps, text |-> text \o d]
    BY <1>8, <2>1, <2>3 DEF Now, Base
  <2> QED
    BY <1>7, <1>8, <2>2, <2>4
<1>9. <<>> \in Seq(Noted) /\ <<"erase">> \in Seq(Noted) /\ did \in Seq(Noted)
  <2>1. "erase" \in Noted /\ (c # Undefined => Plain(c) \in Noted)
    BY <1>6 DEF Noted
  <2> QED
    BY <2>1
<1>10. \A to, d : (Goes(to, d) => kb' = to /\ Note(d))
                  /\ (Ends(d) => kb' = Idle /\ Note(d))
  BY DEF Goes, Ends
<1>11. CASE b.up
  <2>1. Ends(<<>>) /\ caps' = caps
    BY <1>5, <1>11 DEF Byte
  <2>2. Now = Does(Base, "plain", <<>>)
    BY <1>4, <1>11 DEF PlainStrike
  <2>3. kb' = Idle /\ Note(<<>>) /\ Mode' = "plain"
    BY <1>10, <2>1 DEF Mode, Idle
  <2> QED
    BY <1>8, <1>9, <2>1, <2>2, <2>3 DEF Idle
<1>12. CASE ~b.up /\ b.key = "caps"
  <2>1. Ends(<<>>) /\ caps' = ~caps
    BY <1>2, <1>5, <1>12 DEF Byte
  <2>2. Now = [mode |-> "plain", caps |-> ~caps, text |-> text]
    <3>1. Now = [mode |-> "plain", caps |-> ~Base.caps, text |-> Base.text]
      BY <1>4, <1>12, Zenon DEF PlainStrike, Toggles, Shifts
    <3> QED
      BY <1>6, <3>1, Zenon
  <2>3. kb' = Idle /\ text' = text /\ Mode' = "plain"
    BY <1>1, <1>9, <1>10, <2>1, Noting, NoText DEF Mode, Idle
  <2>4. Reading'
    BY <1>1, <2>1, <2>3, FNames DEF Reading, Waiting, Idle
  <2>5. ~Pending'
    BY <1>1, <2>3 DEF Pending, Idle, Waiting
  <2> QED
    BY <2>1, <2>2, <2>3, <2>4, <2>5 DEF Now, Base
<1>13. CASE ~b.up /\ b.key \in {"ctrl", "alt"} \cup Shifts
  <2>1. PICK to \in {"control", "alt", "again"} :
          /\ Goes(to, <<>>)
          /\ b.key = "ctrl" => to = "control"
          /\ b.key = "alt" => to = "alt"
          /\ b.key \in Shifts => to = "again"
    BY <1>2, <1>5, <1>13 DEF Byte, Shifts
  <2>2. caps' = caps /\ (b.key \in Shifts => held' = b.key)
    BY <1>5, <1>13 DEF Byte, Shifts
  <2>3. kb' = to /\ Note(<<>>)
    BY <1>10, <2>1
  <2> DEFINE m == IF b.key = "ctrl" THEN "control" ELSE b.key
  <2>4. Mode' = m
    BY <1>13, <2>1, <2>2, <2>3 DEF Mode, Shifts
  <2>5. Now = Does(Base, m, <<>>)
    BY <1>4, <1>13 DEF PlainStrike, Shifts
  <2>6. kb' = "again" => held' \in Shifts /\ ~b.up
    BY <1>13, <2>1, <2>2, <2>3 DEF Shifts
  <2> HIDE DEF m
  <2> QED
    BY <1>8, <1>9, <2>2, <2>3, <2>4, <2>5, <2>6
<1>14. CASE ~b.up /\ b.key = "bksp"
  <2>1. Ends(<<"erase">>) /\ caps' = caps
    BY <1>2, <1>5, <1>14 DEF Byte
  <2>2. Now = Does(Base, "plain", <<"erase">>)
    BY <1>4, <1>14 DEF PlainStrike, Shifts
  <2>3. kb' = Idle /\ Note(<<"erase">>) /\ Mode' = "plain"
    BY <1>10, <2>1 DEF Mode, Idle
  <2> QED
    BY <1>8, <1>9, <2>1, <2>2, <2>3 DEF Idle
<1>15. CASE ~b.up /\ b.key \notin {"caps", "ctrl", "alt", "bksp"} \cup Shifts
  <2>1. Ends(did) /\ caps' = caps
    BY <1>2, <1>5, <1>15 DEF Byte, Shifts
  <2>2. Now = Does(Base, "plain", did)
    BY <1>4, <1>6, <1>15 DEF PlainStrike, Shifts
  <2>3. kb' = Idle /\ Note(did) /\ Mode' = "plain"
    BY <1>10, <2>1 DEF Mode, Idle
  <2> HIDE DEF did
  <2> QED
    BY <1>8, <1>9, <2>1, <2>2, <2>3 DEF Idle
<1> QED
  BY <1>11, <1>12, <1>13, <1>14, <1>15

\* With no key held it does not matter what was.
LEMMA SamePlain ==
  ASSUME NEW s, NEW t, NEW b, s.caps = t.caps, s.text = t.text
  PROVE  PlainStrike(s, b) = PlainStrike(t, b)
<1>1. \A m, d : Does(s, m, d) = Does(t, m, d)
  BY DEF Does
<1>2. Character(b.key, FALSE, s.caps) = Character(b.key, FALSE, t.caps)
  BY Zenon
<1>3. Toggles(s) = Toggles(t)
  BY Zenon DEF Toggles
<1>4. CASE b.up
  BY <1>1, <1>4 DEF PlainStrike
<1>5. CASE ~b.up /\ b.key = "caps"
  BY <1>3, <1>5 DEF PlainStrike, Shifts
<1>6. CASE ~b.up /\ b.key = "ctrl"
  BY <1>1, <1>6 DEF PlainStrike, Shifts
<1>7. CASE ~b.up /\ b.key \in Shifts \cup {"alt"}
  BY <1>1, <1>7 DEF PlainStrike, Shifts
<1>8. CASE ~b.up /\ b.key = "bksp"
  BY <1>1, <1>8 DEF PlainStrike, Shifts
<1>9. CASE ~b.up /\ b.key \notin Shifts \cup {"caps", "ctrl", "alt", "bksp"}
  BY <1>1, <1>2, <1>9 DEF PlainStrike
<1> QED
  BY <1>4, <1>5, <1>6, <1>7, <1>8, <1>9

\* The handler reads a byte and leaves it to the interrupt of that byte: it
\* is Control or Alt that were forgotten.
LEMMA LeftToInterrupt ==
  ASSUME Reading, kb \in {"control", "alt"}, queue # <<>>, AfterInb,
         kb' = Idle, text' = text, UNCHANGED <<caps, typist>>,
         Strike(Base, Inb) = PlainStrike(Base, Inb)
  PROVE  Reading' /\ Now' = Now
<1> DEFINE b == Inb
<1>1. /\ b \in Bytes /\ port' = b /\ queue' = <<>> /\ irr' = irr
      /\ KB_IR_LINE \in irr
  BY Read DEF Reading, Waiting, Idle
<1>2. Inb' = b
  BY <1>1 DEF Inb
<1>3. Pending /\ Pending'
  BY <1>1 DEF Pending, Waiting
<1>4. Base'.mode = "plain" /\ Base'.caps = Base.caps /\ Base'.text = Base.text
  BY DEF Base, Mode, Idle
<1> HIDE DEF b
<1>5. Strike(Base', b) = PlainStrike(Base', b)
  BY <1>4, Zenon DEF Strike, Shifts
<1>6. PlainStrike(Base', b) = PlainStrike(Base, b)
  BY <1>4, SamePlain
<1>7. Now = PlainStrike(Base, b)
  BY <1>3 DEF Now, b
<1>8. Now' = Strike(Base', b)
  BY <1>2, <1>3 DEF Now
<1>9. Reading'
  BY <1>1, FNames DEF Reading, Waiting, Idle, typist
<1> QED
  BY <1>5, <1>6, <1>7, <1>8, <1>9

\* After Control: Control-L begins, any other key is left to its interrupt.
LEMMA ControlKeeps ==
  ASSUME ~hurried, Reading, Control
  PROVE  Reading' /\ Now' = Now
<1> DEFINE b == Inb
<1>1. /\ b \in Bytes /\ port' = b /\ queue' = <<>> /\ irr' = irr
      /\ kb = "control" /\ queue # <<>> /\ AfterInb
      /\ UNCHANGED <<caps, typing, locked, typist>>
      /\ caps \in BOOLEAN /\ locked \in BOOLEAN /\ typing \in Seq(Bytes)
      /\ text \in Seq(Noted)
  BY Read DEF Control, Polled, Reading, typist
<1>0. <<>> \in Seq(Noted)
  OBVIOUS
<1>2. Base = [mode |-> "control", caps |-> caps, text |-> text]
  BY <1>1 DEF Base, Mode
<1>3. Base.mode = "control" /\ Base.caps = caps /\ Base.text = text
  BY <1>2
<1>4. Now = Strike(Base, b)
  BY <1>1 DEF Now, Pending, Waiting
<1>5. Note(<<>>) => text' = text
  BY <1>0, <1>1, Noting, NoText
<1>6. CASE b = Byte("l", FALSE)
  <2>1. kb' = "clear" /\ text' = text
    BY <1>5, <1>6 DEF Control, Goes
  <2>2. Now = Does(Base, "clear", <<>>)
    BY <1>3, <1>4, <1>6 DEF Strike, Shifts
  <2>3. Now = [mode |-> "clear", caps |-> caps, text |-> text]
    BY <1>1, <1>3, <2>2, NoText DEF Does
  <2>4. ~Pending'
    BY <1>1, <2>1 DEF Pending, Idle
  <2>5. Now' = [mode |-> "clear", caps |-> caps, text |-> text]
    BY <1>1, <2>1, <2>4 DEF Now, Base, Mode
  <2>6. Reading'
    BY <1>1, <1>6, <2>1, ReadingIs DEF Byte
  <2> QED
    BY <2>3, <2>5, <2>6
<1>7. CASE b # Byte("l", FALSE)
  <2>1. kb' = Idle /\ text' = text
    BY <1>5, <1>7 DEF Control, Ends
  <2>2. Strike(Base, b) = PlainStrike(Base, b)
    BY <1>3, <1>7, Zenon DEF Strike, Shifts
  <2> QED
    BY <1>1, <2>1, <2>2, LeftToInterrupt
<1> QED
  BY <1>6, <1>7

\* Control-L clears when Control is released, however often the port is
\* read before.
LEMMA ClearKeeps ==
  ASSUME ~hurried, Reading, Clear
  PROVE  Reading' /\ Now' = Now
<1> DEFINE b == Inb
<1>1. /\ b \in Bytes /\ port' = b /\ queue' = <<>> /\ irr' = irr
      /\ kb = "clear" /\ (queue = <<>> => b # Byte("ctrl", TRUE))
      /\ UNCHANGED <<caps, typing, locked>>
      /\ caps \in BOOLEAN /\ locked \in BOOLEAN /\ typing \in Seq(Bytes)
      /\ text \in Seq(Noted)
  BY Read DEF Clear, Reading, typist
<1>0. <<>> \in Seq(Noted)
  OBVIOUS
<1>2. Base = [mode |-> "clear", caps |-> caps, text |-> text]
  BY <1>1 DEF Base, Mode
<1>3. Base.mode = "clear" /\ Base.caps = caps /\ Base.text = text
  BY <1>2
<1>4. Now = IF queue # <<>> THEN Strike(Base, b) ELSE Base
  BY <1>1 DEF Now, Pending, Waiting, Idle
<1>5. CASE b = Byte("ctrl", TRUE)
  <2>1. kb' = Idle /\ Note(<<"clear">>)
    BY <1>5 DEF Clear, Ends
  <2>2. <<"clear">> \in Seq(Noted)
    BY DEF Noted
  <2>3. text' = text \o <<"clear">> /\ text' \in Seq(Noted)
    BY <1>1, <2>1, <2>2, Noting
  <2>4. Now = Does(Base, "plain", <<"clear">>)
    BY <1>1, <1>3, <1>4, <1>5 DEF Strike, Shifts
  <2>5. Now = Base'
    BY <1>1, <1>3, <2>1, <2>3, <2>4 DEF Does, Base, Mode, Idle
  <2>6. Strike(Base', b) = Base'
    <3>1. /\ Base' = [mode |-> "plain", caps |-> Base'.caps, text |-> Base'.text]
          /\ Base'.text \in Seq(Noted)
      BY <2>1, <2>3 DEF Base, Mode, Idle
    <3>2. b.up
      BY <1>5 DEF Byte
    <3> HIDE DEF b
    <3> QED
      BY <1>1, <3>1, <3>2, Harmless
  <2>7. Now' = Base'
    BY <1>1, <2>6 DEF Now, Inb
  <2>8. Reading'
    BY <1>1, <2>1, <2>3, ReadingIs
  <2> QED
    BY <2>5, <2>7, <2>8
<1>6. CASE b # Byte("ctrl", TRUE)
  <2>1. kb' = "clear" /\ text' = text
    BY <1>0, <1>1, <1>6, Noting, NoText DEF Clear, Goes
  <2>2. Strike(Base, b) = Does(Base, "clear", <<>>)
    BY <1>3, <1>6 DEF Strike, Shifts
  <2>3. Does(Base, "clear", <<>>) = Base
    BY <1>1, <1>2, <1>3, NoText DEF Does
  <2>4. Now = Base
    BY <1>4, <2>2, <2>3
  <2>5. Base' = Base
    BY <1>1, <2>1 DEF Base, Mode
  <2>6. ~Pending'
    BY <1>1, <2>1 DEF Pending, Idle
  <2>7. Reading'
    BY <1>1, <1>6, <2>1, ReadingIs
  <2> QED
    BY <2>4, <2>5, <2>6, <2>7 DEF Now
<1> QED
  BY <1>5, <1>6

\* After Alt: Fn changes the screen, any other key is left to its interrupt.
LEMMA AltKeeps ==
  ASSUME ~hurried, Reading, Alt
  PROVE  Reading' /\ Now' = Now
<1> DEFINE b == Inb
<1>1. /\ b \in Bytes /\ port' = b /\ queue' = <<>> /\ irr' = irr
      /\ kb = "alt" /\ queue # <<>> /\ AfterInb
      /\ UNCHANGED <<caps, typing, locked, typist>>
      /\ caps \in BOOLEAN /\ locked \in BOOLEAN /\ typing \in Seq(Bytes)
      /\ text \in Seq(Noted)
  BY Read DEF Alt, Polled, Reading, typist
<1>0. <<>> \in Seq(Noted)
  OBVIOUS
<1>2. Base = [mode |-> "alt", caps |-> caps, text |-> text]
  BY <1>1 DEF Base, Mode
<1>3. Base.mode = "alt" /\ Base.caps = caps /\ Base.text = text
  BY <1>2
<1>4. Now = Strike(Base, b)
  BY <1>1 DEF Now, Pending, Waiting
<1>5. CASE ~b.up /\ b.key \in Range(FKeys)
  <2>1. kb' = b.key /\ Note(<<b.key>>)
    BY <1>5 DEF Alt, Goes
  <2>2. b.key \in {"F1", "F2", "F3"}
    BY <1>5, FNames
  <2>3. <<b.key>> \in Seq(Noted)
    <3>1. {"F1", "F2", "F3"} \subseteq Noted
      BY DEF Noted
    <3> HIDE DEF b
    <3>2. b.key \in Noted
      BY <2>2, <3>1
    <3> QED
      BY <3>2
  <2>4. text' = text \o <<b.key>> /\ text' \in Seq(Noted)
    BY <1>1, <2>1, <2>3, Noting
  <2>5. Now = Does(Base, "plain", <<b.key>>)
    <3> HIDE DEF b
    <3> QED
      BY <1>3, <1>4, <1>5 DEF Strike, Shifts
  <2>6. Mode' = "plain"
    BY <2>1, <2>2 DEF Mode
  <2>7. ~Pending'
    BY <1>1, <2>1, <2>2 DEF Pending, Idle, Waiting
  <2>8. Now' = [mode |-> "plain", caps |-> caps, text |-> text \o <<b.key>>]
    BY <1>1, <2>4, <2>6, <2>7 DEF Now, Base
  <2>9. port' = Byte(kb', FALSE)
    BY <1>1, <1>5, <2>1 DEF Bytes, Byte
  <2>10. Reading'
    BY <1>1, <1>5, <2>1, <2>4, <2>9, ReadingIs
  <2> QED
    BY <1>3, <2>5, <2>8, <2>10 DEF Does
<1>6. CASE ~(~b.up /\ b.key \in Range(FKeys))
  <2>1. kb' = Idle /\ text' = text
    BY <1>0, <1>1, <1>6, Noting, NoText DEF Alt, Ends
  <2>2. Strike(Base, b) = PlainStrike(Base, b)
    BY <1>3, <1>6, Zenon DEF Strike, Shifts
  <2> QED
    BY <1>1, <2>1, <2>2, LeftToInterrupt
<1> QED
  BY <1>5, <1>6

\* screenChange: the interrupt that is left to come reads Fn once more.
LEMMA FKeyKeeps ==
  ASSUME ~hurried, Reading, kb \in Range(FKeys), kb' = Idle,
         UNCHANGED <<irr, queue, port, caps, held, text, typist>>
  PROVE  Reading' /\ Now' = Now
<1>1. kb \in {"F1", "F2", "F3"} /\ port = Byte(kb, FALSE) /\ queue = <<>>
  BY FNames DEF Reading, Waiting, Idle
<1>2. port.key \in Range(FKeys) /\ port \in Bytes /\ Inb = port
      /\ text \in Seq(Noted)
  BY <1>1 DEF Byte, Reading, Inb
<1>3. Base = [mode |-> "plain", caps |-> caps, text |-> text] /\ Base' = Base
  BY <1>1 DEF Base, Mode, Idle
<1>4. Strike(Base, port) = Base
  <2>1. Base = [mode |-> "plain", caps |-> Base.caps, text |-> Base.text]
        /\ Base.text \in Seq(Noted)
    BY <1>2, <1>3
  <2> QED
    BY <1>2, <2>1, Harmless
<1>5. Now = Base
  BY <1>1 DEF Now, Pending, Idle, Waiting
<1>6. Now' = Base'
  <2>1. Inb' = port
    BY <1>1, <1>2 DEF Inb
  <2> QED
    BY <1>3, <1>4, <2>1 DEF Now
<1>7. Reading'
  BY <1>1, FNames DEF Reading, Waiting, Idle, typist
<1> QED
  BY <1>3, <1>5, <1>6, <1>7

\* The condition of the Shift loop finds the byte it knows.
LEMMA ShiftConditionKeeps ==
  ASSUME ~hurried, Reading, ShiftCondition
  PROVE  Reading' /\ Now' = Now
<1>1. /\ kb = "again" /\ queue = <<>> /\ held \in Shifts
      /\ port \in Bytes /\ port # Byte(held, TRUE)
      /\ caps \in BOOLEAN /\ locked \in BOOLEAN /\ typing \in Seq(Bytes)
      /\ text \in Seq(Noted)
  BY DEF ShiftCondition, Reading, Waiting, Idle
<1>2. /\ Inb = port /\ port' = port /\ queue' = <<>> /\ irr' = irr
      /\ UNCHANGED <<caps, held, typing, locked>>
  BY <1>1, Read DEF ShiftCondition, typist
<1>3. kb' = "shift" /\ Note(<<>>)
  BY <1>1, <1>2 DEF ShiftCondition, Released, Goes
<1>4. text' = text
  <2>1. <<>> \in Seq(Noted)
    OBVIOUS
  <2> QED
    BY <1>1, <1>3, <2>1, Noting, NoText
<1>5. Base' = Base
  BY <1>1, <1>2, <1>3, <1>4 DEF Base, Mode
<1>6. ~Pending /\ ~Pending'
  BY <1>1, <1>2, <1>3 DEF Pending, Idle, Waiting
<1>7. Reading'
  BY <1>1, <1>2, <1>3, <1>4, ReadingIs
<1> QED
  BY <1>5, <1>6, <1>7 DEF Now

\* What a byte is meant to do with a Shift key held.
LEMMA ShiftStrike ==
  ASSUME NEW s, NEW b, s.mode \in Shifts
  PROVE  /\ b = Byte(s.mode, TRUE) => Strike(s, b) = Does(s, "plain", <<>>)
         /\ b # Byte(s.mode, TRUE) =>
              Strike(s, b)
                = Does(s, s.mode, IF b.up THEN <<>>
                                  ELSE <<Character(b.key, TRUE, s.caps)>>)
<1> DEFINE t == IF b = Byte(s.mode, TRUE) THEN Does(s, "plain", <<>>)
                ELSE Does(s, s.mode, IF b.up THEN <<>>
                                     ELSE <<Character(b.key, TRUE, s.caps)>>)
<1>1. Strike(s, b) = t
  BY Zenon DEF Strike, Shifts
<1> QED
  BY <1>1, Zenon

\* A key with Shift, once it has been read as often as Caps Lock has it.
LEMMA ShiftTypes ==
  ASSUME ~hurried, Reading, kb \in {"shift", "reread"}, Pending, AfterInb,
         ~Released, kb' = "again", Note(ShiftedKey(Inb)),
         UNCHANGED <<caps, held, typist>>
  PROVE  Reading' /\ Now' = Now
<1> DEFINE b == Inb
           c == Character(b.key, TRUE, caps)
           did == IF b.up THEN <<>> ELSE <<c>>
<1>1. /\ b \in Bytes /\ port' = b /\ queue' = <<>> /\ irr' = irr
      /\ held \in Shifts /\ b # Byte(held, TRUE)
      /\ UNCHANGED <<typing, locked>>
      /\ caps \in BOOLEAN /\ locked \in BOOLEAN /\ typing \in Seq(Bytes)
      /\ text \in Seq(Noted)
  BY Read DEF Reading, typist, Released
<1>2. b.key \in Key
  BY <1>1 DEF Bytes
<1>3. c \in Noted /\ Shifted(scan2Let(b.key)) = c
  <2> HIDE DEF b
  <2> QED
    BY <1>1, <1>2, Characters
<1>4. ShiftedKey(b) = did
  BY <1>3 DEF ShiftedKey
<1>5. did \in Seq(Noted)
  <2> HIDE DEF b, c
  <2> QED
    BY <1>3
<1>6. Base = [mode |-> held, caps |-> caps, text |-> text]
  BY DEF Base, Mode
<1>7. Base.mode = held /\ Base.caps = caps /\ Base.text = text
  BY <1>6
<1> HIDE DEF b
<1>8. Now = Does(Base, held, did)
  <2>1. Now = Strike(Base, b)
    BY DEF Now, b
  <2>2. Strike(Base, b) = Does(Base, held, did)
    BY <1>1, <1>7, ShiftStrike, Zenon DEF did
  <2> QED
    BY <2>1, <2>2
<1> HIDE DEF did
<1>9. text' = text \o did /\ text' \in Seq(Noted)
  BY <1>1, <1>4, <1>5, Noting DEF b
<1>10. ~Pending'
  BY <1>1 DEF Pending, Idle, Waiting
<1>11. Now' = [mode |-> held, caps |-> caps, text |-> text \o did]
  BY <1>9, <1>10 DEF Now, Base, Mode
<1>12. Reading'
  BY <1>1, <1>9, ReadingIs
<1> QED
  BY <1>7, <1>8, <1>11, <1>12 DEF Does

\* In the Shift loop: the release ends it, and its interrupt, which is left
\* to come, does nothing; any other byte is read again with Caps Lock on, or
\* typed.
LEMMA ShiftKeyKeeps ==
  ASSUME ~hurried, Reading, ShiftKey
  PROVE  Reading' /\ Now' = Now
<1> DEFINE b == Inb
<1>1. /\ b \in Bytes /\ port' = b /\ queue' = <<>> /\ irr' = irr
      /\ kb = "shift" /\ queue # <<>> /\ AfterInb /\ held \in Shifts
      /\ UNCHANGED <<caps, held, typing, locked, typist>>
      /\ caps \in BOOLEAN /\ locked \in BOOLEAN /\ typing \in Seq(Bytes)
      /\ text \in Seq(Noted)
  BY Read DEF ShiftKey, Polled, Reading, typist
<1>0. <<>> \in Seq(Noted)
  OBVIOUS
<1>2. Base = [mode |-> held, caps |-> caps, text |-> text]
  BY <1>1 DEF Base, Mode
<1>3. Base.mode = held /\ Base.caps = caps /\ Base.text = text
  BY <1>2
<1>4. Pending /\ Now = Strike(Base, b)
  BY <1>1 DEF Now, Pending, Waiting
<1>5. CASE Released
  <2>1. kb' = Idle /\ text' = text /\ b = Byte(held, TRUE)
    BY <1>0, <1>1, <1>5, Noting, NoText DEF ShiftKey, Ends, Released
  <2>2. Now = Does(Base, "plain", <<>>)
    <3> HIDE DEF b
    <3> QED
      BY <1>1, <1>3, <1>4, <2>1, ShiftStrike, Zenon
  <2>3. Base' = [mode |-> "plain", caps |-> caps, text |-> text]
    BY <1>1, <2>1 DEF Base, Mode, Idle
  <2>4. Now = Base'
    BY <1>1, <1>3, <2>2, <2>3, NoText DEF Does
  <2>5. Strike(Base', b) = Base'
    <3>1. /\ Base' = [mode |-> "plain", caps |-> Base'.caps, text |-> Base'.text]
          /\ Base'.text \in Seq(Noted)
      BY <1>1, <2>3
    <3>2. b.up
      BY <2>1 DEF Byte
    <3> HIDE DEF b
    <3> QED
      BY <1>1, <3>1, <3>2, Harmless
  <2>6. Now' = Base'
    BY <1>1, <2>5 DEF Now, Inb
  <2>7. Reading'
    BY <1>1, <2>1, ReadingIs
  <2> QED
    BY <2>4, <2>6, <2>7
<1>6. CASE ~Released /\ caps
  <2>1. kb' = "reread" /\ text' = text /\ b # Byte(held, TRUE)
    BY <1>0, <1>1, <1>6, Noting, NoText DEF ShiftKey, Goes, Released
  <2>2. Base' = Base /\ Pending'
    BY <1>1, <2>1 DEF Base, Mode, Pending
  <2>3. Inb' = b
    BY <1>1 DEF Inb
  <2>4. Reading'
    BY <1>1, <1>6, <2>1, ReadingIs DEF Byte
  <2> QED
    BY <1>4, <2>2, <2>3, <2>4 DEF Now
<1>7. CASE ~Released /\ ~caps
  <2>1. kb' = "again" /\ Note(ShiftedKey(Inb))
    BY <1>7 DEF ShiftKey, Goes
  <2> QED
    BY <1>1, <1>4, <1>7, <2>1, ShiftTypes
<1> QED
  BY <1>5, <1>6, <1>7

\* The second reading finds the same byte.
LEMMA ShiftRereadKeeps ==
  ASSUME ~hurried, Reading, ShiftReread
  PROVE  Reading' /\ Now' = Now
<1>1. /\ kb = "reread" /\ AfterInb /\ kb' = "again" /\ Note(ShiftedKey(Inb))
      /\ UNCHANGED <<caps, held, typist>>
  BY DEF ShiftReread, Goes
<1>2. queue = <<>> /\ port # Byte(held, TRUE)
  BY <1>1 DEF Reading, Waiting, Idle
<1>3. ~Released
  BY <1>2 DEF Released, Inb
<1>4. Pending
  BY <1>1 DEF Pending
<1> QED
  BY <1>1, <1>3, <1>4, ShiftTypes

\* A byte comes when the one before it has been dealt with.
LEMMA Delivered ==
  ASSUME Reading, Settled, NEW x \in Bytes, Deliver(x),
         UNCHANGED <<port, caps, kb, held>>,
         typing' \in Seq(Bytes), text' \in Seq(Noted), locked' \in BOOLEAN
  PROVE  /\ Reading' /\ Now = Base /\ Now' = Strike(Base', x)
         /\ Mode' = Mode /\ (Mode = "plain" => kb = Idle)
<1>1. /\ queue = <<>> /\ kb \in Waiting \cup {Idle}
      /\ kb = Idle => KB_IR_LINE \notin irr
  BY DEF Settled, Waiting, Idle
<1>2. queue' = <<x>> /\ irr' = irr \cup {KB_IR_LINE}
  BY <1>1 DEF Deliver, Raise
<1>3. ~Pending /\ Pending'
  BY <1>1, <1>2 DEF Pending, Waiting, Idle
<1>4. Inb' = x
  BY <1>2 DEF Inb
<1>5. queue' \in Seq(Bytes) /\ Len(queue') <= 1
  BY <1>2
<1>6. Reading'
  BY <1>1, <1>2, <1>5 DEF Reading, Waiting, Idle
<1>7. Mode' = Mode
  BY DEF Mode
<1>8. Mode = "plain" => kb = Idle
  BY <1>1 DEF Mode, Waiting, Idle, Reading, Shifts
<1> QED
  BY <1>3, <1>4, <1>6, <1>7, <1>8 DEF Now

\* The next byte of a chord.
LEMMA NextKeyKeeps ==
  ASSUME KeyInv, NextKey
  PROVE  KeyInv'
<1> SUFFICES ASSUME ~hurried' PROVE Reading' /\ (Strikes(Now, typing) = Meant)'
  BY DEF KeyInv
<1> DEFINE x == Head(typing)
<1>1. ~hurried /\ Settled /\ Deliver(x)
  BY DEF NextKey, Deliver
<1>2. Reading /\ Strikes(Now, typing) = Meant
  BY <1>1 DEF KeyInv
<1>3. /\ typing # <<>> /\ typing' = Tail(typing)
      /\ UNCHANGED <<text, expect, locked, port, caps, kb, held>>
  BY DEF NextKey
<1>4. x \in Bytes /\ typing' \in Seq(Bytes) /\ text' \in Seq(Noted)
      /\ locked' \in BOOLEAN /\ typing \in Seq(Bytes)
  BY <1>2, <1>3 DEF Reading
<1> HIDE DEF x
<1>5. Reading' /\ Now = Base /\ Now' = Strike(Base', x) /\ Mode' = Mode
  BY <1>1, <1>2, <1>3, <1>4, Delivered
<1>6. Base' = Base /\ Meant' = Meant
  BY <1>3, <1>5 DEF Base, Meant
<1>7. Strikes(Base, typing) = Strikes(Strike(Base, x), Tail(typing))
  BY <1>3, <1>4, StrikesFirst DEF x
<1> QED
  BY <1>2, <1>3, <1>5, <1>6, <1>7

\* The first byte of a chord: nothing is held, and Caps Lock is as the
\* chords before have left it.
LEMMA StartChordKeeps ==
  ASSUME KeyInv, NEW c \in Chords, StartChord(c)
  PROVE  KeyInv'
<1> SUFFICES ASSUME ~hurried' PROVE Reading' /\ (Strikes(Now, typing) = Meant)'
  BY DEF KeyInv
<1> DEFINE x == Head(c.codes)
<1>1. ~hurried /\ Settled /\ Deliver(x)
  BY DEF StartChord, Deliver
<1>2. Reading /\ Strikes(Now, typing) = Meant
  BY <1>1 DEF KeyInv
<1>3. /\ typing = <<>> /\ typing' = Tail(c.codes) /\ text' = <<>>
      /\ UNCHANGED <<port, caps, kb, held>>
      /\ expect' = IF locked THEN c.on ELSE c.off
  BY DEF StartChord
<1>4. /\ c.codes \in Seq(Bytes) /\ c.codes # <<>> /\ c.locks \in BOOLEAN
      /\ \A on \in BOOLEAN :
           Strikes([mode |-> "plain", caps |-> on, text |-> <<>>], c.codes)
             = [mode |-> "plain", caps |-> (on # c.locks),
                text |-> IF on THEN c.on ELSE c.off]
  BY ChordsAssumption
<1>5. x \in Bytes /\ typing' \in Seq(Bytes) /\ text' \in Seq(Noted)
  <2>1. text' \in Seq(Noted)
    BY <1>3
  <2>2. Head(c.codes) \in Bytes /\ Tail(c.codes) \in Seq(Bytes)
    BY <1>4
  <2> QED
    BY <1>3, <2>1, <2>2
<1>6. locked \in BOOLEAN /\ locked' = (locked # c.locks)
  BY <1>2 DEF StartChord, Reading
<1>7. locked' \in BOOLEAN
  BY <1>6
<1> HIDE DEF x
<1>8. /\ Reading' /\ Now = Base /\ Now' = Strike(Base', x) /\ Mode' = Mode
      /\ Mode = "plain" => kb = Idle
  BY <1>1, <1>2, <1>3, <1>5, <1>7, Delivered
<1>9. Base = Meant
  BY <1>2, <1>3, <1>8, StrikesNone
<1>10. Mode = "plain" /\ caps = locked
  BY <1>9 DEF Base, Meant
<1>11. Base' = [mode |-> "plain", caps |-> locked, text |-> <<>>]
  BY <1>3, <1>8, <1>10 DEF Base
<1>12. Strikes(Base', c.codes) = Meant'
  <2>1. Strikes([mode |-> "plain", caps |-> locked, text |-> <<>>], c.codes)
          = [mode |-> "plain", caps |-> (locked # c.locks),
             text |-> IF locked THEN c.on ELSE c.off]
    BY <1>4, <1>6, Zenon
  <2>2. Meant' = [mode |-> "plain", caps |-> locked', text |-> expect']
    BY DEF Meant
  <2> QED
    BY <1>3, <1>6, <1>11, <2>1, <2>2, Zenon
<1>13. Strikes(Base', c.codes) = Strikes(Strike(Base', x), Tail(c.codes))
  <2> DEFINE B == Base'
  <2> HIDE DEF B
  <2>1. Strikes(B, c.codes) = Strikes(Strike(B, x), Tail(c.codes))
    BY <1>4, StrikesFirst DEF x
  <2> QED
    BY <2>1 DEF B
<1> QED
  BY <1>3, <1>8, <1>12, <1>13

\* Every step of the machine keeps the keyboard in step with what is meant.
LEMMA KeyStep ==
  ASSUME IntInv, KeyInv, [Next]_vars
  PROVE  KeyInv'
<1>0. PicInv /\ BootInv
  BY DEF IntInv
<1>1. CASE BootNext
  <2>1. UNCHANGED keys
    BY <1>1 DEF BootNext, BootGates, BootPic, rtc_init, pit_init, keyboard_init,
                BootDevice, BootPaging, pit_set_freq, BootShell, BootStep
  <2>2. KB_IR_LINE \notin irr
    BY <1>0, <1>1 DEF BootNext, BootGates, BootPic, rtc_init, pit_init,
                keyboard_init, BootDevice, BootPaging, pit_set_freq, BootShell,
                BootStep, BootInv, Started
  <2>3. irr' = irr \/ irr' = {}
    BY <1>1 DEF BootNext, BootGates, BootPic, rtc_init, pit_init, keyboard_init,
                BootDevice, BootPaging, pit_set_freq, BootShell, i8259_init, pic
  <2> QED
    BY <2>1, <2>2, <2>3, KeysQuiet
<1>2. CASE SystemCall \/ vidmap \/ ReadMasks
  BY <1>2, KeysQuiet, UserEffect DEF ReadMasks, pic
<1>10. CASE ReadPort
  <2>1. kb = Idle /\ queue # <<>> /\ AfterInb
        /\ UNCHANGED <<caps, kb, held, text, typist>>
    BY <1>0, <1>10 DEF ReadPort, PicInv
  <2> QED
    BY <2>1, SameNow, PortKeeps DEF typist
<1>3. CASE PitTick \/ RtcTick
  BY <1>3, KeysQuiet DEF PitTick, RtcTick, Raise, KB_IR_LINE, PIT_IRQ_LINE,
                         RTC_IRQ_LINE
<1>4. CASE Typing
  BY <1>4, NextKeyKeeps, StartChordKeeps DEF Typing
<1>5. CASE \E irq \in Line : Take(irq)
  <2> PICK irq \in Line : Take(irq)
    BY <1>5
  <2>1. UNCHANGED <<queue, port, caps, held, text, typist>>
        /\ kb' = IF cpu' = "keyboard_handler" THEN "scan" ELSE kb
    BY DEF Take
  <2>2. irq \in irr /\ irr' = irr \ {irq}
    BY TakeEffect DEF Take, Presented, Offered
  <2>3. CASE irq = KB_IR_LINE
    <3>1. kb = Idle /\ kb' = "scan"
      BY <1>0, <2>1, <2>3, TakeEffect
         DEF PicInv, KB_IR_LINE, PIT_IRQ_LINE, RTC_IRQ_LINE
    <3> QED
      BY <2>1, <2>2, <2>3, <3>1, TakeKeeps
  <2>4. CASE irq # KB_IR_LINE
    <3>1. kb' = kb
      BY <2>1, <2>4, TakeEffect
    <3> QED
      BY <2>1, <2>2, <2>4, <3>1, KeysQuiet DEF keys, typist
  <2> QED
    BY <2>3, <2>4
<1>6. CASE pit_handler \/ pit_handlerHangs \/ rtc_handler
  BY <1>6, KeysQuiet DEF pit_handler, pit_handlerHangs, rtc_handler, pic
<1>7. CASE KeyboardStep
  <2>1. keyboard_handler
    BY <1>7 DEF KeyboardStep
  <2>2. UNCHANGED typist
    BY <2>1 DEF keyboard_handler, Scan, Control, Clear, Alt, ShiftCondition,
                ShiftKey, ShiftReread
  <2> QED
    BY <2>1, <2>2, SameNow, ScanKeeps, ControlKeeps, ClearKeeps, AltKeeps,
       ShiftConditionKeeps, ShiftKeyKeeps, ShiftRereadKeeps
       DEF keyboard_handler
<1>8. CASE \E t \in Term : screenChange(t)
  <2> PICK t \in Term : screenChange(t)
    BY <1>8
  <2>1. /\ kb = FKeys[t] /\ kb' = Idle
        /\ UNCHANGED <<irr, queue, port, caps, held, text, typist>>
    BY DEF screenChange
  <2>2. kb \in Range(FKeys)
    <3>1. t \in DOMAIN FKeys
      BY InterruptsAssumption DEF Term, FKeys
    <3> QED
      BY <2>1, <3>1 DEF Range
  <2> QED
    BY <2>1, <2>2, SameNow, FKeyKeeps
<1>9. CASE UNCHANGED vars
  BY <1>9, KeysQuiet DEF vars, pic
<1> QED
  BY <1>1, <1>2, <1>3, <1>4, <1>5, <1>6, <1>7, <1>8, <1>9, <1>10 DEF Next

\* Nothing was typed when the machine is started.
LEMMA KeyStart ==
  ASSUME Init
  PROVE  KeyInv
<1>1. /\ queue = <<>> /\ port = Byte("none", TRUE) /\ caps = FALSE /\ kb = Idle
      /\ typing = <<>> /\ text = <<>> /\ expect = <<>> /\ locked = FALSE
      /\ KB_IR_LINE \notin irr
  BY DEF Init, KeyboardInit, NoByte, KB_IR_LINE, PIT_IRQ_LINE
<1>2. port \in Bytes
  BY <1>1 DEF Bytes, Byte, Key
<1>3. Reading
  <2>1. caps \in BOOLEAN /\ locked \in BOOLEAN
    BY <1>1
  <2>2. typing \in Seq(Bytes) /\ text \in Seq(Noted)
        /\ queue \in Seq(Bytes) /\ Len(queue) <= 1
    BY <1>1
  <2>3. kb = "idle" /\ "idle" \notin Range(FKeys)
    BY <1>1, FNames DEF Idle
  <2> QED
    BY <1>1, <1>2, <2>1, <2>2, <2>3 DEF Reading, Waiting, Idle
<1>4. Now = Meant
  BY <1>1 DEF Now, Pending, Base, Mode, Meant, Idle, Waiting
<1> QED
  BY <1>1, <1>3, <1>4, StrikesNone DEF KeyInv

\* Whatever chords are typed, when they come a byte at a time, the handler
\* does with each what the keyboard that is meant does.
THEOREM KeysAlwaysTyped == Spec => []KeysTyped
<1>1. KeyInv => KeysTyped
  <2> SUFFICES ASSUME KeyInv, ~hurried, typing = <<>>, Settled, kb = Idle
               PROVE  text = expect /\ caps = locked
    BY DEF KeysTyped
  <2>1. Now = Base
    BY DEF Now, Pending, Settled, Idle, Waiting
  <2>2. Base = Meant
    BY <2>1, StrikesNone DEF KeyInv
  <2> QED
    BY <2>2 DEF Base, Meant
<1>2. IntInv /\ KeyInv /\ [Next]_vars => KeyInv'
  BY KeyStep
<1> QED
  BY <1>1, <1>2, KeyStart, InterruptsInvariant, PTL DEF Spec

=============================================================================

----------------------------- MODULE Interrupts -----------------------------
(***************************************************************************)
(* The machine around the processes: entry() of kernel.c with the gates of *)
(* the IDT and the initialisation of the devices, the interrupts of PIT,   *)
(* RTC and keyboard through the 8259s and the wrappers of idt.S, and the   *)
(* page directories.  Of the process table, the subject of Process, only   *)
(* the live pids and the running one are kept.                             *)
(***************************************************************************)
EXTENDS Keyboard

CONSTANTS
  NUM_PROCESS, NUM_TERM,
  Drawing          \* the pids whose programs call vidmap

ASSUME InterruptsAssumption ==
  /\ NUM_PROCESS \in 1 .. 7
  /\ NUM_TERM \in 1 .. 3

VARIABLES
  boot,            \* steps of entry() that are done
  idt,             \* per vector: the handler of its gate
  iflag,           \* the interrupt flag
  cpu,             \* what runs: "entry", "user" (a process, in its program or
                   \* in a system call), "tRead" (one that polls the keyboard
                   \* with interrupts off), a handler, or "searching", the
                   \* loop of schedule when it does not end
  under,           \* what the handler interrupted
  regC,            \* the RTC waits for its register C to be read
  live, pcb,       \* the processes and the running one
  numShells,       \* terminals that have their shell
  page_dir,        \* per pid and entry: what is mapped
  cr3, cr0         \* the directory that is loaded; whether paging is on

core == <<boot, idt, iflag, cpu, under>>
process == <<live, pcb, numShells>>
paging == <<page_dir, cr3, cr0>>
vars == <<pic, keys, core, regC, process, paging>>

Pid == 0 .. NUM_PROCESS - 1
Term == 1 .. NUM_TERM
PIT_IRQ_LINE == 0
RTC_IRQ_LINE == 8
None == -1

(***************************************************************************)
(* Page directories.  An entry is not present, or maps `size' KB from      *)
(* `from' on, for the kernel only or for the program too.                  *)
(***************************************************************************)
MB == 1024
Entries == {0, 1, 32, 33, 34}
NotPresent == [from |-> 0, size |-> 0, user |-> FALSE]
Maps(from, size, user) == [from |-> from, size |-> size, user |-> user]

VIDEO == 736            \* 0xB8000
EMPTY_PHYS_MEM == 36 * MB

VideoPage == Maps(VIDEO, 4, TRUE)
KernelPage == Maps(4 * MB, 4 * MB, FALSE)
TermPages == Maps(EMPTY_PHYS_MEM + 4, 12, TRUE)

\* (mutant: every process gets the first page)
ProgramPageFirst(pid) == Maps(8 * MB, 4 * MB, TRUE)

\* SHELL_HARDCODE + pid * physical_page_offset
ProgramPage(pid) == Maps((8 + 4 * pid) * MB, 4 * MB, TRUE)

initilize_paging ==
  page_dir' = [p \in Pid |->
    [e \in Entries |-> CASE e = 0 -> VideoPage
                         [] e = 1 -> KernelPage
                         [] e = 34 -> TermPages
                         [] OTHER -> NotPresent]]

setup_paging(pid) ==
  /\ page_dir' = [page_dir EXCEPT ![pid][32] = ProgramPage(pid)]
  /\ cr3' = pid /\ cr0' = TRUE

update_paging(pid) == cr3' = pid /\ UNCHANGED <<page_dir, cr0>>

\* never undone: the next process of this pid has it too
add_vidmap ==
  /\ page_dir' = [page_dir EXCEPT ![pcb][33] = VideoPage]
  /\ cr3' = pcb /\ UNCHANGED cr0

(***************************************************************************)
(* entry()                                                                 *)
(***************************************************************************)
Exceptions == 0 .. 31

Gates ==
  [v \in Exceptions \cup {32, 33, 40} |->
     CASE v = 32 -> "pit_handler"
       [] v = 33 -> "keyboard_handler"
       [] v = 40 -> "rtc_handler"
       [] OTHER -> "exception_print"]

\* from the first program on
UserGates ==
  [v \in DOMAIN idt |->
     IF v \in 0 .. 19 \ {15} THEN "exception_user_program" ELSE idt[v]]

Init ==
  /\ irr \in SUBSET {PIT_IRQ_LINE} /\ isr = {} /\ imr = {}
  /\ icw2 = BiosVectors
  /\ KeyboardInit
  /\ boot = 0 /\ idt = <<>> /\ iflag = FALSE /\ cpu = "entry"
  /\ under = "entry" /\ regC = FALSE
  /\ live = {} /\ pcb = None /\ numShells = {}
  /\ page_dir = [p \in Pid |-> [e \in Entries |-> NotPresent]]
  /\ cr3 = None /\ cr0 = FALSE

BootStep(n) ==
  /\ cpu = "entry" /\ boot = n
  /\ boot' = n + 1
  /\ UNCHANGED <<keys, under, regC>>

BootGates ==
  /\ BootStep(0)
  /\ idt' = Gates
  /\ UNCHANGED <<pic, iflag, cpu, process, paging>>

BootPic ==
  /\ BootStep(1)
  /\ i8259_init
  /\ UNCHANGED <<idt, iflag, cpu, process, paging>>

\* rtc_init, pit_init and keyboard_init; the first two end with sti
BootDevice(n, irqs, flag) ==
  /\ BootStep(n)
  /\ enable_irq(irqs)
  /\ iflag' = flag
  /\ UNCHANGED <<irr, isr, icw2, idt, cpu, process, paging>>

rtc_init == BootDevice(2, {RTC_IRQ_LINE, Cascade}, TRUE)
pit_init == BootDevice(3, {PIT_IRQ_LINE}, TRUE)
keyboard_init == BootDevice(4, {KB_IR_LINE}, iflag)

BootPaging ==
  /\ BootStep(5)
  /\ initilize_paging
  /\ iflag' = TRUE   \* sti
  /\ UNCHANGED <<pic, idt, cpu, process, cr3, cr0>>

\* PIT_FREQ_SCHEDULE is in the range of channel 0: between cli and sti the
\* divider is stored, and PitTick is faster from then on
pit_set_freq ==
  /\ BootStep(6)
  /\ iflag' = TRUE
  /\ UNCHANGED <<pic, idt, cpu, process, paging>>

Started == 8

\* sys_execute of the shell of terminal t as process p, up to the iret to the
\* program: in the keyboard handler interrupts are off; in entry() a tick
\* finds no process but this one
LaunchShell(p, t) ==
  /\ live' = live \cup {p} /\ pcb' = p
  /\ numShells' = numShells \cup {t}
  /\ setup_paging(p)
  /\ cpu' = "user" /\ iflag' = TRUE

Free(p) == p \in Pid \ live /\ \A q \in Pid \ live : p <= q

BootShell ==
  /\ BootStep(7)
  /\ idt' = UserGates
  /\ LaunchShell(0, 1)
  /\ UNCHANGED pic

(***************************************************************************)
(* System calls, as far as they concern paging.  They run with interrupts  *)
(* on, and a tick may come between any two of these steps.  Where in its   *)
(* calls a process is, is not kept: every step that some process could be  *)
(* at may be taken.                                                        *)
(***************************************************************************)
User == cpu = "user" /\ UNCHANGED <<pic, keys, core, regC, numShells>>

SetUp == {p \in Pid : page_dir[p][32] # NotPresent}

\* The pid was free when it was looked for; another process may have taken
\* it since.
ExecuteMap ==
  /\ User
  /\ \E p \in Pid : setup_paging(p)
  /\ UNCHANGED <<live, pcb>>

\* pcb = PCB_ADDR(free_pid), under whatever directory is loaded by then
ExecuteSetPcb ==
  /\ User
  /\ pcb' \in SetUp
  /\ UNCHANGED <<live, paging>>

\* the bit of free_pid, whichever pid pcb has come to point to
ExecutePublish ==
  /\ User
  /\ \E p \in SetUp : live' = live \cup {p}
  /\ UNCHANGED <<pcb, paging>>

\* (HaltClearsOwnBit of Process: the bit was set.)  A shell goes on with
\* sys_execute from here.
HaltFree ==
  /\ User /\ pcb \in live
  /\ live' = live \ {pcb}
  /\ UNCHANGED <<pcb, paging>>

\* the parent goes on
HaltReparent ==
  /\ User /\ pcb \notin live
  /\ pcb' \in live
  /\ UNCHANGED <<live, paging>>

HaltRepage == User /\ update_paging(pcb) /\ UNCHANGED <<live, pcb>>

SystemCall ==
  \/ ExecuteMap \/ ExecuteSetPcb \/ ExecutePublish
  \/ HaltFree \/ HaltReparent \/ HaltRepage

vidmap == User /\ pcb \in Drawing /\ add_vidmap /\ UNCHANGED <<live, pcb>>

\* tRead of a line that is full: cli
ReadMasks ==
  /\ cpu = "user" /\ cpu' = "tRead" /\ iflag' = FALSE
  /\ UNCHANGED <<pic, keys, boot, idt, under, regC, process, paging>>

\* pressed, Backspace, Control and Alt are left to the interrupt they ask for
Unmasking == {"bksp", "ctrl", "alt"}

\* A byte is read from the port: sti for those; the end of the loop for Enter,
\* which is one of the keys with a character; every other byte is dropped.
ReadPort ==
  /\ cpu = "tRead" /\ queue # <<>>
  /\ AfterInb
  /\ \/ /\ ~Inb.up
        /\ Inb.key \in Unmasking \/ scan2Let(Inb.key) # Undefined
        /\ cpu' = "user" /\ iflag' = TRUE
     \/ /\ Inb.up \/ Inb.key \notin Unmasking
        /\ UNCHANGED <<cpu, iflag>>
  /\ UNCHANGED <<isr, caps, kb, held, text, typist, boot, idt, under, regC,
                 process, paging>>

(***************************************************************************)
(* Devices and interrupts                                                  *)
(***************************************************************************)

\* The handlers of PIT and RTC are short: a request made during one is as
\* good as one made right after it.
Asks ==
  /\ cpu \notin {"pit_handler", "rtc_handler"}
  /\ UNCHANGED <<core, process, paging>>

PitTick ==
  /\ Raise({PIT_IRQ_LINE})
  /\ UNCHANGED <<isr, imr, icw2, keys, regC>> /\ Asks

\* once rtc_init has enabled them; not again before register C has been read
RtcTick ==
  /\ boot > 2 /\ ~regC /\ regC' = TRUE
  /\ Raise({RTC_IRQ_LINE})
  /\ UNCHANGED <<isr, imr, icw2, keys>> /\ Asks

\* (mutant: trap gates)
FlagInHandlerTrap == TRUE

\* the gates of the devices are interrupt gates, and the wrappers start
\* with cli
FlagInHandler == FALSE

Take(irq) ==
  LET v == Vector(irq)
  IN
  /\ iflag /\ irq \in Presented
  /\ Acknowledge(irq)
  /\ iflag' = FlagInHandler /\ under' = cpu
  /\ cpu' = IF v \in DOMAIN idt THEN idt[v] ELSE "no gate"
  /\ kb' = IF cpu' = "keyboard_handler" THEN "scan" ELSE kb
  /\ UNCHANGED <<imr, icw2, queue, port, caps, held, text, typist, boot, idt,
                 regC, process, paging>>

\* sti and iret of the wrapper
Iret == cpu' = under /\ iflag' = TRUE /\ UNCHANGED <<boot, idt, under>>

\* schedule resumes some process, by way of its own frame of pit_handler,
\* so that the end of interrupt is sent twice
pit_handler ==
  /\ cpu = "pit_handler"
  /\ IF live = {} THEN UNCHANGED <<pcb, paging>>
     ELSE \E p \in live :
            pcb' = p /\ IF p = pcb THEN UNCHANGED paging ELSE update_paging(p)
  /\ send_eoi(PIT_IRQ_LINE)
  /\ Iret
  /\ UNCHANGED <<irr, imr, icw2, keys, regC, live, numShells>>

\* Where the running process has its bit clear there may be none without a
\* child, and schedule goes round for ever, with interrupts off.
pit_handlerHangs ==
  /\ cpu = "pit_handler" /\ live # {} /\ pcb \notin live
  /\ cpu' = "searching"
  /\ UNCHANGED <<pic, keys, boot, idt, iflag, under, regC, process, paging>>

\* (mutant: register C is not read)
rtc_handlerNoRead ==
  /\ cpu = "rtc_handler"
  /\ send_eoi(RTC_IRQ_LINE)
  /\ Iret
  /\ UNCHANGED <<irr, imr, icw2, keys, regC, process, paging>>

rtc_handler ==
  /\ cpu = "rtc_handler"
  /\ regC' = FALSE
  /\ send_eoi(RTC_IRQ_LINE)
  /\ Iret
  /\ UNCHANGED <<irr, imr, icw2, keys, process, paging>>

KeyboardStep ==
  /\ cpu = "keyboard_handler"
  /\ keyboard_handler
  /\ IF kb' = Idle THEN Iret ELSE UNCHANGED core
  /\ UNCHANGED <<regC, process, paging>>

\* (mutant: the end of interrupt is left to the end of the handler)
LaunchEoiLater == UNCHANGED isr

LaunchEoi == send_eoi(KB_IR_LINE)

\* Alt-Fn for a terminal without a shell: the handler never returns, so the
\* end of interrupt is sent first.
screenChange(t) ==
  /\ cpu = "keyboard_handler" /\ kb = FKeys[t]
  /\ kb' = Idle
  /\ IF t \in numShells \/ live = Pid
       THEN send_eoi(KB_IR_LINE) /\ Iret /\ UNCHANGED <<process, paging>>
       ELSE /\ LaunchEoi
            /\ \E p \in Pid : Free(p) /\ LaunchShell(p, t)
            /\ UNCHANGED <<boot, idt, under>>
  /\ UNCHANGED <<irr, imr, icw2, queue, port, caps, held, text, typist, regC>>

\* Nobody types before the first screen appears.
Typing ==
  /\ boot = Started
  /\ NextKey \/ \E c \in Chords : StartChord(c)
  /\ UNCHANGED regC /\ Asks

BootNext ==
  \/ BootGates \/ BootPic \/ rtc_init \/ pit_init \/ keyboard_init
  \/ BootPaging \/ pit_set_freq \/ BootShell

Next ==
  \/ BootNext
  \/ SystemCall \/ vidmap \/ ReadMasks \/ ReadPort
  \/ PitTick \/ RtcTick \/ Typing
  \/ \E irq \in Line : Take(irq)
  \/ pit_handler \/ pit_handlerHangs \/ rtc_handler \/ KeyboardStep
  \/ \E t \in Term : screenChange(t)

(***************************************************************************)
(* Fairness: the processor goes on; the devices ask slowly enough for the  *)
(* lower priorities to have their turn; a chord that was begun is typed to *)
(* its end.                                                                *)
(***************************************************************************)
Fairness ==
  /\ WF_vars(Typing /\ NextKey)
  /\ WF_vars(BootNext \/ pit_handler \/ pit_handlerHangs \/ rtc_handler \/ KeyboardStep
             \/ ReadPort \/ \E t \in Term : screenChange(t))
  /\ \A irq \in {PIT_IRQ_LINE, KB_IR_LINE, RTC_IRQ_LINE} : SF_vars(Take(irq))

Spec == Init /\ [][Next]_vars /\ Fairness

-----------------------------------------------------------------------------
Handlers == {"pit_handler", "keyboard_handler", "rtc_handler"}
Entry == [from : Nat, size : Nat, user : BOOLEAN]

\* Every variable stays in its range; in particular a handler interrupts
\* entry() or a program, never another handler.
InterruptsTypeOK ==
  /\ irr \subseteq Line /\ isr \subseteq Line /\ imr \subseteq Line
  /\ boot \in 0 .. Started /\ iflag \in BOOLEAN /\ regC \in BOOLEAN
  /\ under \in {"entry", "user"}
  /\ live \subseteq Pid /\ pcb \in Pid \cup {None}
  /\ numShells \subseteq Term
  /\ page_dir \in [Pid -> [Entries -> Entry]]
  /\ cr3 \in Pid \cup {None} /\ cr0 \in BOOLEAN
  /\ (kb # Idle) => (cpu = "keyboard_handler")

\* Whenever interrupts are enabled, none is in service: every way out of a
\* handler has sent its end of interrupt, also the one on which screenChange
\* starts a shell and never returns, and the one through schedule.
InServiceDrained == iflag => isr = {}

\* An interrupt of a device arrives at that device's handler, with the
\* controllers' state to match, from the first sti in rtc_init on, before
\* the other devices and paging are initialised.
GatesReady ==
  /\ cpu \in Handlers \cup {"entry", "user", "tRead", "searching"}
  /\ cpu = "pit_handler" => PIT_IRQ_LINE \in isr
  /\ cpu = "keyboard_handler" => KB_IR_LINE \in isr
  /\ cpu = "rtc_handler" => {RTC_IRQ_LINE, Cascade} \subseteq isr

Apart(e, f) == e.from + e.size <= f.from \/ f.from + f.size <= e.from

\* Wherever ticks come in the system calls: the directory that is loaded when
\* a process runs is one with the page of a program.  The 4 MB of it are
\* nobody else's: neither another pid's, whether its process is live, half
\* made or gone, nor the kernel's, nor the video memory, nor the pages the
\* terminals not shown are kept in; and the kernel is mapped for the kernel
\* only.  (Whether the directory is the running process's own is RunsItself
\* of Process: not after a tick in the middle of sys_execute.)
MemoryApart ==
  /\ cpu \in {"user", "tRead"} => cr0 /\ cr3 \in SetUp
  /\ \A p \in SetUp :
       /\ page_dir[p][32].user /\ ~page_dir[p][1].user
       /\ \A e \in Entries \ {32} : Apart(page_dir[p][32], page_dir[p][e])
       /\ \A q \in SetUp \ {p} : Apart(page_dir[p][32], page_dir[q][32])

Excused == boot < Started \/ hurried \/ cpu = "searching"

\* Once the system is up, a request of a device is answered: none is pending
\* for ever, because no handler waits for ever, nothing in service blocks it
\* for ever, and none is lost.  The RTC, which has the lowest priority, may
\* have to wait for a pause in the typing, and is then told that its request
\* was seen.  Three things are taken for granted: a line that is full does
\* not wait for Enter for ever (tRead has interrupts off then,
\* terminal.c:158), a chord that was begun is finished (the handler waits for
\* that with interrupts off), and its keys come one at a time, as in
\* KeysTyped.  And schedule may go round for ever after a tick that meets a
\* process without its bit.
RequestsServed ==
  []<>(cpu # "tRead") =>
    /\ []<>(PIT_IRQ_LINE \notin irr \/ Excused)
    /\ []<>(KB_IR_LINE \notin irr \/ Excused)
    /\ []<>(~regC \/ typing # <<>> \/ Excused)
=============================================================================

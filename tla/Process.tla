------------------------------ MODULE Process ------------------------------
(***************************************************************************)
(* The process table of the kernel and everything that moves the CPU from  *)
(* one process to another: sys_execute and sys_halt, the PIT tick with the *)
(* round-robin scheduler, and the keyboard's Alt-Fn terminal switch, which *)
(* launches a shell from inside the interrupt handler.                     *)
(*                                                                         *)
(* System calls enter through a trap gate (kernel.c:382), so interrupts    *)
(* stay enabled while sys_execute and sys_halt run.  Each of the two is    *)
(* therefore cut into the steps between which an interrupt changes the     *)
(* outcome; `cpu.pc' names the step the CPU is about to take.  Interrupts  *)
(* and exceptions enter through interrupt gates: the work they start runs  *)
(* the same steps with `intr' FALSE.                                       *)
(***************************************************************************)
EXTENDS Integers, FiniteSets

CONSTANTS
  NUM_PROCESS,     \* slots of the process table (6)
  BITMAP_WIDTH,    \* bits of pid_bitmap (8)
  NUM_TERM,        \* terminals (3)
  MAX_OPEN_FILES,  \* descriptors of a process (8)
  Prog,            \* executable files
  Shell            \* the one terminals are started with

ASSUME ProcessAssumption ==
  /\ NUM_PROCESS \in Nat \ {0}
  /\ BITMAP_WIDTH \in Nat /\ NUM_PROCESS <= BITMAP_WIDTH
  /\ NUM_TERM \in Nat \ {0}
  /\ MAX_OPEN_FILES \in Nat /\ MAX_OPEN_FILES >= 2
  /\ Shell \in Prog

Pid  == 0 .. NUM_PROCESS - 1
Term == 1 .. NUM_TERM
NoPid == -1
NoTerm == 0
Fd == 0 .. MAX_OPEN_FILES - 1

VARIABLES
  (* the process table *)
  pid_bitmap,      \* the bits that are set
  pcb,             \* the PCB of the running process
  parent_pid,      \* per PCB, NoPid for the shell of a terminal
  child_pid,       \* per PCB, NoPid when it waits for nobody
  curTerminal,     \* per PCB
  file_array,      \* per PCB: the descriptors whose flags are not CLOSE
  esp_schedule,    \* per PCB: the stack its suspended context lies on, and
                   \* the esp: "saved" when it was left, "skipped" by a
                   \* launch that left it, or "old", from a time before
  parent_esp,      \* per PCB: the stack of the sys_execute that started it
  (* the globals of syscalls.c, schedule.c and lib.c *)
  whichTerm, attemptExit, curProc, numShells, currentTerminal,
  (* the machine *)
  cpu,             \* the step being executed and its local variables
  stk,             \* the kernel stack in use (the next one, in user mode)
  frame,           \* per kernel stack: the context suspended on it
  intr,            \* the interrupt flag
  cr3,             \* whose page directory is loaded
  esp0,            \* whose kernel stack tss.esp0 names
  image,           \* per process page: the program it holds
  mode,            \* "run", or how the kernel stopped
  (* history *)
  program,         \* per PCB: the program it was created to run
  raced            \* a context switch was taken at a Critical point

table   == <<pid_bitmap, parent_pid, child_pid, curTerminal, program>>
context == <<esp_schedule, frame, raced>>
globals == <<whichTerm, attemptExit, curProc, numShells, currentTerminal>>
machine == <<stk, intr, cr3, esp0>>
vars == <<pcb, table, file_array, parent_esp, context, globals, machine, cpu,
          image, mode>>

(***************************************************************************)
(* Contexts.  A context is a step of the kernel and the locals of the two  *)
(* system calls.  "user" is user mode, and any system call that touches    *)
(* nothing of the above; "wait" is a sys_execute that has entered its      *)
(* child and continues at halt_ret_label.  next_pcb is the PCB the call is *)
(* about to make the running one: that of free_pid, or parent_pcb.         *)
(***************************************************************************)
PC == {"user", "wait",
       "map", "load", "setpcb", "link", "publish", "enter",
       "free", "exit", "reparent", "unstack", "repage"}
Context == [pc : PC, next_pcb : Pid \cup {NoPid}, cmd : Prog, old_pcb : Pid]

At(pc) == [pc |-> pc, next_pcb |-> 0, cmd |-> Shell, old_pcb |-> 0]
UserContext == At("user")

\* the context of a sys_execute of program c that has found the free pid f
Starting(f, c) == [pc |-> "map", next_pcb |-> f, cmd |-> c, old_pcb |-> 0]

Running(pc) == mode = "run" /\ cpu.pc = pc
GoTo(pc) == cpu' = [cpu EXCEPT !.pc = pc]

(***************************************************************************)
(* The state in which boot reaches the first shell: whichTerm was 1, so    *)
(* pid 0 is the parentless shell of terminal 1 (screenInit).               *)
(***************************************************************************)
Init ==
  /\ pid_bitmap = {0}
  /\ pcb = 0
  /\ parent_pid = [p \in Pid |-> NoPid]
  /\ child_pid = [p \in Pid |-> NoPid]
  /\ curTerminal = [p \in Pid |-> 1]
  /\ file_array = [p \in Pid |-> IF p = 0 THEN {0, 1} ELSE {}]
  /\ esp_schedule = [p \in Pid |-> [stack |-> p, esp |-> "old"]]
  /\ parent_esp = [p \in Pid |-> 0]
  /\ whichTerm = NoTerm
  /\ attemptExit = FALSE
  /\ curProc = 0
  /\ numShells = {1}
  /\ currentTerminal = 1
  /\ cpu = UserContext
  /\ stk = 0
  /\ frame = [s \in Pid |-> UserContext]
  /\ intr = TRUE
  /\ cr3 = 0
  /\ esp0 = 0
  /\ image = [p \in Pid |-> Shell]
  /\ mode = "run"
  /\ program = [p \in Pid |-> Shell]
  /\ raced = FALSE

(***************************************************************************)
(* Single assignments.  Those whose comment says "mutant" are faulty       *)
(* variants, used only to see that the properties notice the fault.        *)
(***************************************************************************)

\* the directory of p maps 128MB to the page of p, and is loaded
SetupPaging(p) == cr3' = p

\* (mutant: returns without loading CR3)
UpdatePagingSkipped(p) == UNCHANGED cr3

UpdatePaging(p) == cr3' = p

\* (mutant: leaves the link to the child)
UnlinkSkipped(p) == UNCHANGED child_pid

\* PCB p waits for nobody
Unlink(p) == child_pid' = [child_pid EXCEPT ![p] = NoPid]

\* (mutant: shifts by one too many)
SetBitShifted(bits, p) == bits \cup {(p + 1) % BITMAP_WIDTH}

SetBit(bits, p) == bits \cup {p}

\* pid_bitmap -= 1 << p on an unsigned word: clearing a clear bit borrows
\* from the next higher one that is set
ClearBit(bits, p) ==
  LET higher == {b \in bits : b > p}
      lender == CHOOSE b \in higher : \A c \in higher : b <= c
  IN IF p \in bits THEN bits \ {p}
     ELSE IF higher = {} THEN bits \cup p .. BITMAP_WIDTH - 1
     ELSE (bits \ {lender}) \cup p .. lender - 1

\* (mutant: the loop stops one descriptor early)
CloseAllButLast(p) ==
  file_array' = [file_array EXCEPT ![p] = @ \ (0 .. MAX_OPEN_FILES - 2)]

CloseAll(p) == file_array' = [file_array EXCEPT ![p] = {}]

\* (mutant: stores into the PCB of the caller)
SaveParentEspInOld ==
  parent_esp' = [parent_esp EXCEPT ![parent_pid[pcb]] = stk]

SaveParentEsp == parent_esp' = [parent_esp EXCEPT ![pcb] = stk]

(***************************************************************************)
(* sys_execute                                                             *)
(***************************************************************************)

\* (mutant: counts the processes instead of testing the bits)
FirstFreeByCount(f) == f = Cardinality(pid_bitmap)

\* the first pid whose bit is clear
FirstFree(f) ==
  /\ f \in Pid \ pid_bitmap
  /\ \A g \in Pid \ pid_bitmap : f <= g

\* parser, checkExe and the search for a free pid; a name that is no
\* executable, or a full table, returns -1 and changes nothing
Execute(c) ==
  /\ Running("user")
  /\ \E f \in Pid :
       /\ FirstFree(f)
       /\ cpu' = Starting(f, c)
  /\ UNCHANGED <<pcb, table, file_array, parent_esp, context, globals,
                 machine, image, mode>>

\* setup_paging: the new page directory is loaded before the process exists
ExecuteMap ==
  /\ Running("map")
  /\ SetupPaging(cpu.next_pcb)
  /\ GoTo("load")
  /\ UNCHANGED <<pcb, table, file_array, parent_esp, context, globals, stk,
                 intr, esp0, image, mode>>

\* read_data and the memcpy to 0x8048000, through whatever CR3 maps there.
\* (prog_img, syscalls.c:112, takes 252 KB of an 8 KB stack: it lies over the
\* stacks of the higher pids.  The frames that `stk' and `parent_esp' name are
\* taken to be apart.)
ExecuteLoad ==
  /\ Running("load")
  /\ image' = [image EXCEPT ![cr3] = cpu.cmd]
  /\ GoTo("setpcb")
  /\ UNCHANGED <<pcb, table, file_array, parent_esp, context, globals,
                 machine, mode>>

\* from here on the running process is one whose bit is still clear
ExecuteSetPcb ==
  /\ Running("setpcb")
  /\ pcb' = cpu.next_pcb
  /\ Unlink(cpu.next_pcb)
  /\ cpu' = [cpu EXCEPT !.pc = "link", !.old_pcb = pcb]
  /\ UNCHANGED <<pid_bitmap, parent_pid, curTerminal, program, file_array,
                 parent_esp, context, globals, machine, image, mode>>

\* (mutant: a shell that replaces an exited one gets that as its parent)
NewParentOfExit == IF whichTerm # NoTerm THEN NoPid ELSE cpu.old_pcb

NewParent ==
  IF whichTerm # NoTerm \/ attemptExit THEN NoPid ELSE cpu.old_pcb

\* (mutant: the terminal on display instead of the caller's)
NewTerminalDisplayed ==
  IF whichTerm # NoTerm THEN whichTerm ELSE currentTerminal

NewTerminal ==
  IF whichTerm # NoTerm /\ ~attemptExit
    THEN whichTerm ELSE curTerminal[cpu.old_pcb]

\* the switch on whichTerm, attemptExit, the link to the parent and the two
\* standard descriptors
ExecuteLink ==
  /\ Running("link")
  /\ parent_pid' = [parent_pid EXCEPT ![pcb] = NewParent]
  /\ curTerminal' = [curTerminal EXCEPT ![pcb] = NewTerminal]
  /\ child_pid' = IF NewParent = NoPid THEN child_pid
                  ELSE [child_pid EXCEPT ![cpu.old_pcb] = pcb]
  /\ whichTerm' = NoTerm
  /\ attemptExit' = FALSE
  /\ file_array' = [file_array EXCEPT ![pcb] = @ \cup {0, 1}]
  /\ program' = [program EXCEPT ![pcb] = cpu.cmd]
  /\ GoTo("publish")
  /\ UNCHANGED <<pcb, pid_bitmap, parent_esp, context, curProc, numShells,
                 currentTerminal, machine, image, mode>>

ExecutePublish ==
  /\ Running("publish")
  /\ pid_bitmap' = SetBit(pid_bitmap, cpu.next_pcb)
  /\ GoTo("enter")
  /\ UNCHANGED <<pcb, parent_pid, child_pid, curTerminal, program, file_array,
                 parent_esp, context, globals, machine, image, mode>>

\* tss.esp0, the saved parent_esp and the iret.  The frame of a sys_execute
\* whose child has no parent is never returned to.
ExecuteEnter ==
  /\ Running("enter")
  /\ esp0' = pcb
  /\ SaveParentEsp
  /\ frame' = IF parent_pid[pcb] = NoPid THEN frame
              ELSE [frame EXCEPT ![stk] = At("wait")]
  /\ stk' = pcb
  /\ intr' = TRUE
  /\ cpu' = UserContext
  /\ UNCHANGED <<pcb, table, file_array, esp_schedule, raced, globals, cr3,
                 image, mode>>

(***************************************************************************)
(* sys_halt                                                                *)
(***************************************************************************)

\* by the system call (interrupts stay enabled) or by an exception
HaltClose(enabled) ==
  /\ Running("user")
  /\ intr' = enabled
  /\ CloseAll(pcb)
  /\ cpu' = [At("free") EXCEPT !.old_pcb = pcb, !.next_pcb = parent_pid[pcb]]
  /\ UNCHANGED <<pcb, table, parent_esp, context, globals, stk, cr3, esp0,
                 image, mode>>

Halt == HaltClose(TRUE)
Exception == HaltClose(FALSE)

HaltFree ==
  /\ Running("free")
  /\ pid_bitmap' = ClearBit(pid_bitmap, pcb)
  /\ GoTo(IF parent_pid[cpu.old_pcb] = NoPid THEN "exit" ELSE "reparent")
  /\ UNCHANGED <<pcb, parent_pid, child_pid, curTerminal, program, file_array,
                 parent_esp, context, globals, machine, image, mode>>

\* the shell of a terminal is replaced by a new one
HaltRestart ==
  /\ Running("exit")
  /\ attemptExit' = TRUE
  /\ \E f \in Pid :
       /\ FirstFree(f)
       /\ cpu' = Starting(f, Shell)
  /\ UNCHANGED <<pcb, table, file_array, parent_esp, context, whichTerm,
                 curProc, numShells, currentTerminal, machine, image, mode>>

HaltReparent ==
  /\ Running("reparent")
  /\ pcb' = cpu.next_pcb
  /\ Unlink(cpu.next_pcb)
  /\ GoTo("unstack")
  /\ UNCHANGED <<pid_bitmap, parent_pid, curTerminal, program, file_array,
                 parent_esp, context, globals, machine, image, mode>>

HaltUnstack ==
  /\ Running("unstack")
  /\ stk' = parent_esp[cpu.old_pcb]
  /\ GoTo("repage")
  /\ UNCHANGED <<pcb, table, file_array, parent_esp, context, globals, intr,
                 cr3, esp0, image, mode>>

\* update_paging, tss.esp0 and the jump to halt_ret_label, which returns to
\* the parent's user program
HaltRepage ==
  /\ Running("repage")
  /\ UpdatePaging(pcb)
  /\ esp0' = pcb
  /\ stk' = pcb
  /\ intr' = TRUE
  /\ cpu' = UserContext
  /\ UNCHANGED <<pcb, table, file_array, parent_esp, context, globals, image,
                 mode>>

(***************************************************************************)
(* sys_open and sys_close, as far as descriptors are taken and given back  *)
(***************************************************************************)
Open ==
  /\ Running("user")
  /\ \E fd \in Fd \ file_array[pcb] :
       /\ fd >= 2
       /\ \A lower \in 2 .. fd - 1 : lower \in file_array[pcb]
       /\ file_array' = [file_array EXCEPT ![pcb] = @ \cup {fd}]
  /\ UNCHANGED <<pcb, table, parent_esp, context, globals, machine, cpu,
                 image, mode>>

Close ==
  /\ Running("user")
  /\ \E fd \in file_array[pcb] :
       /\ fd >= 2
       /\ file_array' = [file_array EXCEPT ![pcb] = @ \ {fd}]
  /\ UNCHANGED <<pcb, table, parent_esp, context, globals, machine, cpu,
                 image, mode>>

(***************************************************************************)
(* Interrupts.  A context switch at a Critical point breaks the system     *)
(* call it interrupts:                                                     *)
(*   - the running PCB has its bit clear: schedule() saves the context     *)
(*     where it will never look for it;                                    *)
(*   - the stack in use belongs to a free pid: the next process to get     *)
(*     that pid runs over the context;                                     *)
(*   - a free pid is chosen but not taken and its page directory loaded:   *)
(*     neither survives until the context is resumed.                      *)
(***************************************************************************)
Critical ==
  \/ pcb \notin pid_bitmap
  \/ stk \notin pid_bitmap
  \/ cpu.pc \in {"map", "load", "setpcb"}

Interruptible == mode = "run" /\ intr

Runnable == {p \in Pid : p \in pid_bitmap /\ child_pid[p] = NoPid}

\* the circular search from curProc
Selected(q) ==
  LET distance(p) == (p + NUM_PROCESS - curProc) % NUM_PROCESS
  IN /\ q \in Runnable
     /\ \A r \in Runnable : distance(q) <= distance(r)

\* (mutants: without the wrap around; without the step)
AdvanceUnwrapped(q) == curProc' = q + 1
AdvanceNot(q) == curProc' = q

Advance(q) == curProc' = (q + 1) % NUM_PROCESS

\* the search ends at the running process: nothing is switched
TickSame ==
  /\ Interruptible
  /\ Selected(pcb)
  /\ Advance(pcb)
  /\ UNCHANGED <<pcb, table, file_array, parent_esp, context, whichTerm,
                 attemptExit, numShells, currentTerminal, machine, cpu,
                 image, mode>>

\* suspend the running process on its stack, resume q on its own; a skipped
\* esp may still name the frame below which q was left, since keyboard and
\* PIT handlers push frames of the same layout
TickSwitch(q) ==
  LET suspended == [frame EXCEPT ![stk] = cpu]
      resumed == suspended[esp_schedule[q].stack]
  IN
  /\ Interruptible
  /\ q # pcb
  /\ Selected(q)
  /\ esp_schedule[q].esp # "old"
  /\ Advance(q)
  /\ pcb' = q
  /\ frame' = suspended
  /\ esp_schedule' =
       [p \in Pid |-> CASE p = q -> [esp_schedule[q] EXCEPT !.esp = "old"]
                        [] p = pcb -> [stack |-> stk, esp |-> "saved"]
                        [] OTHER -> esp_schedule[p]]
  /\ raced' = (raced \/ Critical)
  /\ stk' = esp_schedule[q].stack
  /\ cpu' = resumed
  /\ UpdatePaging(q)
  /\ esp0' = q
  /\ UNCHANGED <<table, file_array, parent_esp, whichTerm, attemptExit,
                 numShells, currentTerminal, intr, image, mode>>

\* q was last left without saving its esp: what stands on the stack at the
\* value restored is whatever the code that ran since has written there
TickWild(q) ==
  /\ Interruptible
  /\ q # pcb
  /\ Selected(q)
  /\ esp_schedule[q].esp # "saved"
  /\ mode' = "wild"
  /\ raced' = (raced \/ Critical)
  /\ UNCHANGED <<pcb, table, file_array, parent_esp, esp_schedule, frame,
                 globals, machine, cpu, image>>

\* no process is runnable: the search never ends, and interrupts are off
TickHang ==
  /\ Interruptible
  /\ pid_bitmap # {}
  /\ Runnable = {}
  /\ mode' = "hung"
  /\ raced' = (raced \/ Critical)
  /\ UNCHANGED <<pcb, table, file_array, parent_esp, esp_schedule, frame,
                 globals, machine, cpu, image>>

\* Alt-Fn to a terminal that has its shell
ScreenChange(t) ==
  /\ Interruptible
  /\ t # currentTerminal
  /\ t \in numShells
  /\ currentTerminal' = t
  /\ UNCHANGED <<pcb, table, file_array, parent_esp, context, whichTerm,
                 attemptExit, curProc, numShells, machine, cpu, image, mode>>

\* Alt-Fn to one that has none: sys_execute runs inside the handler, on the
\* stack of the interrupted process, whose esp_schedule nobody updates
ScreenLaunch(t) ==
  /\ Interruptible
  /\ t # currentTerminal
  /\ t \notin numShells
  /\ pid_bitmap # Pid
  /\ numShells' = numShells \cup {t}
  /\ currentTerminal' = t
  /\ whichTerm' = t
  /\ intr' = FALSE
  /\ frame' = [frame EXCEPT ![stk] = cpu]
  /\ esp_schedule' =
       [esp_schedule EXCEPT ![pcb] = [stack |-> stk, esp |-> "skipped"]]
  /\ raced' = (raced \/ Critical)
  /\ \E f \in Pid :
       /\ FirstFree(f)
       /\ cpu' = Starting(f, Shell)
  /\ UNCHANGED <<pcb, table, file_array, parent_esp, attemptExit, curProc,
                 stk, cr3, esp0, image, mode>>

\* a kernel that hangs or has lost its stack stays as it is
Stopped ==
  /\ mode # "run"
  /\ UNCHANGED vars

KernelStep ==
  \/ ExecuteMap \/ ExecuteLoad \/ ExecuteSetPcb \/ ExecuteLink
  \/ ExecutePublish \/ ExecuteEnter
  \/ HaltFree \/ HaltRestart \/ HaltReparent \/ HaltUnstack \/ HaltRepage

SystemCall ==
  \/ \E c \in Prog : Execute(c)
  \/ Halt \/ Exception
  \/ Open \/ Close

Tick ==
  \/ TickSame
  \/ \E q \in Pid : TickSwitch(q) \/ TickWild(q)
  \/ TickHang

Key == \E t \in Term : ScreenChange(t) \/ ScreenLaunch(t)

Next == KernelStep \/ SystemCall \/ Tick \/ Key \/ Stopped

Spec == Init /\ [][Next]_vars

\* The CPU executes the kernel's code.  The PIT requests an interrupt at a
\* fixed rate and the 8259 holds the request while interrupts are masked.
Fairness == WF_vars(KernelStep) /\ SF_vars(Tick)

FairSpec == Spec /\ Fairness

-----------------------------------------------------------------------------
(***************************************************************************)
(* Properties                                                              *)
(***************************************************************************)

\* The shape of the state: every PCB field, saved context and global of the
\* process code, and every local of its two system calls, stays in range.
TypeOK ==
  /\ pid_bitmap \subseteq 0 .. BITMAP_WIDTH - 1
  /\ pcb \in Pid
  /\ parent_pid \in [Pid -> Pid \cup {NoPid}]
  /\ child_pid \in [Pid -> Pid \cup {NoPid}]
  /\ curTerminal \in [Pid -> Term]
  /\ file_array \in [Pid -> SUBSET Fd]
  /\ esp_schedule \in [Pid -> [stack : Pid, esp : {"saved", "skipped", "old"}]]
  /\ parent_esp \in [Pid -> Pid]
  /\ whichTerm \in Term \cup {NoTerm}
  /\ attemptExit \in BOOLEAN
  /\ curProc \in Pid
  /\ numShells \subseteq Term
  /\ currentTerminal \in Term
  /\ cpu \in Context
  /\ stk \in Pid
  /\ frame \in [Pid -> Context]
  /\ intr \in BOOLEAN
  /\ cr3 \in Pid
  /\ esp0 \in Pid
  /\ image \in [Pid -> Prog]
  /\ mode \in {"run", "hung", "wild"}
  /\ program \in [Pid -> Prog]
  /\ raced \in BOOLEAN

\* Until a context switch hits a Critical point.
TypeCorrect == ~raced => TypeOK

\* sys_execute links parent and child and sys_halt unlinks them: as long as
\* no context switch hit a Critical point, the parent of a live process is
\* live, waits for exactly that process and sits on the same terminal, and a
\* process that waits does so for its own child.
FamilyLinks ==
  ~raced =>
    \A p \in Pid \cap pid_bitmap :
      /\ parent_pid[p] # NoPid =>
           /\ parent_pid[p] \in pid_bitmap
           /\ child_pid[parent_pid[p]] = p
           /\ curTerminal[parent_pid[p]] = curTerminal[p]
      /\ child_pid[p] # NoPid =>
           /\ parent_pid[child_pid[p]] = p
           /\ child_pid[p] \in pid_bitmap \/ child_pid[p] = pcb

\* Whenever user code runs, every terminal that was started has exactly one
\* process that can run (its foreground program), whatever sequence of
\* execute, halt, exit of a shell and Alt-Fn led there.
OneForeground ==
  (~raced /\ Running("user")) =>
    \A t \in Term :
      Cardinality({p \in Runnable : curTerminal[p] = t})
        = IF t \in numShells THEN 1 ELSE 0

\* Whenever user code runs, CR3 and tss.esp0 are those of the running PCB,
\* the PCB is a live process that waits for nobody, and the page it executes
\* holds the program it was started with.
RunsItself ==
  (~raced /\ Running("user")) =>
    /\ pcb \in Runnable
    /\ cr3 = pcb /\ esp0 = pcb /\ stk = pcb
    /\ image[cr3] = program[pcb]

\* No execute overwrites the page of another live process: setup_paging has
\* switched to the child's page directory before the image is copied.
ImagesIntact ==
  ~raced => \A p \in Pid \cap pid_bitmap : image[p] = program[p]

\* The sys_execute frame that a child returns to at halt_ret_label, and that
\* holds the argument string pcb->arguments points into, is on its parent's
\* stack and untouched for as long as the child runs.
ParentFrameWaits ==
  (~raced /\ Running("user") /\ parent_pid[pcb] # NoPid) =>
      /\ parent_esp[pcb] = parent_pid[pcb]
      /\ frame[parent_esp[pcb]].pc = "wait"

\* The search loop of schedule(), which runs with interrupts off, always
\* ends, unless the tick hit a Critical point.
SearchEnds == mode = "hung" => raced

\* sys_halt subtracts a bit that is set, so the byte never borrows.
HaltClearsOwnBit == Running("free") /\ ~raced => pcb \in pid_bitmap

\* A pid is handed out with no descriptor left open by its last owner, so a
\* new process starts with stdin and stdout alone: sys_execute does not
\* reset descriptors 2 to 7 and relies on sys_halt for it.
FreePidHoldsNoFiles ==
  ~raced =>
    \A p \in Pid \ pid_bitmap : p # pcb => file_array[p] = {}

\* schedule.c:37 says of the switch "Save old pcb esp, ebp restore current
\* pcb esp, ebp": the esp it restores for a process is one it has saved when
\* that process was last left.
ContextsSaved ==
  Running("user") =>
    \A p \in Runnable : p # pcb => esp_schedule[p].esp = "saved"

\* syscalls.c:228 says that sys_halt updates the PCB "to parent so that we
\* are able to return correctly": a tick that hits sys_halt on the way does
\* not leave the kernel with nothing to run.
HaltReturns == ~(mode = "hung" /\ cpu.pc = "reparent")

\* The kernel neither hangs nor loses a stack, and no context switch hits a
\* Critical point.
Undisturbed == ~raced /\ mode = "run"

\* Round robin: in an undisturbed run a process that can run is given the
\* CPU, however the other processes execute, halt and restart.
NoStarvation ==
  []Undisturbed =>
    \A p \in Pid : p \in Runnable ~> (pcb = p \/ p \notin Runnable)

\* In an undisturbed run a terminal that was started always gets a program
\* that can run again, after every halt, exit or crash of its programs.
ForegroundReturns ==
  []Undisturbed =>
    \A t \in Term :
      t \in numShells ~> \E p \in Runnable : curTerminal[p] = t
=============================================================================

---------------------------- MODULE ProcessInv ----------------------------
(***************************************************************************)
(* The inductive invariant of Process.  Each part says of one piece of the *)
(* state what it looks like at every step of every call, not only in user  *)
(* mode; all of them hold until a context switch hits a Critical point.    *)
(***************************************************************************)
EXTENDS Process

\* a shell launch by Alt-Fn that has not reached its switch on whichTerm
Launching == whichTerm # NoTerm

Choosing == cpu.pc \in {"map", "load", "setpcb"}

\* the sys_execute between "pcb = " and the link has left this process
Leaving(p) == cpu.pc = "link" /\ ~Launching /\ p = cpu.old_pcb

\* runnable, and not what the CPU is executing
Suspended(p) == p \in Runnable /\ (p # pcb \/ Launching) /\ ~Leaving(p)

\* p has been created and has not executed its iret yet
NotEntered(p) ==
  \/ p = pcb /\ cpu.pc = "enter"
  \/ Suspended(p) /\ frame[esp_schedule[p].stack].pc = "enter"

\* the terminal whose foreground process is being replaced
InTransit(t) ==
  \/ t = whichTerm
  \/ pcb \notin pid_bitmap /\ cpu.pc # "link" /\ t = curTerminal[pcb]
  \/ cpu.pc = "link" /\ cpu.old_pcb \notin pid_bitmap
       /\ t = curTerminal[cpu.old_pcb]

Typed == TypeOK /\ pid_bitmap \subseteq Pid

Families ==
  \A p \in pid_bitmap :
    /\ parent_pid[p] # NoPid =>
         /\ parent_pid[p] \in pid_bitmap
         /\ parent_pid[p] # p
         /\ child_pid[parent_pid[p]] = p
         /\ curTerminal[parent_pid[p]] = curTerminal[p]
    /\ child_pid[p] # NoPid =>
         /\ parent_pid[child_pid[p]] = p
         /\ \/ child_pid[p] \in pid_bitmap
            \/ child_pid[p] = pcb /\ cpu.pc \in {"publish", "reparent"}

Terminals ==
  /\ \A p \in pid_bitmap : curTerminal[p] \in numShells
  /\ \A p, q \in Runnable : curTerminal[p] = curTerminal[q] => p = q
  /\ \A t \in numShells :
       InTransit(t) \/ \E p \in Runnable : curTerminal[p] = t
  /\ \A t \in Term :
       InTransit(t) =>
         t \in numShells /\ \A p \in Runnable : curTerminal[p] # t

\* context f on stack s continues process p: in user mode or in one of the
\* steps at which a context switch does no harm
Resumes(p, s, f) ==
  \/ s = p /\ f.pc \in {"user", "repage"}
  \/ /\ s = p /\ f.pc = "free"
     /\ f.old_pcb = p /\ f.next_pcb = parent_pid[p]
     /\ file_array[p] = {}
  \/ /\ f.pc = "enter"
     /\ s = IF parent_pid[p] = NoPid THEN p ELSE parent_pid[p]

\* a suspended process can be resumed where it was interrupted
Contexts ==
  \A p \in Pid :
    Suspended(p) =>
      /\ esp_schedule[p].esp # "old"
      /\ Resumes(p, esp_schedule[p].stack, frame[esp_schedule[p].stack])

\* a parent waits in the sys_execute that its child will return to
Waits ==
  \A p \in pid_bitmap :
    parent_pid[p] # NoPid =>
      \/ NotEntered(p)
      \/ /\ parent_esp[p] = parent_pid[p]
         /\ frame[parent_pid[p]].pc = "wait"

Images == \A p \in pid_bitmap : image[p] = program[p]

Files ==
  \A p \in Pid \ pid_bitmap :
    (p # pcb \/ cpu.pc # "publish") => file_array[p] = {}

\* what the CPU is executing, step by step
AtUser ==
  cpu.pc = "user" =>
    /\ pcb \in Runnable
    /\ cr3 = pcb /\ esp0 = pcb /\ stk = pcb
    /\ intr

AtFree ==
  cpu.pc = "free" =>
    /\ pcb \in Runnable
    /\ stk = pcb
    /\ cpu.old_pcb = pcb /\ cpu.next_pcb = parent_pid[pcb]
    /\ file_array[pcb] = {}

AtExit ==
  cpu.pc = "exit" =>
    /\ pcb \notin pid_bitmap
    /\ stk = pcb

AtReparent ==
  cpu.pc = "reparent" =>
    /\ pcb \notin pid_bitmap
    /\ stk = pcb
    /\ cpu.old_pcb = pcb /\ cpu.next_pcb = parent_pid[pcb]
    /\ parent_pid[pcb] \in pid_bitmap
    /\ child_pid[parent_pid[pcb]] = pcb
    /\ curTerminal[parent_pid[pcb]] = curTerminal[pcb]
    /\ parent_esp[pcb] = parent_pid[pcb]

AtUnstack ==
  cpu.pc = "unstack" =>
    /\ pcb \in Runnable
    /\ stk \notin pid_bitmap
    /\ parent_esp[cpu.old_pcb] = pcb

AtRepage ==
  cpu.pc = "repage" => pcb \in Runnable /\ stk = pcb

AtChoosing ==
  Choosing =>
    /\ cpu.next_pcb \in Pid \ pid_bitmap
    /\ cpu.pc # "map" => cr3 = cpu.next_pcb
    /\ cpu.pc = "setpcb" => image[cpu.next_pcb] = cpu.cmd
    /\ IF attemptExit
         THEN ~Launching /\ pcb \notin pid_bitmap /\ stk = pcb
         ELSE pcb \in Runnable /\ (Launching \/ stk = pcb)

AtLink ==
  cpu.pc = "link" =>
    /\ pcb \notin pid_bitmap
    /\ cpu.next_pcb = pcb /\ child_pid[pcb] = NoPid
    /\ cr3 = pcb /\ image[pcb] = cpu.cmd
    /\ IF attemptExit
         THEN ~Launching /\ cpu.old_pcb \notin pid_bitmap
              /\ stk \notin pid_bitmap
         ELSE cpu.old_pcb \in Runnable /\ (Launching \/ stk = cpu.old_pcb)

AtPublish ==
  cpu.pc = "publish" =>
    /\ pcb \notin pid_bitmap
    /\ cpu.next_pcb = pcb /\ child_pid[pcb] = NoPid
    /\ cr3 = pcb /\ image[pcb] = program[pcb]
    /\ IF parent_pid[pcb] = NoPid
         THEN intr => stk \notin pid_bitmap
         ELSE /\ stk = parent_pid[pcb]
              /\ stk \in pid_bitmap
              /\ child_pid[stk] = pcb
              /\ curTerminal[stk] = curTerminal[pcb]

AtEnter ==
  cpu.pc = "enter" =>
    /\ pcb \in Runnable
    /\ cr3 = pcb
    /\ IF parent_pid[pcb] = NoPid
         THEN (intr /\ stk \in pid_bitmap) => stk = pcb
         ELSE stk = parent_pid[pcb]

\* the CPU never executes a sys_execute that waits; only a launch, which
\* masks interrupts, carries whichTerm, only an exit attemptExit
Flags ==
  /\ cpu.pc # "wait"
  /\ Launching => ~intr /\ (Choosing \/ cpu.pc = "link")
  /\ attemptExit => Choosing \/ cpu.pc = "link"

Steps ==
  /\ AtUser /\ AtFree /\ AtExit /\ AtReparent /\ AtUnstack /\ AtRepage
  /\ AtChoosing /\ AtLink /\ AtPublish /\ AtEnter
  /\ Flags

Consistent ==
  /\ Typed /\ Families /\ Terminals /\ Contexts /\ Waits /\ Images /\ Files
  /\ Steps
  /\ mode # "hung"

\* The inductive invariant: the process table, the suspended contexts and
\* the step of the running system call fit together as sys_execute, sys_halt
\* and schedule() expect, until a context switch hits a Critical point.
IInv == ~raced => Consistent
=============================================================================

--------------------------- MODULE ProcessProofs ---------------------------
(***************************************************************************)
(* Proofs about Process.  One lemma per action shows that it keeps the     *)
(* invariant of module ProcessInv; the theorems at the end follow from it. *)
(***************************************************************************)
EXTENDS ProcessInv, FiniteSetTheorems, TLAPS

\* A fresh context at a step of the code has the type of one.
LEMMA AtContext ==
  ASSUME NEW pc \in PC
  PROVE  At(pc) \in Context /\ At(pc).pc = pc
BY ProcessAssumption DEF At, Context, Pid

\* What sys_execute has chosen when it reaches setup_paging.
LEMMA StartingContext ==
  ASSUME NEW f \in Pid, NEW c \in Prog
  PROVE  /\ Starting(f, c) \in Context
         /\ Starting(f, c).pc = "map"
         /\ Starting(f, c).next_pcb = f
         /\ Starting(f, c).cmd = c
BY ProcessAssumption DEF Starting, Context, Pid, PC

\* Outside the critical points, what a tick or a key interrupts is a process
\* that can be resumed where it stands.
LEMMA Interrupted ==
  ASSUME Consistent, intr, ~Critical
  PROVE  /\ pcb \in Runnable /\ stk \in pid_bitmap
         /\ ~Launching /\ ~attemptExit
         /\ cpu.pc \in {"user", "repage", "free", "enter"}
         /\ Resumes(pcb, stk, cpu)
<1>1. cpu \in Context /\ pcb \in pid_bitmap /\ stk \in pid_bitmap
  BY DEF Consistent, Typed, TypeOK, Critical
<1>2. ~Choosing /\ cpu.pc \notin {"link", "publish", "exit", "reparent", "unstack", "wait"}
  BY <1>1 DEF Consistent, Critical, Choosing, Steps, AtLink, AtPublish,
     AtExit, AtReparent, AtUnstack, Flags
<1>3. cpu.pc \in {"user", "repage", "free", "enter"}
  BY <1>1, <1>2 DEF Context, PC, Choosing
<1>4. ~Launching /\ ~attemptExit
  BY <1>2 DEF Consistent, Steps, Flags
<1> QED BY <1>1, <1>3, <1>4 DEF Consistent, Resumes, Steps, AtUser, AtFree,
           AtRepage, AtEnter

\* Two runnable processes never continue on the same kernel stack.
LEMMA SeparateStacks ==
  ASSUME Consistent,
         NEW p \in Runnable, NEW s \in Pid, NEW f, Resumes(p, s, f),
         NEW q \in Runnable, NEW r \in Pid, NEW g, Resumes(q, r, g),
         p # q
  PROVE  s # r
<1>1. s \in {p, parent_pid[p]} /\ r \in {q, parent_pid[q]}
  BY DEF Resumes
<1>2. p \in pid_bitmap /\ child_pid[p] = NoPid
  BY DEF Runnable
<1>3. q \in pid_bitmap /\ child_pid[q] = NoPid
  BY DEF Runnable
<1>4. NoPid \notin Pid
  BY DEF NoPid, Pid
<1> QED BY <1>1, <1>2, <1>3, <1>4 DEF Consistent, Families, Runnable

\* A tick outside the critical points leaves the saved contexts of all other
\* processes usable, and none of them on the stack in use.
LEMMA OthersResume ==
  ASSUME Consistent, intr, ~Critical
  PROVE  \A p \in Runnable : p # pcb =>
           /\ esp_schedule[p].esp # "old"
           /\ Resumes(p, esp_schedule[p].stack, frame[esp_schedule[p].stack])
           /\ esp_schedule[p].stack \in Pid
           /\ esp_schedule[p].stack # stk
<1> SUFFICES ASSUME NEW p \in Runnable, p # pcb
             PROVE  /\ esp_schedule[p].esp # "old"
                    /\ Resumes(p, esp_schedule[p].stack, frame[esp_schedule[p].stack])
                    /\ esp_schedule[p].stack \in Pid
                    /\ esp_schedule[p].stack # stk
  OBVIOUS
<1>1. pcb \in Runnable /\ cpu.pc # "link" /\ Resumes(pcb, stk, cpu)
  BY Interrupted
<1>2. p \in Pid /\ Suspended(p)
  BY <1>1 DEF Runnable, Suspended, Leaving
<1>3. /\ esp_schedule[p].esp # "old"
      /\ Resumes(p, esp_schedule[p].stack, frame[esp_schedule[p].stack])
  BY <1>2 DEF Consistent, Contexts
<1>4. stk \in Pid /\ esp_schedule[p].stack \in Pid
  BY <1>2 DEF Consistent, Typed, TypeOK
<1> QED BY <1>1, <1>3, <1>4, SeparateStacks

\* A process that schedule() switches to is at a step that the invariant
\* describes.
LEMMA Resumed ==
  ASSUME Consistent, NEW q \in Runnable, Interruptible, ~Launching, ~attemptExit,
         NEW s \in Pid, NEW f \in Context, Resumes(q, s, f),
         UNCHANGED <<table, file_array, whichTerm, attemptExit, intr>>,
         pcb' = q, stk' = s, cpu' = f, cr3' = q, esp0' = q
  PROVE  Steps'
<1>1. q \in Runnable' /\ parent_pid' = parent_pid /\ file_array' = file_array /\ intr'
  BY DEF Runnable, table, Interruptible
<1>2. f.pc \in {"user", "repage", "free", "enter"}
  BY DEF Resumes
<1>3. ~Launching' /\ ~attemptExit' /\ ~Choosing'
  BY <1>2 DEF Launching, Choosing
<1> QED BY <1>1, <1>2, <1>3 DEF Resumes, Steps, AtUser, AtFree, AtExit,
           AtReparent, AtUnstack, AtRepage, AtChoosing, AtLink, AtPublish,
           AtEnter, Flags

\* A step of a call that changes neither the table nor what is suspended, and
\* neither comes from nor leads to a point where one of them is being changed,
\* keeps the parts of the invariant that are about these.
LEMMA SameTable ==
  ASSUME Consistent,
         UNCHANGED <<pid_bitmap, parent_pid, child_pid, curTerminal, pcb,
                     parent_esp, esp_schedule, frame, file_array, whichTerm,
                     numShells>>,
         cpu.pc \notin {"link", "publish", "reparent", "enter"},
         cpu'.pc \notin {"link", "publish", "reparent", "enter"}
  PROVE  Families' /\ Terminals' /\ Contexts' /\ Waits'
<1>1. Runnable' = Runnable
  BY DEF Runnable
<1>2. \A p \in Pid : Suspended(p)' <=> Suspended(p)
  BY <1>1 DEF Suspended, Leaving, Launching
<1>3. Families'
  <2>1. Families
    BY DEF Consistent
  <2> QED BY <2>1 DEF Families
<1>4. Terminals'
  <2>1. Terminals /\ numShells \subseteq Term
    BY DEF Consistent, Typed, TypeOK
  <2>2. \A t \in Term : InTransit(t)' <=> InTransit(t)
    BY DEF InTransit
  <2> QED BY <1>1, <2>1, <2>2 DEF Terminals
<1>5. Contexts'
  <2> SUFFICES ASSUME NEW p \in Pid, Suspended(p)
               PROVE  (/\ esp_schedule[p].esp # "old"
                       /\ Resumes(p, esp_schedule[p].stack,
                                  frame[esp_schedule[p].stack]))'
    BY <1>2 DEF Contexts
  <2>1. /\ esp_schedule[p].esp # "old"
        /\ Resumes(p, esp_schedule[p].stack, frame[esp_schedule[p].stack])
    BY DEF Consistent, Contexts
  <2> QED BY <2>1 DEF Resumes
<1>6. Waits'
  <2>1. Waits /\ pid_bitmap \subseteq Pid
    BY DEF Consistent, Typed
  <2>2. \A p \in Pid : NotEntered(p)' <=> NotEntered(p)
    BY <1>2 DEF NotEntered
  <2> QED BY <2>1, <2>2 DEF Waits
<1> QED BY <1>3, <1>4, <1>5, <1>6

\* sys_execute up to the choice of a pid (syscalls.c:74) keeps the invariant.
LEMMA ExecuteKeeps ==
  ASSUME NEW c \in Prog, Consistent, Execute(c)
  PROVE  Consistent'
<1> USE DEF Consistent, Running, GoTo, table, context, globals, machine
<1> PICK f \in Pid : FirstFree(f) /\ cpu' = Starting(f, c)
  BY DEF Execute
<1>0. /\ cpu \in Context /\ cpu' \in Context
      /\ cpu.pc = "user" /\ cpu'.pc = "map" /\ cpu'.cmd = c
      /\ cpu'.next_pcb \in Pid \ pid_bitmap
  BY StartingContext, ProcessAssumption DEF Execute, FirstFree, Typed, TypeOK
<1>1. Typed'
  BY <1>0, ProcessAssumption DEF Execute, FirstFree, Typed, TypeOK, Context,
     Pid, NoPid, Fd
<1>2. Families'
  BY <1>0 DEF Execute, Families
<1>3. Terminals'
  BY <1>0 DEF Execute, Terminals, InTransit, Runnable
<1>4. Contexts'
  BY <1>0 DEF Execute, Contexts, Resumes, Suspended, Launching, Leaving,
     Runnable
<1>5. Waits'
  BY <1>0 DEF Execute, Waits, NotEntered, Suspended, Launching, Leaving,
     Runnable
<1>6. Images' /\ Files' /\ mode' # "hung"
  BY <1>0 DEF Execute, Images, Files
<1>7. Steps'
  BY <1>0 DEF Execute, Steps, AtUser, AtFree, AtExit, AtReparent, AtUnstack,
     AtRepage, AtChoosing, AtLink, AtPublish, AtEnter, Flags, Launching,
     Runnable
<1> QED BY <1>1, <1>2, <1>3, <1>4, <1>5, <1>6, <1>7

\* So does setup_paging in sys_execute (syscalls.c:106),
LEMMA MapKeeps ==
  ASSUME Consistent, ExecuteMap
  PROVE  Consistent'
<1> USE DEF Consistent, Running, GoTo, table, context, globals, machine
<1>0. /\ cpu \in Context /\ cpu' \in Context
      /\ cpu.pc = "map" /\ cpu'.pc = "load"
      /\ cpu'.next_pcb = cpu.next_pcb /\ cpu'.cmd = cpu.cmd
      /\ cpu.next_pcb \in Pid \ pid_bitmap
  BY ProcessAssumption DEF ExecuteMap, SetupPaging, Typed, TypeOK, Context,
     PC, Pid, NoPid, Steps, AtUser, AtFree, AtExit, AtReparent, AtUnstack,
     AtRepage, AtChoosing, Choosing, AtLink, AtPublish, AtEnter, Runnable
<1>1. Typed'
  BY <1>0, ProcessAssumption DEF ExecuteMap, SetupPaging, Typed, TypeOK,
     Context, Pid, NoPid, Fd
<1>2. Families'
  BY <1>0 DEF ExecuteMap, Families
<1>3. Terminals'
  BY <1>0 DEF ExecuteMap, Terminals, InTransit, Runnable
<1>4. Contexts'
  BY <1>0 DEF ExecuteMap, Contexts, Resumes, Suspended, Launching, Leaving,
     Runnable
<1>5. Waits'
  BY <1>0 DEF ExecuteMap, Waits, NotEntered, Suspended, Launching, Leaving,
     Runnable
<1>6. Images' /\ Files' /\ mode' # "hung"
  BY <1>0 DEF ExecuteMap, Images, Files
<1>7. Steps'
  BY <1>0 DEF ExecuteMap, SetupPaging, Steps, AtUser, AtFree, AtExit,
     AtReparent, AtUnstack, AtRepage, AtChoosing, AtLink, AtPublish, AtEnter,
     Flags, Choosing, Launching, Runnable
<1> QED BY <1>1, <1>2, <1>3, <1>4, <1>5, <1>6, <1>7

\* the copy of the program image (syscalls.c:116),
LEMMA LoadKeeps ==
  ASSUME Consistent, ExecuteLoad
  PROVE  Consistent'
<1> USE DEF Consistent, Running, GoTo, table, context, globals, machine
<1>0. /\ cpu \in Context /\ cpu' \in Context /\ cpu.cmd \in Prog
      /\ cpu.pc = "load" /\ cpu'.pc = "setpcb"
      /\ cpu'.next_pcb = cpu.next_pcb /\ cpu'.cmd = cpu.cmd
      /\ cr3 = cpu.next_pcb /\ cr3 \in Pid \ pid_bitmap
  BY ProcessAssumption DEF ExecuteLoad, Typed, TypeOK, Context, PC, Pid,
     NoPid, Steps, AtUser, AtFree, AtExit, AtReparent, AtUnstack, AtRepage,
     AtChoosing, Choosing, AtLink, AtPublish, AtEnter, Runnable
<1>1. Typed'
  BY <1>0, ProcessAssumption DEF ExecuteLoad, Typed, TypeOK, Context, Pid,
     NoPid, Fd
<1>2. Families'
  BY <1>0 DEF ExecuteLoad, Families
<1>3. Terminals'
  BY <1>0 DEF ExecuteLoad, Terminals, InTransit, Runnable
<1>4. Contexts'
  BY <1>0 DEF ExecuteLoad, Contexts, Resumes, Suspended, Launching, Leaving,
     Runnable
<1>5. Waits'
  BY <1>0 DEF ExecuteLoad, Waits, NotEntered, Suspended, Launching, Leaving,
     Runnable
<1>6. Images' /\ Files' /\ mode' # "hung"
  BY <1>0 DEF ExecuteLoad, Images, Files
<1>7. Steps'
  BY <1>0 DEF ExecuteLoad, Steps, AtUser, AtFree, AtExit, AtReparent,
     AtUnstack, AtRepage, AtChoosing, AtLink, AtPublish, AtEnter, Flags,
     Choosing, Launching, Runnable, Typed, TypeOK
<1> QED BY <1>1, <1>2, <1>3, <1>4, <1>5, <1>6, <1>7

\* the change of pcb to the new process (syscalls.c:119),
LEMMA SetPcbKeeps ==
  ASSUME Consistent, ExecuteSetPcb
  PROVE  Consistent'
<1> USE DEF Consistent, Running, GoTo, table, context, globals, machine
<1>0. /\ cpu \in Context /\ cpu' \in Context
      /\ cpu.pc = "setpcb" /\ cpu'.pc = "link"
      /\ cpu'.next_pcb = cpu.next_pcb /\ cpu'.cmd = cpu.cmd /\ cpu'.old_pcb = pcb
      /\ cpu.next_pcb \in Pid \ pid_bitmap
      /\ child_pid \in [Pid -> Pid \cup {NoPid}]
  BY ProcessAssumption DEF ExecuteSetPcb, Unlink, Typed, TypeOK, Context, PC,
     Pid, NoPid, Steps, AtUser, AtFree, AtExit, AtReparent, AtUnstack,
     AtRepage, AtChoosing, Choosing, AtLink, AtPublish, AtEnter, Runnable
<1>a. Runnable' = Runnable
  BY <1>0 DEF Runnable, ExecuteSetPcb, Unlink
<1>1. Typed'
  BY <1>0, <1>a, ProcessAssumption DEF ExecuteSetPcb, Unlink, Typed, TypeOK,
     Context, Pid, NoPid, Fd
<1>2. Families'
  BY <1>0, <1>a DEF ExecuteSetPcb, Unlink, Families
<1>3. Terminals'
  BY <1>0, <1>a DEF ExecuteSetPcb, Unlink, Terminals, InTransit, Runnable,
     Typed, TypeOK, Families, Steps, AtUser, AtFree, AtExit, AtReparent,
     AtUnstack, AtRepage, AtChoosing, Choosing, AtLink, AtPublish, AtEnter,
     Pid, NoPid, Launching, Flags, NoTerm, Term
<1>4. Contexts'
  BY <1>0, <1>a DEF ExecuteSetPcb, Unlink, Contexts, Resumes, Suspended,
     Launching, Leaving, Runnable, Typed, TypeOK, Families, Steps, AtUser,
     AtFree, AtExit, AtReparent, AtUnstack, AtRepage, AtChoosing, Choosing,
     AtLink, AtPublish, AtEnter, Pid, NoPid, Flags
<1>5. Waits'
  BY <1>0, <1>a DEF ExecuteSetPcb, Unlink, Waits, Resumes, NotEntered,
     Suspended, Launching, Leaving, Runnable, Typed, TypeOK, Families,
     Contexts, Steps, AtUser, AtFree, AtExit, AtReparent, AtUnstack, AtRepage,
     AtChoosing, Choosing, AtLink, AtPublish, AtEnter, Pid, NoPid, Flags
<1>6. Images' /\ Files' /\ mode' # "hung"
  BY <1>0, <1>a DEF ExecuteSetPcb, Images, Files
<1>7. Steps'
  BY <1>0, <1>a DEF ExecuteSetPcb, Unlink, Steps, AtUser, AtFree, AtExit,
     AtReparent, AtUnstack, AtRepage, AtChoosing, AtLink, AtPublish, AtEnter,
     Flags, Choosing, Launching
<1> QED BY <1>1, <1>2, <1>3, <1>4, <1>5, <1>6, <1>7

\* the choice of parent and terminal (syscalls.c:123),
LEMMA LinkKeeps ==
  ASSUME Consistent, ExecuteLink
  PROVE  Consistent'
<1> USE DEF Consistent, Running, GoTo, table, context, globals, machine
<1>0. /\ cpu \in Context /\ cpu' \in Context
      /\ cpu.pc = "link" /\ cpu'.pc = "publish" /\ cpu'.next_pcb = pcb
      /\ cpu.old_pcb \in Pid /\ cpu.cmd \in Prog
      /\ pcb \in Pid \ pid_bitmap
  BY ProcessAssumption DEF ExecuteLink, NewParent, NewTerminal, Typed, TypeOK,
     Context, PC, Pid, NoPid, Steps, AtUser, AtFree, AtExit, AtReparent,
     AtUnstack, AtRepage, AtChoosing, Choosing, AtLink, AtPublish, AtEnter,
     Runnable
<1>1. Typed'
  <2>1. NewParent \in Pid \cup {NoPid} /\ NewTerminal \in Term
    BY <1>0 DEF NewParent, NewTerminal, Typed, TypeOK, NoTerm
  <2>2. /\ parent_pid' \in [Pid -> Pid \cup {NoPid}]
        /\ curTerminal' \in [Pid -> Term]
        /\ child_pid' \in [Pid -> Pid \cup {NoPid}]
        /\ program' \in [Pid -> Prog]
    BY <1>0, <2>1 DEF ExecuteLink, Typed, TypeOK
  <2>3. file_array' \in [Pid -> SUBSET Fd]
    BY <1>0, ProcessAssumption DEF ExecuteLink, Typed, TypeOK, Fd
  <2> QED BY <1>0, <2>2, <2>3 DEF ExecuteLink, Typed, TypeOK
<1>2. Families'
  BY <1>0 DEF ExecuteLink, NewParent, Families, Typed, TypeOK, Steps, AtUser,
     AtLink, Runnable, NoPid
<1>3. Terminals'
  <2>1. numShells \subseteq Term /\ NoTerm \notin Term
    BY DEF Typed, TypeOK, Term, NoTerm
  <2>2. curTerminal'[pcb] = NewTerminal /\ \A p \in pid_bitmap : curTerminal'[p] = curTerminal[p]
    BY <1>0 DEF ExecuteLink, Typed, TypeOK
  <2>3. \A t \in Term : InTransit(t)' <=> t = NewTerminal
    BY <1>0, <2>1, <2>2 DEF InTransit, ExecuteLink
  <2>4. CASE NewParent = NoPid
    <3>1. Runnable' = Runnable
      BY <2>4 DEF Runnable, ExecuteLink
    <3>2. whichTerm # NoTerm \/ attemptExit
      BY <1>0, <2>4 DEF NewParent, NoPid, Pid
    <3>3. \A t \in Term : InTransit(t) <=> t = NewTerminal
      BY <1>0, <2>1, <3>2 DEF NewTerminal, InTransit, Launching, Steps,
         AtLink, Runnable
    <3> QED BY <2>1, <2>2, <2>3, <3>1, <3>3 DEF Terminals, ExecuteLink,
               Runnable
  <2>5. CASE NewParent # NoPid
    <3>1. /\ NewTerminal = curTerminal[cpu.old_pcb] /\ cpu.old_pcb \in Runnable
          /\ \A t \in Term : ~InTransit(t)
      BY <1>0, <2>1, <2>5 DEF NewParent, NewTerminal, InTransit, Steps,
         AtLink, Runnable
    <3>2. Runnable' = Runnable \ {cpu.old_pcb}
      BY <1>0, <2>5 DEF Runnable, ExecuteLink, Typed, TypeOK, NoPid, Pid
    <3> QED BY <2>1, <2>2, <2>3, <3>1, <3>2 DEF Terminals, ExecuteLink,
               Runnable
  <2> QED BY <2>4, <2>5
<1>4. Contexts'
  BY <1>0 DEF ExecuteLink, NewParent, NewTerminal, Contexts, Resumes,
     Suspended, Launching, Leaving, Runnable, Typed, TypeOK, Families, Steps,
     AtUser, AtFree, AtExit, AtReparent, AtUnstack, AtRepage, AtChoosing,
     Choosing, AtLink, AtPublish, AtEnter, Pid, NoPid, Flags
<1>5. Waits'
  BY <1>0 DEF ExecuteLink, NewParent, NewTerminal, Waits, Resumes, NotEntered,
     Suspended, Launching, Leaving, Runnable, Typed, TypeOK, Families,
     Contexts, Steps, AtUser, AtFree, AtExit, AtReparent, AtUnstack, AtRepage,
     AtChoosing, Choosing, AtLink, AtPublish, AtEnter, Pid, NoPid, Flags
<1>6. Images' /\ Files' /\ mode' # "hung"
  BY <1>0 DEF ExecuteLink, Images, Files
<1>7. Steps'
  BY <1>0 DEF ExecuteLink, NewParent, NewTerminal, Steps, AtUser, AtFree,
     AtExit, AtReparent, AtUnstack, AtRepage, AtChoosing, AtLink, AtPublish,
     AtEnter, Flags, Choosing, Launching, Runnable, Typed, TypeOK, NoPid
<1> QED BY <1>1, <1>2, <1>3, <1>4, <1>5, <1>6, <1>7

\* the setting of the pid bit (syscalls.c:166),
LEMMA PublishKeeps ==
  ASSUME Consistent, ExecutePublish
  PROVE  Consistent'
<1> USE DEF Consistent, Running, GoTo, table, context, globals, machine
<1>0. /\ cpu \in Context /\ cpu' \in Context
      /\ cpu.pc = "publish" /\ cpu'.pc = "enter"
      /\ cpu.next_pcb = pcb /\ pcb \in Pid \ pid_bitmap
  BY ProcessAssumption DEF ExecutePublish, SetBit, Typed, TypeOK, Context, PC,
     Pid, NoPid, Steps, AtUser, AtFree, AtExit, AtReparent, AtUnstack,
     AtRepage, AtChoosing, Choosing, AtLink, AtPublish, AtEnter, Runnable
<1>1. Typed'
  <2>1. pid_bitmap' = pid_bitmap \cup {pcb} /\ pid_bitmap' \subseteq Pid
    BY <1>0 DEF ExecutePublish, SetBit, Typed
  <2>2. Pid \subseteq 0 .. BITMAP_WIDTH - 1
    BY ProcessAssumption DEF Pid
  <2> QED BY <1>0, <2>1, <2>2 DEF ExecutePublish, Typed, TypeOK
<1>2. Families'
  BY <1>0 DEF ExecutePublish, SetBit, Families, Steps, AtPublish
<1>3. Terminals'
  BY <1>0 DEF ExecutePublish, SetBit, Terminals, InTransit, Runnable, Typed,
     TypeOK, Families, Steps, AtChoosing, Choosing, AtLink, AtPublish,
     AtEnter, Launching, Flags, NoTerm, Term
<1>4. Contexts'
  BY <1>0 DEF ExecutePublish, SetBit, Contexts, Resumes, Suspended, Launching,
     Leaving, Runnable, Typed, TypeOK, Families, Steps, AtUser, AtFree,
     AtExit, AtReparent, AtUnstack, AtRepage, AtChoosing, Choosing, AtLink,
     AtPublish, AtEnter, Pid, NoPid, Flags
<1>5. Waits'
  BY <1>0 DEF ExecutePublish, SetBit, Waits, Resumes, NotEntered, Suspended,
     Launching, Leaving, Runnable, Typed, TypeOK, Families, Contexts, Steps,
     AtUser, AtFree, AtExit, AtReparent, AtUnstack, AtRepage, AtChoosing,
     Choosing, AtLink, AtPublish, AtEnter, Pid, NoPid, Flags
<1>6. Images' /\ Files' /\ mode' # "hung"
  BY <1>0 DEF ExecutePublish, SetBit, Images, Files, Steps, AtPublish
<1>7. Steps'
  BY <1>0 DEF ExecutePublish, SetBit, Steps, AtUser, AtFree, AtExit,
     AtReparent, AtUnstack, AtRepage, AtChoosing, AtLink, AtPublish, AtEnter,
     Flags, Choosing, Launching, Runnable, Typed, TypeOK, Families, Waits,
     NotEntered, Suspended, Leaving, Pid, NoPid
<1> QED BY <1>1, <1>2, <1>3, <1>4, <1>5, <1>6, <1>7

\* and the entry into user mode (syscalls.c:168).
LEMMA EnterKeeps ==
  ASSUME Consistent, ExecuteEnter
  PROVE  Consistent'
<1> USE DEF Consistent, Running, GoTo, table, context, globals, machine
<1>0. /\ cpu \in Context /\ cpu' \in Context /\ At("wait") \in Context
      /\ cpu.pc = "enter" /\ cpu'.pc = "user" /\ At("wait").pc = "wait"
      /\ pcb \in Runnable /\ stk \in Pid
  BY ProcessAssumption, AtContext DEF ExecuteEnter, SaveParentEsp,
     UserContext, Typed, TypeOK, Context, PC, Pid, NoPid, Steps, AtUser,
     AtFree, AtExit, AtReparent, AtUnstack, AtRepage, AtChoosing, Choosing,
     AtLink, AtPublish, AtEnter, Runnable
<1>a. \A p \in Runnable : p # pcb =>
        /\ Suspended(p)
        /\ Resumes(p, esp_schedule[p].stack, frame[esp_schedule[p].stack])
        /\ frame'[esp_schedule[p].stack] = frame[esp_schedule[p].stack]
  <2> SUFFICES ASSUME NEW p \in Runnable, p # pcb
               PROVE  /\ Suspended(p)
                      /\ Resumes(p, esp_schedule[p].stack, frame[esp_schedule[p].stack])
                      /\ frame'[esp_schedule[p].stack] = frame[esp_schedule[p].stack]
    OBVIOUS
  <2>1. p \in Pid /\ Suspended(p)
    BY <1>0 DEF Runnable, Suspended, Leaving
  <2>2. Resumes(p, esp_schedule[p].stack, frame[esp_schedule[p].stack])
    BY <2>1 DEF Contexts
  <2>3. CASE parent_pid[pcb] = NoPid
    BY <2>1, <2>2, <2>3 DEF ExecuteEnter
  <2>4. CASE parent_pid[pcb] # NoPid
    <3>1. Resumes(pcb, stk, cpu)
      BY <1>0, <2>4 DEF Resumes, Steps, AtEnter
    <3>2. esp_schedule[p].stack # stk
      BY <1>0, <2>1, <2>2, <3>1, SeparateStacks DEF Typed, TypeOK
    <3> QED BY <1>0, <2>1, <2>2, <2>4, <3>2 DEF ExecuteEnter
  <2> QED BY <2>3, <2>4
<1>b. Runnable' = Runnable /\ ~Launching'
  BY <1>0 DEF Runnable, ExecuteEnter, Launching, Steps, Flags, Choosing
<1>1. Typed'
  BY <1>0, ProcessAssumption DEF ExecuteEnter, SaveParentEsp, Typed, TypeOK,
     Context, Pid, NoPid, Fd
<1>2. Families'
  BY <1>0 DEF ExecuteEnter, SaveParentEsp, Families, Typed, TypeOK, Steps,
     AtUser, AtFree, AtReparent, AtUnstack, AtChoosing, Choosing, AtLink,
     AtPublish, AtEnter, Runnable, Pid, NoPid, Launching
<1>3. Terminals'
  <2>1. Terminals /\ numShells \subseteq Term
    BY DEF Typed, TypeOK
  <2>2. /\ UNCHANGED <<pid_bitmap, curTerminal, numShells, whichTerm, pcb>>
        /\ pcb \in pid_bitmap
    BY <1>0 DEF ExecuteEnter, Runnable
  <2>3. \A t \in Term : InTransit(t)' <=> InTransit(t)
    BY <1>0, <2>2 DEF InTransit
  <2> QED BY <1>b, <2>1, <2>2, <2>3 DEF Terminals
<1>4. Contexts'
  <2> SUFFICES ASSUME NEW p \in Pid, p \in Runnable, p # pcb
               PROVE  (/\ esp_schedule[p].esp # "old"
                       /\ Resumes(p, esp_schedule[p].stack,
                                  frame[esp_schedule[p].stack]))'
    BY <1>b DEF Contexts, Suspended, ExecuteEnter
  <2>1. esp_schedule[p].esp # "old"
    BY <1>a DEF Contexts
  <2>2. UNCHANGED <<esp_schedule, parent_pid, file_array>>
    BY DEF ExecuteEnter
  <2> QED BY <1>a, <2>1, <2>2 DEF Resumes
<1>5. Waits'
  <2> SUFFICES ASSUME NEW p \in pid_bitmap, parent_pid[p] # NoPid, ~NotEntered(p)'
               PROVE  (/\ parent_esp[p] = parent_pid[p]
                       /\ frame[parent_pid[p]].pc = "wait")'
    BY DEF Waits, ExecuteEnter
  <2>1. CASE p = pcb
    BY <1>0, <2>1 DEF ExecuteEnter, SaveParentEsp, Steps, AtEnter, Typed,
       TypeOK
  <2>2. CASE p # pcb
    <3>1. ~NotEntered(p)
      BY <1>0, <1>a, <1>b, <2>2 DEF NotEntered, Suspended, Leaving,
         ExecuteEnter
    <3>2. parent_esp[p] = parent_pid[p] /\ frame[parent_pid[p]].pc = "wait"
      BY <3>1 DEF Waits
    <3> QED BY <1>0, <2>2, <3>2 DEF ExecuteEnter, SaveParentEsp
  <2> QED BY <2>1, <2>2
<1>6. Images' /\ Files' /\ mode' # "hung"
  BY <1>0 DEF ExecuteEnter, Images, Files
<1>7. Steps'
  BY <1>0 DEF ExecuteEnter, SaveParentEsp, Steps, AtUser, AtFree, AtExit,
     AtReparent, AtUnstack, AtRepage, AtChoosing, AtLink, AtPublish, AtEnter,
     Flags, Choosing, Launching, Runnable, Typed, TypeOK, Families, Waits,
     NotEntered, Suspended, Leaving, Pid, NoPid
<1> QED BY <1>1, <1>2, <1>3, <1>4, <1>5, <1>6, <1>7

\* sys_halt, reached by the call or by an exception, closes the descriptors
\* and keeps the invariant.
LEMMA CloseKeeps ==
  ASSUME NEW b \in BOOLEAN, Consistent, HaltClose(b)
  PROVE  Consistent'
<1> USE DEF Consistent, Running, GoTo, table, context, globals, machine
<1>0. /\ cpu \in Context /\ cpu' \in Context
      /\ cpu.pc = "user" /\ cpu'.pc = "free"
      /\ cpu'.old_pcb = pcb /\ cpu'.next_pcb = parent_pid[pcb]
  BY ProcessAssumption DEF HaltClose, CloseAll, At, Typed, TypeOK, Context,
     PC, Pid, NoPid, Steps, AtUser, AtFree, AtExit, AtReparent, AtUnstack,
     AtRepage, AtChoosing, Choosing, AtLink, AtPublish, AtEnter, Runnable
<1>1. Typed'
  BY <1>0, ProcessAssumption DEF HaltClose, CloseAll, Typed, TypeOK, Context,
     Pid, NoPid, Fd
<1>2. Families'
  BY <1>0 DEF HaltClose, CloseAll, Families, Typed, TypeOK, Steps, AtUser,
     AtFree, AtReparent, AtUnstack, AtChoosing, Choosing, AtLink, AtPublish,
     AtEnter, Runnable, Pid, NoPid, Launching
<1>3. Terminals'
  BY <1>0 DEF HaltClose, CloseAll, Terminals, InTransit, Runnable, Typed,
     TypeOK, Families, Steps, AtUser, AtFree, AtExit, AtReparent, AtUnstack,
     AtRepage, AtChoosing, Choosing, AtLink, AtPublish, AtEnter, Pid, NoPid,
     Launching, Flags, NoTerm, Term
<1>4. Contexts'
  BY <1>0 DEF HaltClose, CloseAll, Contexts, Resumes, Suspended, Launching,
     Leaving, Runnable, Typed, TypeOK, Families, Steps, AtUser, AtFree,
     AtExit, AtReparent, AtUnstack, AtRepage, AtChoosing, Choosing, AtLink,
     AtPublish, AtEnter, Pid, NoPid, Flags
<1>5. Waits'
  BY <1>0 DEF HaltClose, CloseAll, Waits, Resumes, NotEntered, Suspended,
     Launching, Leaving, Runnable, Typed, TypeOK, Families, Contexts, Steps,
     AtUser, AtFree, AtExit, AtReparent, AtUnstack, AtRepage, AtChoosing,
     Choosing, AtLink, AtPublish, AtEnter, Pid, NoPid, Flags
<1>6. Images' /\ Files' /\ mode' # "hung"
  BY <1>0 DEF HaltClose, CloseAll, Images, Files
<1>7. Steps'
  BY <1>0 DEF HaltClose, CloseAll, Steps, AtUser, AtFree, AtExit, AtReparent,
     AtUnstack, AtRepage, AtChoosing, AtLink, AtPublish, AtEnter, Flags,
     Choosing, Launching, Runnable, Typed, TypeOK, Families, Waits,
     NotEntered, Suspended, Leaving, Pid, NoPid
<1> QED BY <1>1, <1>2, <1>3, <1>4, <1>5, <1>6, <1>7

\* So does its clearing of the pid bit (syscalls.c:267),
LEMMA FreeKeeps ==
  ASSUME Consistent, HaltFree
  PROVE  Consistent'
<1> USE DEF Consistent, Running, GoTo, table, context, globals, machine
<1>0. /\ cpu \in Context /\ cpu' \in Context
      /\ cpu.pc = "free" /\ cpu'.pc = IF parent_pid[pcb] = NoPid THEN "exit" ELSE "reparent"
      /\ cpu'.old_pcb = pcb /\ cpu'.next_pcb = parent_pid[pcb]
      /\ pcb \in pid_bitmap /\ pid_bitmap' = pid_bitmap \ {pcb}
  BY ProcessAssumption DEF HaltFree, ClearBit, Typed, TypeOK, Context, PC,
     Pid, NoPid, Steps, AtUser, AtFree, AtExit, AtReparent, AtUnstack,
     AtRepage, AtChoosing, Choosing, AtLink, AtPublish, AtEnter, Runnable
<1>1. Typed'
  BY <1>0, ProcessAssumption DEF HaltFree, Typed, TypeOK, Context, Pid, NoPid,
     Fd
<1>2. Families'
  BY <1>0 DEF HaltFree, Families, Typed, TypeOK, Steps, AtUser, AtFree,
     AtReparent, AtUnstack, AtChoosing, Choosing, AtLink, AtPublish, AtEnter,
     Runnable, Pid, NoPid, Launching
<1>3. Terminals'
  BY <1>0 DEF HaltFree, Terminals, InTransit, Runnable, Typed, TypeOK,
     Families, Steps, AtUser, AtFree, AtExit, AtReparent, AtUnstack, AtRepage,
     AtChoosing, Choosing, AtLink, AtPublish, AtEnter, Pid, NoPid, Launching,
     Flags, NoTerm, Term
<1>4. Contexts'
  BY <1>0 DEF HaltFree, Contexts, Resumes, Suspended, Launching, Leaving,
     Runnable, Typed, TypeOK, Families, Steps, AtUser, AtFree, AtExit,
     AtReparent, AtUnstack, AtRepage, AtChoosing, Choosing, AtLink, AtPublish,
     AtEnter, Pid, NoPid, Flags
<1>5. Waits'
  BY <1>0 DEF HaltFree, Waits, Resumes, NotEntered, Suspended, Launching,
     Leaving, Runnable, Typed, TypeOK, Families, Contexts, Steps, AtUser,
     AtFree, AtExit, AtReparent, AtUnstack, AtRepage, AtChoosing, Choosing,
     AtLink, AtPublish, AtEnter, Pid, NoPid, Flags
<1>6. Images' /\ Files' /\ mode' # "hung"
  BY <1>0 DEF HaltFree, Images, Files, Steps, AtFree
<1>7. Steps'
  BY <1>0 DEF HaltFree, Steps, AtUser, AtFree, AtExit, AtReparent, AtUnstack,
     AtRepage, AtChoosing, AtLink, AtPublish, AtEnter, Flags, Choosing,
     Launching, Runnable, Typed, TypeOK, Families, Waits, NotEntered,
     Suspended, Leaving, Pid, NoPid
<1> QED BY <1>1, <1>2, <1>3, <1>4, <1>5, <1>6, <1>7

\* the restart of a shell that has no parent (syscalls.c:269),
LEMMA RestartKeeps ==
  ASSUME Consistent, HaltRestart
  PROVE  Consistent'
<1> USE DEF Consistent, Running, GoTo, table, context, globals, machine
<1> PICK f \in Pid : FirstFree(f) /\ cpu' = Starting(f, Shell)
  BY DEF HaltRestart
<1>0. /\ cpu \in Context /\ cpu' \in Context
      /\ cpu.pc = "exit" /\ cpu'.pc = "map"
      /\ cpu'.next_pcb \in Pid \ pid_bitmap
  BY StartingContext, ProcessAssumption DEF HaltRestart, FirstFree, Typed,
     TypeOK
<1>1. Typed'
  BY <1>0, ProcessAssumption DEF HaltRestart, FirstFree, Typed, TypeOK,
     Context, Pid, NoPid, Fd
<1>2. Families' /\ Terminals' /\ Contexts' /\ Waits'
  BY <1>0, SameTable DEF HaltRestart
<1>6. Images' /\ Files' /\ mode' # "hung"
  BY <1>0 DEF HaltRestart, Images, Files
<1>7. Steps'
  BY <1>0 DEF HaltRestart, FirstFree, Steps, AtUser, AtFree, AtExit,
     AtReparent, AtUnstack, AtRepage, AtChoosing, AtLink, AtPublish, AtEnter,
     Flags, Choosing, Launching, Runnable, Typed, TypeOK, Families, Waits,
     NotEntered, Suspended, Leaving, Pid, NoPid
<1> QED BY <1>1, <1>2, <1>6, <1>7

\* the return of pcb to the parent (syscalls.c:274),
LEMMA ReparentKeeps ==
  ASSUME Consistent, HaltReparent
  PROVE  Consistent'
<1> USE DEF Consistent, Running, GoTo, table, context, globals, machine
<1>0. /\ cpu \in Context /\ cpu' \in Context
      /\ cpu.pc = "reparent" /\ cpu'.pc = "unstack"
      /\ cpu'.old_pcb = cpu.old_pcb
      /\ cpu.next_pcb \in pid_bitmap
  BY ProcessAssumption DEF HaltReparent, Unlink, Typed, TypeOK, Context, PC,
     Pid, NoPid, Steps, AtUser, AtFree, AtExit, AtReparent, AtUnstack,
     AtRepage, AtChoosing, Choosing, AtLink, AtPublish, AtEnter, Runnable
<1>1. Typed'
  BY <1>0, ProcessAssumption DEF HaltReparent, Unlink, Typed, TypeOK, Context,
     Pid, NoPid, Fd
<1>2. Families'
  BY <1>0 DEF HaltReparent, Unlink, Families, Typed, TypeOK, Steps, AtUser,
     AtFree, AtReparent, AtUnstack, AtChoosing, Choosing, AtLink, AtPublish,
     AtEnter, Runnable, Pid, NoPid, Launching
<1>3. Terminals'
  BY <1>0 DEF HaltReparent, Unlink, Terminals, InTransit, Runnable, Typed,
     TypeOK, Families, Steps, AtUser, AtFree, AtExit, AtReparent, AtUnstack,
     AtRepage, AtChoosing, Choosing, AtLink, AtPublish, AtEnter, Pid, NoPid,
     Launching, Flags, NoTerm, Term
<1>4. Contexts'
  BY <1>0 DEF HaltReparent, Unlink, Contexts, Resumes, Suspended, Launching,
     Leaving, Runnable, Typed, TypeOK, Families, Steps, AtUser, AtFree,
     AtExit, AtReparent, AtUnstack, AtRepage, AtChoosing, Choosing, AtLink,
     AtPublish, AtEnter, Pid, NoPid, Flags
<1>5. Waits'
  BY <1>0 DEF HaltReparent, Unlink, Waits, Resumes, NotEntered, Suspended,
     Launching, Leaving, Runnable, Typed, TypeOK, Families, Contexts, Steps,
     AtUser, AtFree, AtExit, AtReparent, AtUnstack, AtRepage, AtChoosing,
     Choosing, AtLink, AtPublish, AtEnter, Pid, NoPid, Flags
<1>6. Images' /\ Files' /\ mode' # "hung"
  BY <1>0 DEF HaltReparent, Images, Files
<1>7. Steps'
  BY <1>0 DEF HaltReparent, Unlink, Steps, AtUser, AtFree, AtExit, AtReparent,
     AtUnstack, AtRepage, AtChoosing, AtLink, AtPublish, AtEnter, Flags,
     Choosing, Launching, Runnable, Typed, TypeOK
<1> QED BY <1>1, <1>2, <1>3, <1>4, <1>5, <1>6, <1>7

\* the return to the stack of the parent (syscalls.c:282),
LEMMA UnstackKeeps ==
  ASSUME Consistent, HaltUnstack
  PROVE  Consistent'
<1> USE DEF Consistent, Running, GoTo, table, context, globals, machine
<1>0. /\ cpu \in Context /\ cpu' \in Context
      /\ cpu.pc = "unstack" /\ cpu'.pc = "repage"
      /\ stk' = pcb
  BY ProcessAssumption DEF HaltUnstack, Typed, TypeOK, Context, PC, Pid,
     NoPid, Steps, AtUser, AtFree, AtExit, AtReparent, AtUnstack, AtRepage,
     AtChoosing, Choosing, AtLink, AtPublish, AtEnter, Runnable
<1>1. Typed'
  BY <1>0, ProcessAssumption DEF HaltUnstack, Typed, TypeOK, Context, Pid,
     NoPid, Fd
<1>2. Families'
  BY <1>0 DEF HaltUnstack, Families
<1>3. Terminals'
  BY <1>0 DEF HaltUnstack, Terminals, InTransit, Runnable
<1>4. Contexts'
  BY <1>0 DEF HaltUnstack, Contexts, Resumes, Suspended, Launching, Leaving,
     Runnable
<1>5. Waits'
  BY <1>0 DEF HaltUnstack, Waits, Resumes, NotEntered, Suspended, Launching,
     Leaving, Runnable, Typed, TypeOK, Families, Contexts, Steps, AtUser,
     AtFree, AtExit, AtReparent, AtUnstack, AtRepage, AtChoosing, Choosing,
     AtLink, AtPublish, AtEnter, Pid, NoPid, Flags
<1>6. Images' /\ Files' /\ mode' # "hung"
  BY <1>0 DEF HaltUnstack, Images, Files
<1>7. Steps'
  BY <1>0 DEF HaltUnstack, Steps, AtUser, AtFree, AtExit, AtReparent,
     AtUnstack, AtRepage, AtChoosing, AtLink, AtPublish, AtEnter, Flags,
     Choosing, Launching, Runnable
<1> QED BY <1>1, <1>2, <1>3, <1>4, <1>5, <1>6, <1>7

\* and the return to its page directory (syscalls.c:286).
LEMMA RepageKeeps ==
  ASSUME Consistent, HaltRepage
  PROVE  Consistent'
<1> USE DEF Consistent, Running, GoTo, table, context, globals, machine
<1>0. /\ cpu \in Context /\ cpu' \in Context
      /\ cpu.pc = "repage" /\ cpu'.pc = "user"
  BY ProcessAssumption, AtContext DEF HaltRepage, UpdatePaging, UserContext,
     Typed, TypeOK, Context, PC, Pid, NoPid, Steps, AtUser, AtFree, AtExit,
     AtReparent, AtUnstack, AtRepage, AtChoosing, Choosing, AtLink, AtPublish,
     AtEnter, Runnable
<1>1. Typed'
  BY <1>0, ProcessAssumption DEF HaltRepage, UpdatePaging, Typed, TypeOK,
     Context, Pid, NoPid, Fd
<1>2. Families' /\ Terminals' /\ Contexts' /\ Waits'
  BY <1>0, SameTable DEF HaltRepage
<1>6. Images' /\ Files' /\ mode' # "hung"
  BY <1>0 DEF HaltRepage, Images, Files
<1>7. Steps'
  BY <1>0 DEF HaltRepage, UpdatePaging, Steps, AtUser, AtFree, AtExit,
     AtReparent, AtUnstack, AtRepage, AtChoosing, AtLink, AtPublish, AtEnter,
     Flags, Choosing, Launching, Runnable
<1> QED BY <1>1, <1>2, <1>6, <1>7

\* everything that the invariant speaks about besides types, descriptors and
\* the way the kernel stops
Core ==
  <<pid_bitmap, parent_pid, child_pid, curTerminal, program, pcb, parent_esp,
    esp_schedule, frame, whichTerm, attemptExit, numShells, stk, intr, cr3,
    esp0, cpu, image>>

\* A step that leaves Core alone keeps the parts of the invariant that are
\* about nothing else.
LEMMA SameCore ==
  ASSUME Consistent, UNCHANGED Core
  PROVE  /\ Families' /\ Terminals' /\ Waits' /\ Images'
         /\ Runnable' = Runnable
         /\ Launching' <=> Launching
         /\ \A p \in Pid : Suspended(p)' <=> Suspended(p)
<1>1. Runnable' = Runnable
  BY DEF Core, Runnable
<1>2. Launching' <=> Launching
  BY DEF Core, Launching
<1>3. \A p \in Pid : Suspended(p)' <=> Suspended(p)
  BY <1>1, <1>2 DEF Core, Suspended, Leaving
<1>4. Families'
  <2>1. Families
    BY DEF Consistent
  <2> QED BY <2>1 DEF Core, Families
<1>5. Terminals'
  <2>1. Terminals
    BY DEF Consistent
  <2>2. \A t \in Term : InTransit(t)' <=> InTransit(t)
    BY DEF Core, InTransit
  <2>3. pid_bitmap' = pid_bitmap /\ curTerminal' = curTerminal
        /\ numShells' = numShells
    BY DEF Core
  <2>4. numShells \subseteq Term
    BY DEF Consistent, Typed, TypeOK
  <2> QED BY <1>1, <2>1, <2>2, <2>3, <2>4 DEF Terminals
<1>6. Waits'
  <2>1. Waits /\ pid_bitmap \subseteq Pid
    BY DEF Consistent, Typed
  <2>2. \A p \in Pid : NotEntered(p)' <=> NotEntered(p)
    BY <1>3 DEF Core, NotEntered
  <2>3. /\ pid_bitmap' = pid_bitmap /\ parent_pid' = parent_pid
        /\ parent_esp' = parent_esp /\ frame' = frame
    BY DEF Core
  <2> QED BY <2>1, <2>2, <2>3 DEF Waits
<1>7. Images'
  BY DEF Consistent, Images, Core
<1> QED BY <1>1, <1>2, <1>3, <1>4, <1>5, <1>6, <1>7

\* A step that leaves the descriptors alone as well keeps the rest, but for
\* the types and the mode.
LEMMA SameFiles ==
  ASSUME Consistent, UNCHANGED Core, UNCHANGED file_array
  PROVE  Contexts' /\ Files' /\ Steps'
<1>1. /\ Runnable' = Runnable
      /\ Launching' <=> Launching
      /\ \A p \in Pid : Suspended(p)' <=> Suspended(p)
  BY SameCore
<1>2. Contexts'
  <2> SUFFICES ASSUME NEW p \in Pid, Suspended(p)
               PROVE  (/\ esp_schedule[p].esp # "old"
                       /\ Resumes(p, esp_schedule[p].stack,
                                  frame[esp_schedule[p].stack]))'
    BY <1>1 DEF Contexts
  <2>1. /\ esp_schedule[p].esp # "old"
        /\ Resumes(p, esp_schedule[p].stack, frame[esp_schedule[p].stack])
    BY DEF Consistent, Contexts
  <2> QED BY <2>1 DEF Resumes, Core
<1>3. Files'
  BY DEF Consistent, Files, Core
<1>4. Steps'
  <2>0. Steps
    BY DEF Consistent
  <2>1. AtUser' /\ AtFree' /\ AtExit'
    BY <1>1, <2>0 DEF Steps, AtUser, AtFree, AtExit, Core
  <2>2. AtReparent' /\ AtUnstack' /\ AtRepage'
    BY <1>1, <2>0 DEF Steps, AtReparent, AtUnstack, AtRepage, Core
  <2>3. Choosing' <=> Choosing
    BY DEF Choosing, Core
  <2>4. AtChoosing' /\ AtLink'
    BY <1>1, <2>0, <2>3 DEF Steps, AtChoosing, AtLink, Core
  <2>5. AtPublish' /\ AtEnter'
    BY <1>1, <2>0 DEF Steps, AtPublish, AtEnter, Core
  <2>6. Flags'
    BY <1>1, <2>0, <2>3 DEF Steps, Flags, Core
  <2> QED BY <2>1, <2>2, <2>4, <2>5, <2>6 DEF Steps
<1> QED BY <1>2, <1>3, <1>4

\* sys_open keeps the invariant.
LEMMA OpenKeeps ==
  ASSUME Consistent, Open
  PROVE  Consistent'
<1>0. /\ cpu.pc = "user" /\ UNCHANGED Core /\ mode' # "hung"
      /\ \A p \in Pid : p # pcb => file_array'[p] = file_array[p]
  BY DEF Open, Core, Running, table, context, globals, machine, Consistent,
     Typed, TypeOK
<1>1. Typed'
  <2>1. pcb \in Pid /\ file_array \in [Pid -> SUBSET Fd]
    BY DEF Consistent, Typed, TypeOK
  <2>2. file_array' \in [Pid -> SUBSET Fd]
    BY <2>1 DEF Open
  <2> QED BY <2>2 DEF Open, Consistent, Typed, TypeOK, Running, table, context,
             globals, machine
<1>2. /\ Families' /\ Terminals' /\ Waits' /\ Images'
      /\ Runnable' = Runnable
      /\ Launching' <=> Launching
      /\ \A p \in Pid : Suspended(p)' <=> Suspended(p)
  BY <1>0, SameCore
<1>3. pcb \in Runnable /\ ~Launching
  BY <1>0 DEF Consistent, Steps, AtUser, Flags, Choosing
<1>4. Contexts'
  <2> SUFFICES ASSUME NEW p \in Pid, Suspended(p)
               PROVE  (/\ esp_schedule[p].esp # "old"
                       /\ Resumes(p, esp_schedule[p].stack,
                                  frame[esp_schedule[p].stack]))'
    BY <1>2 DEF Contexts
  <2>1. /\ esp_schedule[p].esp # "old"
        /\ Resumes(p, esp_schedule[p].stack, frame[esp_schedule[p].stack])
    BY DEF Consistent, Contexts
  <2>2. file_array'[p] = file_array[p]
    BY <1>0, <1>3 DEF Suspended
  <2> QED BY <1>0, <2>1, <2>2 DEF Resumes, Core
<1>5. Files'
  <2>1. pcb \in pid_bitmap
    BY <1>3 DEF Runnable
  <2> QED BY <1>0, <2>1 DEF Consistent, Files, Core
<1>6. Steps'
  BY <1>0, <1>2 DEF Consistent, Steps, AtUser, AtFree, AtExit, AtReparent,
     AtUnstack, AtRepage, AtChoosing, AtLink, AtPublish, AtEnter, Flags,
     Choosing, Core
<1> QED BY <1>0, <1>1, <1>2, <1>4, <1>5, <1>6 DEF Consistent

\* sys_close keeps the invariant.
LEMMA CloseFdKeeps ==
  ASSUME Consistent, Close
  PROVE  Consistent'
<1>0. /\ cpu.pc = "user" /\ UNCHANGED Core /\ mode' # "hung"
      /\ \A p \in Pid : p # pcb => file_array'[p] = file_array[p]
  BY DEF Close, Core, Running, table, context, globals, machine, Consistent,
     Typed, TypeOK
<1>1. Typed'
  <2>1. pcb \in Pid /\ file_array \in [Pid -> SUBSET Fd]
    BY DEF Consistent, Typed, TypeOK
  <2>2. file_array' \in [Pid -> SUBSET Fd]
    BY <2>1 DEF Close
  <2> QED BY <2>2 DEF Close, Consistent, Typed, TypeOK, Running, table, context,
             globals, machine
<1>2. /\ Families' /\ Terminals' /\ Waits' /\ Images'
      /\ Runnable' = Runnable
      /\ Launching' <=> Launching
      /\ \A p \in Pid : Suspended(p)' <=> Suspended(p)
  BY <1>0, SameCore
<1>3. pcb \in Runnable /\ ~Launching
  BY <1>0 DEF Consistent, Steps, AtUser, Flags, Choosing
<1>4. Contexts'
  <2> SUFFICES ASSUME NEW p \in Pid, Suspended(p)
               PROVE  (/\ esp_schedule[p].esp # "old"
                       /\ Resumes(p, esp_schedule[p].stack,
                                  frame[esp_schedule[p].stack]))'
    BY <1>2 DEF Contexts
  <2>1. /\ esp_schedule[p].esp # "old"
        /\ Resumes(p, esp_schedule[p].stack, frame[esp_schedule[p].stack])
    BY DEF Consistent, Contexts
  <2>2. file_array'[p] = file_array[p]
    BY <1>0, <1>3 DEF Suspended
  <2> QED BY <1>0, <2>1, <2>2 DEF Resumes, Core
<1>5. Files'
  <2>1. pcb \in pid_bitmap
    BY <1>3 DEF Runnable
  <2> QED BY <1>0, <2>1 DEF Consistent, Files, Core
<1>6. Steps'
  BY <1>0, <1>2 DEF Consistent, Steps, AtUser, AtFree, AtExit, AtReparent,
     AtUnstack, AtRepage, AtChoosing, AtLink, AtPublish, AtEnter, Flags,
     Choosing, Core
<1> QED BY <1>0, <1>1, <1>2, <1>4, <1>5, <1>6 DEF Consistent

\* A tick whose search ends at the running process keeps the invariant.
LEMMA TickSameKeeps ==
  ASSUME Consistent, TickSame
  PROVE  Consistent'
<1>1. UNCHANGED Core /\ UNCHANGED file_array /\ mode' # "hung"
  BY DEF TickSame, Core, table, context, globals, machine, Consistent
<1>2. Typed'
  <2>1. curProc' \in Pid
    BY ProcessAssumption DEF TickSame, Advance, Consistent, Typed, TypeOK, Pid
  <2> QED BY <2>1 DEF TickSame, Consistent, Typed, TypeOK, table, context,
             globals, machine
<1> QED BY <1>1, <1>2, SameCore, SameFiles DEF Consistent

\* Alt-Fn for a terminal that has its shell keeps the invariant.
LEMMA ScreenChangeKeeps ==
  ASSUME NEW t \in Term, Consistent, ScreenChange(t)
  PROVE  Consistent'
<1>1. UNCHANGED Core /\ UNCHANGED file_array /\ mode' # "hung"
  BY DEF ScreenChange, Core, table, context, globals, machine, Consistent
<1>2. Typed'
  BY DEF ScreenChange, Consistent, Typed, TypeOK, table, context, globals,
     machine
<1> QED BY <1>1, <1>2, SameCore, SameFiles DEF Consistent

\* A tick that restores a stack pointer nobody saved ends what is modelled
\* (mode is then "wild") and leaves the process table as it was.
LEMMA TickWildKeeps ==
  ASSUME NEW q \in Pid, Consistent, TickWild(q), ~raced'
  PROVE  Consistent'
<1>1. UNCHANGED Core /\ UNCHANGED file_array /\ mode' # "hung"
  BY DEF TickWild, Core, table, context, globals, machine, Consistent
<1>2. Typed'
  <2>1. raced' \in BOOLEAN
    BY Zenon DEF TickWild
  <2> QED BY <2>1 DEF TickWild, Consistent, Typed, TypeOK, table, globals,
             machine
<1> QED BY <1>1, <1>2, SameCore, SameFiles DEF Consistent

\* A tick that switches processes outside the critical points keeps the
\* invariant; at one of them it sets raced.
LEMMA TickSwitchKeeps ==
  ASSUME NEW q \in Pid, Consistent, TickSwitch(q), ~raced'
  PROVE  Consistent'
<1> DEFINE s == esp_schedule[q].stack
<1> USE DEF TickSwitch, table, globals, machine
<1>0. /\ Interruptible /\ intr /\ ~Critical
      /\ q \in Runnable /\ q # pcb
      /\ UNCHANGED <<table, file_array, whichTerm, attemptExit, intr>>
  BY DEF Interruptible, Selected
<1>1. /\ pcb \in Runnable /\ stk \in pid_bitmap
      /\ ~Launching /\ ~attemptExit
      /\ cpu.pc \in {"user", "repage", "free", "enter"}
      /\ Resumes(pcb, stk, cpu)
  BY <1>0, Interrupted
<1>2. /\ cpu \in Context /\ frame \in [Pid -> Context]
      /\ pcb \in Pid /\ stk \in Pid /\ s \in Pid
      /\ esp_schedule \in [Pid -> [stack : Pid, esp : {"saved", "skipped", "old"}]]
      /\ pid_bitmap \subseteq Pid
  BY DEF Consistent, Typed, TypeOK
<1>3. Runnable' = Runnable
  BY DEF Runnable
<1>4. \A p \in Runnable : p # pcb =>
        /\ esp_schedule[p].esp # "old"
        /\ Resumes(p, esp_schedule[p].stack, frame[esp_schedule[p].stack])
        /\ esp_schedule[p].stack \in Pid
        /\ esp_schedule[p].stack # stk
  BY <1>0, OthersResume
<1>5. cpu' = frame[s] /\ cpu' \in Context /\ Resumes(q, s, frame[s])
  BY <1>0, <1>2, <1>4
<1>6. \A p \in Pid :
        esp_schedule'[p] = CASE p = q -> [esp_schedule[q] EXCEPT !.esp = "old"]
                             [] p = pcb -> [stack |-> stk, esp |-> "saved"]
                             [] OTHER -> esp_schedule[p]
  OBVIOUS
<1>7. Typed'
  <2>1. esp_schedule' \in [Pid -> [stack : Pid, esp : {"saved", "skipped", "old"}]]
    BY <1>2
  <2>2. curProc' \in Pid
    BY ProcessAssumption DEF Advance, Pid
  <2> QED BY <1>2, <1>5, <2>1, <2>2 DEF Consistent, Typed, TypeOK,
             UpdatePaging
<1>8. Families'
  BY <1>1, <1>2 DEF Consistent, Families
<1>9. Terminals'
  <2>1. cpu'.pc \notin {"link"} /\ pcb' \in pid_bitmap
    BY <1>0, <1>5 DEF Resumes, Runnable
  <2>2. \A t \in Term : ~InTransit(t) /\ ~InTransit(t)'
    BY <1>1, <2>1 DEF InTransit, Launching, NoTerm, Term, Runnable
  <2> QED BY <1>3, <2>2 DEF Consistent, Terminals, Typed, TypeOK
<1>10. \A p \in Pid : Suspended(p)' => p \in Runnable /\ p # q
  BY <1>1, <1>3, <1>5 DEF Suspended, Launching
<1>11. Contexts'
  <2> SUFFICES ASSUME NEW p \in Pid, p \in Runnable, p # q
               PROVE  (/\ esp_schedule[p].esp # "old"
                       /\ Resumes(p, esp_schedule[p].stack,
                                  frame[esp_schedule[p].stack]))'
    BY <1>10 DEF Contexts
  <2>1. CASE p = pcb
    BY <1>1, <1>2, <1>6, <2>1 DEF Resumes
  <2>2. CASE p # pcb
    BY <1>2, <1>4, <1>6, <2>2 DEF Resumes
  <2> QED BY <2>1, <2>2
<1>12. Waits'
  <2> SUFFICES ASSUME NEW p \in pid_bitmap, parent_pid[p] # NoPid, ~NotEntered(p)'
               PROVE  (/\ parent_esp[p] = parent_pid[p]
                       /\ frame[parent_pid[p]].pc = "wait")'
    BY DEF Waits
  <2>1. p \in Pid /\ parent_pid[p] \in Pid /\ child_pid[parent_pid[p]] = p
    BY <1>2 DEF Consistent, Families
  <2>2. p = pcb => cpu.pc # "enter"
    <3> SUFFICES ASSUME p = pcb PROVE cpu.pc # "enter"
      OBVIOUS
    <3>1. Suspended(p)'
      BY <1>0, <1>1, <1>3, <1>5 DEF Suspended, Leaving, Resumes
    <3>2. esp_schedule'[p].stack = stk /\ frame'[stk] = cpu
      BY <1>0, <1>2, <1>6
    <3> QED BY <3>1, <3>2 DEF NotEntered
  <2>3. parent_pid[p] # stk
    <3>1. pcb \in pid_bitmap /\ child_pid[pcb] = NoPid /\ NoPid \notin Pid
      BY <1>1 DEF Runnable, NoPid, Pid
    <3>2. parent_pid[p] # pcb
      BY <2>1, <3>1
    <3>3. stk = pcb \/ (cpu.pc = "enter" /\ stk = parent_pid[pcb])
      BY <1>1 DEF Resumes
    <3>4. ASSUME parent_pid[pcb] \in Pid, parent_pid[p] = parent_pid[pcb]
          PROVE  p = pcb
      <4>1. child_pid[parent_pid[pcb]] = pcb
        BY <3>1, <3>4 DEF Consistent, Families
      <4> QED BY <2>1, <3>4, <4>1
    <3> QED BY <2>1, <2>2, <3>2, <3>3, <3>4
  <2>4. ~NotEntered(p)
    <3> SUFFICES ASSUME Suspended(p), frame[esp_schedule[p].stack].pc = "enter", p # pcb
                 PROVE  FALSE
      BY <1>1, <2>2 DEF NotEntered, Suspended
    <3>1. CASE p = q
      BY <1>5, <3>1 DEF NotEntered
    <3>2. CASE p # q
      <4>1. Suspended(p)'
        BY <1>3, <1>5, <3>2 DEF Suspended, Leaving, Resumes
      <4>2. esp_schedule'[p] = esp_schedule[p]
        BY <1>6, <2>1, <3>2
      <4>3. frame'[esp_schedule[p].stack] = frame[esp_schedule[p].stack]
        BY <1>2, <1>4 DEF Suspended
      <4> QED BY <4>1, <4>2, <4>3 DEF NotEntered
    <3> QED BY <3>1, <3>2
  <2> QED BY <1>2, <2>1, <2>3, <2>4 DEF Consistent, Waits
<1>13. Images' /\ Files' /\ mode' # "hung"
  BY <1>0, <1>1, <1>5 DEF Consistent, Images, Files
<1>14. Steps'
  BY <1>0, <1>1, <1>2, <1>5, Resumed DEF UpdatePaging
<1> QED BY <1>7, <1>8, <1>9, <1>11, <1>12, <1>13, <1>14 DEF Consistent

\* Alt-Fn for a terminal without a shell keeps the invariant outside the
\* critical points; at one of them it sets raced.
LEMMA ScreenLaunchKeeps ==
  ASSUME NEW t \in Term, Consistent, ScreenLaunch(t), ~raced'
  PROVE  Consistent'
<1> USE DEF ScreenLaunch, table, globals, machine
<1>0. /\ Interruptible /\ intr /\ ~Critical
      /\ t \notin numShells /\ t # NoTerm
      /\ ~intr' /\ whichTerm' = t /\ UNCHANGED attemptExit
  <2>1. Interruptible /\ intr /\ ~Critical /\ ~intr'
    BY Zenon DEF Interruptible
  <2>2. t # NoTerm
    BY DEF Term, NoTerm
  <2> QED BY <2>1, <2>2
<1>1. /\ pcb \in Runnable /\ stk \in pid_bitmap
      /\ ~Launching /\ ~attemptExit
      /\ cpu.pc \in {"user", "repage", "free", "enter"}
      /\ Resumes(pcb, stk, cpu)
  BY <1>0, Interrupted
<1>2. /\ cpu \in Context /\ frame \in [Pid -> Context]
      /\ pcb \in Pid /\ stk \in Pid
      /\ esp_schedule \in [Pid -> [stack : Pid, esp : {"saved", "skipped", "old"}]]
      /\ pid_bitmap \subseteq Pid
  BY DEF Consistent, Typed, TypeOK
<1>3. Runnable' = Runnable
  BY DEF Runnable
<1>4. \A p \in Runnable : p # pcb =>
        /\ esp_schedule[p].esp # "old"
        /\ Resumes(p, esp_schedule[p].stack, frame[esp_schedule[p].stack])
        /\ esp_schedule[p].stack \in Pid
        /\ esp_schedule[p].stack # stk
  BY <1>0, OthersResume
<1>5. cpu' \in Context /\ cpu'.pc = "map" /\ cpu'.next_pcb \in Pid \ pid_bitmap
  <2> PICK f \in Pid : FirstFree(f) /\ cpu' = Starting(f, Shell)
    OBVIOUS
  <2> QED BY StartingContext, ProcessAssumption DEF FirstFree
<1>7. Typed'
  <2>1. esp_schedule' \in [Pid -> [stack : Pid, esp : {"saved", "skipped", "old"}]]
    BY <1>2
  <2>2. raced' \in BOOLEAN /\ intr' \in BOOLEAN
    BY Zenon
  <2>3. frame' \in [Pid -> Context]
    BY <1>2
  <2>4. /\ numShells' \subseteq Term /\ currentTerminal' \in Term
        /\ whichTerm' \in Term \cup {NoTerm}
    BY DEF Consistent, Typed, TypeOK
  <2> QED BY <1>5, <2>1, <2>2, <2>3, <2>4 DEF Consistent, Typed, TypeOK
<1>8. Families'
  BY <1>1, <1>2 DEF Consistent, Families
<1>9. Terminals'
  <2>1. \A u \in Term : ~InTransit(u) /\ (InTransit(u)' <=> u = t)
    <3>1. pcb \in pid_bitmap /\ whichTerm = NoTerm /\ NoTerm \notin Term
      BY <1>1 DEF Runnable, Launching, NoTerm, Term
    <3>2. \A u \in Term : ~InTransit(u)
      BY <1>1, <3>1 DEF InTransit
    <3>3. pcb' = pcb /\ pid_bitmap' = pid_bitmap
      OBVIOUS
    <3>4. \A u \in Term : InTransit(u)' <=> u = t
      BY <1>0, <1>5, <3>1, <3>3 DEF InTransit
    <3> QED BY <3>2, <3>4
  <2>2. /\ Terminals /\ numShells \subseteq Term
        /\ Runnable \subseteq pid_bitmap
    BY DEF Consistent, Typed, TypeOK, Runnable
  <2>3. /\ numShells' = numShells \cup {t}
        /\ UNCHANGED <<pid_bitmap, curTerminal>>
    OBVIOUS
  <2> HIDE DEF ScreenLaunch
  <2> QED BY <1>0, <1>3, <2>1, <2>2, <2>3 DEF Terminals
<1>11. Contexts'
  <2> SUFFICES ASSUME NEW p \in Pid, p \in Runnable
               PROVE  (/\ esp_schedule[p].esp # "old"
                       /\ Resumes(p, esp_schedule[p].stack,
                                  frame[esp_schedule[p].stack]))'
    BY <1>3 DEF Contexts, Suspended
  <2>1. CASE p = pcb
    BY <1>1, <1>2, <2>1 DEF Resumes
  <2>2. CASE p # pcb
    BY <1>2, <1>4, <2>2 DEF Resumes
  <2> QED BY <2>1, <2>2
<1>12. Waits'
  <2> SUFFICES ASSUME NEW p \in pid_bitmap, parent_pid[p] # NoPid, ~NotEntered(p)'
               PROVE  (/\ parent_esp[p] = parent_pid[p]
                       /\ frame[parent_pid[p]].pc = "wait")'
    BY DEF Waits
  <2>1. p \in Pid /\ parent_pid[p] \in Pid /\ child_pid[parent_pid[p]] = p
    BY <1>2 DEF Consistent, Families
  <2>0. p \in Runnable => Suspended(p)'
    BY <1>0, <1>3, <1>5 DEF Suspended, Leaving, Launching
  <2>2. p = pcb => cpu.pc # "enter"
    <3> SUFFICES ASSUME p = pcb PROVE cpu.pc # "enter"
      OBVIOUS
    <3>2. esp_schedule'[p].stack = stk /\ frame'[stk] = cpu
      BY <1>0, <1>2
    <3> QED BY <1>1, <2>0, <3>2 DEF NotEntered
  <2>3. parent_pid[p] # stk
    <3>1. pcb \in pid_bitmap /\ child_pid[pcb] = NoPid /\ NoPid \notin Pid
      BY <1>1 DEF Runnable, NoPid, Pid
    <3>2. parent_pid[p] # pcb
      BY <2>1, <3>1
    <3>3. stk = pcb \/ (cpu.pc = "enter" /\ stk = parent_pid[pcb])
      BY <1>1 DEF Resumes
    <3>4. ASSUME parent_pid[pcb] \in Pid, parent_pid[p] = parent_pid[pcb]
          PROVE  p = pcb
      <4>1. child_pid[parent_pid[pcb]] = pcb
        BY <3>1, <3>4 DEF Consistent, Families
      <4> QED BY <2>1, <3>4, <4>1
    <3> QED BY <2>1, <2>2, <3>2, <3>3, <3>4
  <2>4. ~NotEntered(p)
    <3> SUFFICES ASSUME Suspended(p), frame[esp_schedule[p].stack].pc = "enter", p # pcb
                 PROVE  FALSE
      BY <1>1, <2>2 DEF NotEntered, Suspended
    <3>1. Suspended(p)'
      BY <2>0 DEF Suspended
    <3>2. esp_schedule'[p] = esp_schedule[p]
      BY <1>2, <2>1
    <3>3. frame'[esp_schedule[p].stack] = frame[esp_schedule[p].stack]
      BY <1>2, <1>4 DEF Suspended
    <3> QED BY <3>1, <3>2, <3>3 DEF NotEntered
  <2> QED BY <1>2, <2>1, <2>3, <2>4 DEF Consistent, Waits
<1>13. Images' /\ Files' /\ mode' # "hung"
  BY <1>0, <1>1, <1>5 DEF Consistent, Images, Files
<1>14. Steps'
  <2>1. AtUser' /\ AtFree' /\ AtExit' /\ AtReparent' /\ AtUnstack'
        /\ AtRepage' /\ AtLink' /\ AtPublish' /\ AtEnter'
    BY <1>5 DEF AtUser, AtFree, AtExit, AtReparent, AtUnstack, AtRepage,
       AtLink, AtPublish, AtEnter
  <2>2. Choosing' /\ Launching' /\ ~attemptExit'
    BY <1>0, <1>1, <1>5 DEF Choosing, Launching
  <2>3. pcb' = pcb /\ pid_bitmap' = pid_bitmap
    OBVIOUS
  <2>4. AtChoosing'
    BY <1>1, <1>3, <1>5, <2>2, <2>3 DEF AtChoosing
  <2>5. Flags'
    BY <1>0, <1>5, <2>2 DEF Flags
  <2> QED BY <2>1, <2>4, <2>5 DEF Steps
<1> QED BY <1>7, <1>8, <1>9, <1>11, <1>12, <1>13, <1>14 DEF Consistent

\* The search of schedule() does not run forever while the invariant holds.
LEMMA NoHang ==
  ASSUME Consistent, TickHang
  PROVE  raced'
<1>1. intr /\ Runnable = {}
  BY DEF TickHang, Interruptible
<1>2. Critical
  BY <1>1, Interrupted
<1> QED BY <1>2 DEF TickHang

\* The state in which entry() executes the first shell satisfies the invariant.
LEMMA InitConsistent ==
  ASSUME Init
  PROVE  Consistent
<1>0. 0 \in Pid /\ NoPid \notin Pid /\ NoTerm \notin Term /\ 1 \in Term
  BY ProcessAssumption DEF Pid, NoPid, Term, NoTerm
<1>1. cpu \in Context /\ cpu = At("user") /\ cpu.pc = "user"
  BY AtContext DEF Init, UserContext, PC
<1>2. Runnable = {0}
  BY <1>0 DEF Init, Runnable
<1>3. Typed
  <2>1. {0} \subseteq 0 .. BITMAP_WIDTH - 1 /\ {0, 1} \subseteq Fd
    BY ProcessAssumption DEF Fd
  <2>2. /\ file_array \in [Pid -> SUBSET Fd]
        /\ frame \in [Pid -> Context]
        /\ esp_schedule \in [Pid -> [stack : Pid, esp : {"saved", "skipped", "old"}]]
    BY <1>1, <2>1 DEF Init, UserContext
  <2> QED BY <1>0, <1>1, <2>1, <2>2, ProcessAssumption DEF Init, Typed, TypeOK
<1>4. Families /\ Waits /\ Images /\ Files
  BY <1>0, <1>1 DEF Init, Families, Waits, Images, Files
<1>5. Terminals
  BY <1>0, <1>1, <1>2 DEF Init, Terminals, InTransit
<1>6. Contexts
  BY <1>1, <1>2 DEF Init, Contexts, Suspended, Launching
<1>7. Steps
  BY <1>1, <1>2 DEF Init, Steps, AtUser, AtFree, AtExit, AtReparent,
     AtUnstack, AtRepage, AtChoosing, AtLink, AtPublish, AtEnter, Flags,
     Choosing, Launching
<1> QED BY <1>3, <1>4, <1>5, <1>6, <1>7 DEF Consistent, Init

\* No step takes back a race.
LEMMA RacedStays ==
  ASSUME [Next]_vars, raced
  PROVE  raced'
BY Zenon DEF Next, KernelStep, SystemCall, Tick, Key, Stopped, vars, context,
   Execute, ExecuteMap, ExecuteLoad, ExecuteSetPcb, ExecuteLink,
   ExecutePublish, ExecuteEnter, Halt, Exception, HaltClose, HaltFree,
   HaltRestart, HaltReparent, HaltUnstack, HaltRepage, Open, Close, TickSame,
   TickSwitch, TickWild, TickHang, ScreenChange, ScreenLaunch

\* A step that changes nothing keeps the invariant.
LEMMA Unchanged ==
  ASSUME Consistent, UNCHANGED vars
  PROVE  Consistent'
<1>1. UNCHANGED Core /\ UNCHANGED file_array /\ mode' # "hung"
  BY DEF vars, Core, table, context, globals, machine, Consistent
<1>2. Typed'
  BY DEF vars, Consistent, Typed, TypeOK, table, context, globals, machine
<1> QED BY <1>1, <1>2, SameCore, SameFiles DEF Consistent

\* Every step keeps the invariant: one case per action of Process.
LEMMA NextKeeps ==
  ASSUME Consistent, [Next]_vars, ~raced'
  PROVE  Consistent'
<1>1. CASE KernelStep
  BY <1>1, MapKeeps, LoadKeeps, SetPcbKeeps, LinkKeeps, PublishKeeps,
     EnterKeeps, FreeKeeps, RestartKeeps, ReparentKeeps, UnstackKeeps,
     RepageKeeps DEF KernelStep
<1>2. CASE SystemCall
  BY <1>2, ExecuteKeeps, CloseKeeps, OpenKeeps, CloseFdKeeps
     DEF SystemCall, Halt, Exception
<1>3. CASE Tick
  BY <1>3, TickSameKeeps, TickSwitchKeeps, TickWildKeeps, NoHang DEF Tick
<1>4. CASE Key
  BY <1>4, ScreenChangeKeeps, ScreenLaunchKeeps DEF Key
<1>5. CASE Stopped \/ UNCHANGED vars
  BY <1>5, Unchanged DEF Stopped
<1> QED BY <1>1, <1>2, <1>3, <1>4, <1>5 DEF Next

\* The invariant of ProcessInv holds in every reachable state, for any number
\* of pids, terminals and programs.
THEOREM Invariance == Spec => []IInv
<1>1. Init => IInv
  BY InitConsistent DEF IInv
<1>2. IInv /\ [Next]_vars => IInv'
  <2> SUFFICES ASSUME IInv, [Next]_vars, ~raced'
               PROVE  Consistent'
    BY DEF IInv
  <2>1. Consistent
    BY RacedStays DEF IInv
  <2> QED BY <2>1, NextKeeps
<1> QED BY <1>1, <1>2, PTL DEF Spec

\* pcb, the links of the table and the registers stay within their types in
\* sys_execute, sys_halt and schedule().
THEOREM TypeSafety == Spec => []TypeCorrect
<1>1. IInv => TypeCorrect
  BY DEF IInv, Consistent, Typed, TypeCorrect
<1> QED BY <1>1, Invariance, PTL

\* parent_pid and child_pid of live processes agree (syscalls.c:123-164, 274).
THEOREM FamilySafety == Spec => []FamilyLinks
<1>1. IInv => FamilyLinks
  BY DEF IInv, Consistent, Families, FamilyLinks
<1> QED BY <1>1, Invariance, PTL

\* Every started terminal has one foreground process, whatever exits, crashes
\* or is launched (syscalls.c:123-158, 269).
THEOREM ForegroundSafety == Spec => []OneForeground
<1>1. IInv => OneForeground
  <2> SUFFICES ASSUME IInv, ~raced, Running("user"), NEW t \in Term
               PROVE  Cardinality({p \in Runnable : curTerminal[p] = t})
                        = IF t \in numShells THEN 1 ELSE 0
    BY DEF OneForeground
  <2> DEFINE F == {p \in Runnable : curTerminal[p] = t}
  <2>1. ~InTransit(t)
    <3>1. NoTerm \notin Term
      BY DEF NoTerm, Term
    <3> QED BY <3>1 DEF IInv, Consistent, Running, Steps, Flags, AtUser,
               InTransit, Launching, Runnable
  <2>2. CASE t \in numShells
    <3>1. PICK p \in Runnable : curTerminal[p] = t
      BY <2>1, <2>2 DEF IInv, Consistent, Terminals
    <3>2. F = {p}
      BY <3>1 DEF IInv, Consistent, Terminals
    <3> QED BY <2>2, <3>2, FS_Singleton
  <2>3. CASE t \notin numShells
    <3>1. F = {}
      BY <2>3 DEF IInv, Consistent, Terminals, Runnable
    <3> QED BY <2>3, <3>1, FS_EmptySet
  <2> QED BY <2>2, <2>3
<1> QED BY <1>1, Invariance, PTL

\* A process in user mode runs on its own page directory and esp0
\* (schedule.c:34-62, syscalls.c:286).
THEOREM IdentitySafety == Spec => []RunsItself
<1>1. IInv => RunsItself
  BY DEF IInv, Consistent, Steps, AtUser, Images, Runnable, Running,
     RunsItself
<1> QED BY <1>1, Invariance, PTL

\* The program copied by sys_execute (syscalls.c:116) never replaces the one
\* of a live process.
THEOREM ImageSafety == Spec => []ImagesIntact
<1>1. IInv => ImagesIntact
  BY DEF IInv, Consistent, Images, ImagesIntact
<1> QED BY <1>1, Invariance, PTL

\* The frame of sys_execute that a halt returns to (syscalls.c:282) is still
\* the one that waits.
THEOREM FrameSafety == Spec => []ParentFrameWaits
<1>1. IInv => ParentFrameWaits
  <2> SUFFICES ASSUME Consistent, Running("user"), parent_pid[pcb] # NoPid
               PROVE  /\ parent_esp[pcb] = parent_pid[pcb]
                      /\ frame[parent_esp[pcb]].pc = "wait"
    BY DEF IInv, ParentFrameWaits
  <2>1. pcb \in pid_bitmap
    BY DEF Consistent, Running, Steps, AtUser, Runnable
  <2>2. ~NotEntered(pcb)
    BY DEF Consistent, Running, Steps, Flags, Choosing, NotEntered, Suspended
  <2> QED BY <2>1, <2>2 DEF Consistent, Waits
<1> QED BY <1>1, Invariance, PTL

\* The search loop of schedule() (schedule.c:27) always has a process to find.
THEOREM SearchSafety == Spec => []SearchEnds
<1>1. IInv => SearchEnds
  BY DEF IInv, Consistent, SearchEnds
<1> QED BY <1>1, Invariance, PTL

\* The subtraction at syscalls.c:267 clears the bit of the halting process and
\* no other.
THEOREM BitSafety == Spec => []HaltClearsOwnBit
<1>1. IInv => HaltClearsOwnBit
  BY DEF IInv, Consistent, Steps, AtFree, Running, Runnable, HaltClearsOwnBit
<1> QED BY <1>1, Invariance, PTL

\* A free pid holds no open descriptors for its next owner to inherit
\* (syscalls.c:249-252).
THEOREM FileSafety == Spec => []FreePidHoldsNoFiles
<1>1. IInv => FreePidHoldsNoFiles
  BY DEF IInv, Consistent, Files, FreePidHoldsNoFiles
<1> QED BY <1>1, Invariance, PTL
=============================================================================

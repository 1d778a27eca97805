--------------------------- MODULE ProgramsProofs ---------------------------
(***************************************************************************)
(* Proofs about Programs, for any image, any commands and answers, any     *)
(* sizes of the buffers and any number of descriptors.                     *)
(***************************************************************************)
EXTENDS Programs, FilesProofs, FiniteSetTheorems

Keys == {"buf", "data", "fd", "file", "cnt", "last", "line_start", "fname",
         "i", "refused", "tests"}

\* l has the local variables of a program
Frame(l) == l = [k \in Keys |-> l[k]]

\* where a program has not opened anything yet, or the shell runs
Quiet == {"prompt", "execute", "report", "main", "argument", "noargument",
          "ask", "answered", "count"}

\* where the program has not counted anything
Fresh == {"main", "argument", "noargument", "ask", "answered"}

AllClosed == \A fd \in Opened : file_array[fd].type = "close"

\* The descriptors that the programs read from are ones that sys_open gave
\* them, and grep's positions are in its buffer.
ReadersInv ==
  /\ prog \in {Cat, Ls} /\ pc = "read" => local.fd \in Opened
  /\ prog = Grep =>
       /\ pc \in {"entry", "open", "read", "line", "close"} =>
            local.fd \in Opened
       /\ pc \in {"read", "line", "close"} => local.file \in Opened
       /\ pc \in {"read", "line"} => local.last \in 0 .. BUFSIZE
       /\ pc = "line" => local.line_start \in 0 .. local.last

\* Before call i of test t: the calls so far were refused, but for those of
\* err_open_lots, which open one descriptor after the other, all but the
\* last, and then close them in the same order.
InTest(t, i, refused) ==
  /\ i \in 1 .. Len(Tests[t].calls) + 1
  /\ IF t # 3 THEN AllClosed /\ refused = i - 1
     ELSE IF i < MAX_OPEN_FILES
       THEN /\ \A fd \in Opened : file_array[fd].type # "close" <=> fd <= i
            /\ refused = 0
       ELSE /\ \A fd \in Opened :
                 file_array[fd].type # "close" <=> fd > i - MAX_OPEN_FILES + 1
            /\ refused = 1

SyserrInv ==
  prog = Syserr /\ pc = "call" =>
    /\ local.tests \in Seq(1 .. 8) /\ local.tests # <<>>
    /\ local.last = 0
    /\ InTest(Head(local.tests), local.i, local.refused)

ProgInv ==
  /\ FilesInv
  /\ Frame(local)
  /\ BuffersKept
  /\ prog # Anything /\ pc \in Quiet => AllClosed
  /\ pc \in Fresh => local.last = 0 /\ local.refused = 0
  /\ ReadersInv
  /\ SyserrInv

-----------------------------------------------------------------------------
(***************************************************************************)
(* Steps in general                                                        *)
(***************************************************************************)

\* The sizes of the buffers.
LEMMA Sizes ==
  /\ BUFSIZE \in Nat /\ ARGSIZE \in Nat /\ 1 < ARGSIZE /\ ARGSIZE <= BUFSIZE
  /\ NUM_DENTRY_NAME \in Nat
BY ProgramsAssumption, FilesAssumption, Zenon

\* The programs that the invariant tells apart have different names.
LEMMA Distinct ==
  /\ Cat # Grep /\ Ls # Grep /\ Syserr # Grep /\ Grep # Shell
  /\ Cat # Syserr /\ Ls # Syserr /\ Shell # Syserr /\ Cat # Shell
  /\ Ls # Shell /\ Anything # Shell /\ Counter # Shell /\ Syserr # Anything
  /\ Counter # Anything
BY DEF Cat, Grep, Ls, Syserr, Shell, Anything, Counter

\* A step of a program that goes on keeps the invariant if what it does to
\* the descriptors, to its variables and to its place does.
LEMMA ContinueKeeps ==
  ASSUME ProgInv, NEW l, NEW text, NEW to, Continue(l, text, to),
         BuffersKept', Served, Frame(l),
         prog # Anything /\ to \in Quiet => AllClosed',
         to \in Fresh => l.last = 0 /\ l.refused = 0,
         ReadersInv', SyserrInv'
  PROVE  ProgInv'
<1>1. FilesInv'
  BY ServedKeeps DEF ProgInv
<1>2. local' = l /\ pc' = to /\ prog' = prog
  BY DEF Continue
<1> QED
  BY <1>1, <1>2 DEF ProgInv, Frame

\* A step that makes no call keeps what was written behind an array.
LEMMA StepContinues ==
  ASSUME ProgInv, NEW l, NEW text, NEW to, Step(l, text, to)
  PROVE  Continue(l, text, to) /\ BuffersKept'
BY DEF Step, ProgInv, BuffersKept

\* All descriptors are closed when the process has halted.
LEMMA HaltedClosed ==
  ASSUME FilesInv, Halted
  PROVE  AllClosed'
BY OpenedInFd DEF FilesInv, Halted, AllClosed, Descriptors

\* Whatever ends, by its own call or by an exception, the shell goes on with
\* nothing open.
LEMMA HaltKeeps ==
  ASSUME ProgInv, NEW status, NEW text, sys_halt(status, text)
  PROVE  ProgInv' /\ Served
<1>1. Halted /\ Served
  BY DEF sys_halt, Halted, Served
<1>2. FilesInv' /\ AllClosed'
  BY <1>1, ServedKeeps, HaltedClosed DEF ProgInv
<1>3. /\ prog' = Shell /\ pc' = "report" /\ local' = NoLocals
      /\ overrun' = overrun
  BY DEF sys_halt
<1>4. Frame(NoLocals)
  BY DEF Frame, NoLocals, Keys
<1>5. ReadersInv' /\ SyserrInv'
  BY <1>3, Distinct DEF ReadersInv, SyserrInv
<1>6. BuffersKept' /\ "report" \notin Fresh
  BY <1>3 DEF ProgInv, BuffersKept, Fresh
<1> QED
  BY <1>1, <1>2, <1>3, <1>4, <1>5, <1>6 DEF ProgInv, Frame

-----------------------------------------------------------------------------
(***************************************************************************)
(* The shell, and the programs that ask                                    *)
(***************************************************************************)

\* A read that is at the prompt leaves the descriptors alone.
LEMMA ShellReadKeeps ==
  ASSUME ProgInv, NEW line, ShellRead(line)
  PROVE  ProgInv' /\ Served
<1>1. Served
  BY DEF ShellRead, Served
<1>2. FilesInv'
  BY <1>1, ServedKeeps DEF ProgInv
<1>3. /\ prog = Shell /\ prog' = Shell /\ pc = "prompt"
      /\ pc' \in {"prompt", "execute"}
      /\ local' = local /\ file_array' = file_array
  BY DEF ShellRead, Running, vars
<1>4. AllClosed'
  BY <1>3, Distinct DEF ProgInv, Quiet, AllClosed
<1>5. ~(0 + (LineBytes + 1) > BUFSIZE)
  BY Sizes DEF LineBytes
<1>6. BuffersKept'
  BY <1>5 DEF ShellRead, Behind, BuffersKept
<1>7. ReadersInv' /\ SyserrInv' /\ pc' \notin Fresh
  BY <1>3, Distinct DEF ReadersInv, SyserrInv, Fresh
<1> QED
  BY <1>1, <1>2, <1>3, <1>4, <1>6, <1>7 DEF ProgInv, Frame

\* A command is refused, or entered with only the terminal open.
LEMMA ExecuteKeeps ==
  ASSUME ProgInv, sys_execute
  PROVE  ProgInv' /\ Served
<1> DEFINE p == parser(cmdline)
           refusal == checkExe(p.cmd)
<1> HIDE DEF p, refusal
<1>0. /\ prog = Shell /\ pc = "execute" /\ overrun' = overrun
      /\ AllClosed /\ Frame(local)
  BY Distinct DEF sys_execute, Running, ProgInv, Quiet
<1>1. CASE /\ rval' = -1 /\ pc' = "report"
           /\ UNCHANGED <<vars, prog, local>>
  <2>1. Served /\ FilesInv'
    BY <1>1, ServedKeeps DEF Served, ProgInv
  <2>2. AllClosed' /\ Frame(local')
    BY <1>0, <1>1 DEF vars, AllClosed
  <2>3. ReadersInv' /\ SyserrInv'
    BY <1>0, <1>1, Distinct DEF ReadersInv, SyserrInv
  <2>4. pc' \notin Fresh
    BY <1>1 DEF Fresh
  <2> QED
    BY <1>0, <1>1, <2>1, <2>2, <2>3, <2>4 DEF ProgInv, Frame, BuffersKept
<1>2. CASE /\ pc' = "main" /\ Entered
           /\ \E g \in Leftovers : local' = [NoLocals EXCEPT !.buf = g]
  <2>1. Served /\ FilesInv'
    BY <1>2, ServedKeeps DEF Served, ProgInv
  <2>2. AllClosed'
    BY <1>0, <1>2, OpenedInFd, FilesAssumption
    DEF Entered, AllClosed, Opened
  <2>3. Frame(local') /\ local'.last = 0 /\ local'.refused = 0
    BY <1>2 DEF NoLocals, Frame, Keys
  <2>4. ReadersInv' /\ SyserrInv'
    BY <1>2 DEF ReadersInv, SyserrInv
  <2> QED
    BY <1>0, <1>2, <2>1, <2>2, <2>3, <2>4 DEF ProgInv, Frame, BuffersKept
<1> QED
  BY <1>1, <1>2 DEF sys_execute, p, refusal, Entered

\* A step that leaves the descriptors alone, to a place where none is open.
LEMMA QuietKeeps ==
  ASSUME ProgInv, NEW l, NEW text, NEW to, Continue(l, text, to),
         BuffersKept', UNCHANGED vars, Frame(l), pc \in Quiet, to \in Quiet,
         to \in Fresh => l.last = 0 /\ l.refused = 0
  PROVE  ProgInv' /\ Served
<1>1. Served
  BY DEF Served
<1>2. prog # Anything => AllClosed'
  BY DEF ProgInv, AllClosed, vars
<1>3. pc' = to /\ to \notin {"read", "entry", "open", "line", "close", "call"}
  BY DEF Continue, Quiet
<1>4. ReadersInv' /\ SyserrInv'
  BY <1>3 DEF ReadersInv, SyserrInv
<1> QED
  BY <1>1, <1>2, <1>4, ContinueKeeps

\* The shell reports and prompts.
LEMMA ShellReportKeeps ==
  ASSUME ProgInv, ShellReport
  PROVE  ProgInv' /\ Served
<1>1. /\ prog = Shell /\ prog' = Shell /\ pc = "report" /\ pc' = "prompt"
      /\ local' = local /\ overrun' = overrun /\ UNCHANGED vars
  BY DEF ShellReport, Running
<1>2. Served /\ FilesInv'
  BY <1>1, ServedKeeps DEF Served, ProgInv
<1>3. AllClosed'
  BY <1>1, Distinct DEF ProgInv, Quiet, AllClosed, vars
<1>4. ReadersInv' /\ SyserrInv' /\ pc' \notin Fresh
  BY <1>1, Distinct DEF ReadersInv, SyserrInv, Fresh
<1> QED
  BY <1>1, <1>2, <1>3, <1>4 DEF ProgInv, Frame, BuffersKept

\* The argument is fetched; nothing but getargs may have written behind an
\* array.
LEMMA GetargsKeeps ==
  ASSUME ProgInv, Getargs
  PROVE  ProgInv' /\ Served
<1>1. /\ pc = "main" /\ Frame(local) /\ local.last = 0 /\ local.refused = 0
      /\ UNCHANGED vars
  BY DEF Getargs, ProgInv, Fresh
<1>2. PICK buf, to : /\ to \in {"noargument", "argument"}
                     /\ Continue([local EXCEPT !.buf = buf], <<>>, to)
  BY DEF Getargs
<1> DEFINE l == [local EXCEPT !.buf = buf]
<1>3. Frame(l) /\ l.last = 0 /\ l.refused = 0
  BY <1>1 DEF Frame, Keys
<1>4. Continue(l, <<>>, to)
  BY <1>2
<1> HIDE DEF l
<1>5. BuffersKept'
  BY DEF Getargs, Behind, ProgInv, BuffersKept
<1>6. pc \in Quiet /\ to \in Quiet
  BY <1>1, <1>2 DEF Quiet
<1> QED
  BY <1>1, <1>3, <1>4, <1>5, <1>6, QuietKeeps

\* The question is asked.
LEMMA AskKeeps ==
  ASSUME ProgInv, Ask
  PROVE  ProgInv' /\ Served
<1>1. /\ pc \in Quiet /\ "ask" \in Quiet /\ Frame(local)
      /\ local.last = 0 /\ local.refused = 0
  BY DEF Ask, Quiet, Fresh, ProgInv
<1>2. PICK text : Step(local, text, "ask") /\ UNCHANGED vars
  BY DEF Ask
<1> QED
  BY <1>1, <1>2, StepContinues, QuietKeeps

\* The answer is read into the buffer.
LEMMA ReadAnswerKeeps ==
  ASSUME ProgInv, NEW line, ReadAnswer(line)
  PROVE  ProgInv' /\ Served
<1>1. Served
  BY DEF ReadAnswer, Served
<1>2. FilesInv'
  BY <1>1, ServedKeeps DEF ProgInv
<1>3. /\ prog' = prog /\ pc = "ask" /\ pc' = "answered"
      /\ file_array' = file_array
  BY DEF ReadAnswer, vars
<1>4. prog # Anything => AllClosed'
  BY <1>3 DEF ProgInv, Quiet, AllClosed
<1>5. ~(0 + (LineBytes + 1) > BUFSIZE)
  BY Sizes DEF LineBytes
<1>6. BuffersKept'
  BY <1>5 DEF ReadAnswer, Behind, ProgInv, BuffersKept
<1>7. ReadersInv' /\ SyserrInv'
  BY <1>3 DEF ReadersInv, SyserrInv
<1>8. Frame(local) /\ local.last = 0 /\ local.refused = 0
  BY <1>3 DEF ProgInv, Fresh
<1>9. \E b, c : local' = [local EXCEPT !.buf = b, !.cnt = c]
  BY DEF ReadAnswer
<1>10. Frame(local') /\ local'.last = 0 /\ local'.refused = 0
  BY <1>8, <1>9 DEF Frame, Keys
<1> QED
  BY <1>1, <1>2, <1>3, <1>4, <1>6, <1>7, <1>10 DEF ProgInv, Frame

\* hello and testprint end, sigtest faults, others have no argument.
LEMMA OneShotKeeps ==
  ASSUME ProgInv, HelloMain \/ TestprintMain \/ SigtestMain \/ NoArgument
  PROVE  ProgInv' /\ Served
BY HaltKeeps
DEF HelloMain, TestprintMain, SigtestMain, exception_user_program, NoArgument

\* counter counts.
LEMMA CounterKeeps ==
  ASSUME ProgInv, CounterMain \/ CounterLoop
  PROVE  ProgInv' /\ Served
<1>1. /\ pc \in Quiet /\ "count" \in Quiet \ Fresh /\ Frame(local)
  BY DEF CounterMain, CounterLoop, Running, Quiet, Fresh, ProgInv
<1>2. CASE \E text : sys_halt(0, text)
  BY <1>2, HaltKeeps
<1>3. CASE \E l, text : Frame(l) /\ Step(l, text, "count") /\ UNCHANGED vars
  BY <1>1, <1>3, StepContinues, QuietKeeps
<1>4. \A v : Frame([local EXCEPT !.i = v])
  BY <1>1 DEF Frame, Keys
<1>5. Frame([local EXCEPT !.last = @ + 1])
  BY <1>1 DEF Frame, Keys
<1>6. CASE CounterMain
  BY <1>2, <1>3, <1>4, <1>6 DEF CounterMain
<1>7. CASE CounterLoop
  BY <1>2, <1>3, <1>5, <1>7 DEF CounterLoop
<1> QED
  BY <1>6, <1>7

-----------------------------------------------------------------------------
(***************************************************************************)
(* cat, ls and grep                                                        *)
(***************************************************************************)

\* The calls of the programs are calls that Files knows.
LEMMA CallsServed ==
  /\ \A name : sys_open(name) => Served
  /\ \A fd \in Opened : sys_close(fd) => Served
  /\ \A fd \in Opened, n \in Nat : ReadCall(fd, n) => Served
<1>1. \A n \in Nat : n \in Int /\ Unsigned(n) \in Nat
  BY DEF Unsigned
<1> QED
  BY <1>1 DEF Served, ReadCall

\* Where open succeeds it is known which descriptor it returns.
LEMMA NewOpened ==
  ASSUME NEW name, CanOpen(name)
  PROVE  NewFd \in Opened
BY DEF CanOpen, NewFd

\* A read delivers at most what was asked for.
LEMMA AtMost ==
  ASSUME FilesInv, NEW fd \in Opened, NEW n \in Nat
  PROVE  Len(ReadBytes(fd, n)) \in 0 .. n
<1> DEFINE f == file_array[fd]
           name == Dentry[f.file_position + 1].name
           bytes == ReadBytes(fd, n)
<1>1. f \in Descriptors /\ InStep(f, got[fd])
  BY OpenedInFd DEF FilesInv
<1>2. CASE f.type = "file"
  <2> DEFINE x == f.inode
             offset == f.file_position
             left == Inode[x].length - offset
             m == IF left <= n THEN left ELSE n
             c == Capacity(offset, Blocks(m))
             k == IF m <= c THEN m ELSE c
  <2>1. x \in DOMAIN Inode /\ offset \in 0 .. Inode[x].length
        /\ Inode[x].length \in Nat
    BY <1>1, <1>2, ImageAssumption DEF Descriptors, InStep, Size
  <2>2. bytes = read_data(x, offset, n)
    BY <1>2 DEF ReadBytes
  <2>3. /\ m \in Nat /\ c \in Int /\ c >= 1
        /\ read_data(x, offset, n) = [j \in 1 .. k |-> Content[x][offset + j]]
    BY <2>1, Delivers
  <2>4. left \in Nat /\ m <= n
    BY <2>1
  <2> HIDE DEF m, c, x, offset, bytes
  <2>5. k \in 0 .. n
    BY <2>3, <2>4
  <2>6. Elements(bytes, k)
    BY <2>2, <2>3 DEF Elements
  <2> HIDE DEF k
  <2>7. k \in Nat
    BY <2>5
  <2>8. Len(bytes) = k
    BY <2>6, <2>7, Given
  <2> QED
    BY <2>5, <2>8 DEF bytes
<1>3. CASE f.type = "dir" /\ name # NoName
  <2>1. bytes = [i \in 1 .. n |-> IF i <= Len(name) THEN name[i] ELSE Nul]
    BY <1>3 DEF ReadBytes
  <2>2. Elements(bytes, n)
    BY <2>1 DEF Elements
  <2> HIDE DEF bytes
  <2>3. Len(bytes) = n
    BY <2>2, Given
  <2> QED
    BY <2>3 DEF bytes
<1>4. CASE f.type # "file" /\ ~(f.type = "dir" /\ name # NoName)
  <2>1. bytes = <<>>
    BY <1>4 DEF ReadBytes
  <2> QED
    BY <2>1
<1> QED
  BY <1>2, <1>3, <1>4

\* cat and ls have opened what they read.
LEMMA CatLsKeeps ==
  ASSUME ProgInv, CatMain \/ CatLoop \/ LsMain \/ LsLoop
  PROVE  ProgInv' /\ Served
<1> DEFINE Reads(l, text) ==
             /\ prog \in {Cat, Ls} /\ Frame(l) /\ l.fd \in Opened
             /\ Step(l, text, "read") /\ Served
<1>1. CASE \E s \in {0, 2, 3} : \E text : sys_halt(s, text)
  BY <1>1, HaltKeeps
<1>2. CASE \E l, text : Reads(l, text)
  <2>1. PICK l, text : Reads(l, text)
    BY <1>2
  <2>2. /\ Continue(l, text, "read") /\ BuffersKept'
        /\ prog' = prog /\ pc' = "read" /\ local' = l
    BY <2>1, StepContinues DEF Continue
  <2>3. ReadersInv' /\ SyserrInv'
    BY <2>1, <2>2, Distinct DEF ReadersInv, SyserrInv
  <2>4. "read" \notin Quiet \cup Fresh
    BY DEF Quiet, Fresh
  <2> QED
    BY <2>1, <2>2, <2>3, <2>4, ContinueKeeps
<1>3. \A fd \in Opened : Frame([local EXCEPT !.fd = fd])
                         /\ [local EXCEPT !.fd = fd].fd = fd
  BY DEF ProgInv, Frame, Keys
<1>4. CASE CatMain
  BY <1>1, <1>2, <1>3, <1>4, CallsServed, NewOpened DEF CatMain, Running
<1>5. CASE LsMain
  BY <1>1, <1>2, <1>3, <1>5, CallsServed, NewOpened DEF LsMain, Running
<1>6. pc = "read" /\ prog \in {Cat, Ls} => Frame(local) /\ local.fd \in Opened
  BY DEF ProgInv, ReadersInv
<1>7. CASE CatLoop
  BY <1>1, <1>2, <1>6, <1>7, CallsServed, Sizes DEF CatLoop, Running
<1>8. CASE LsLoop
  BY <1>1, <1>2, <1>6, <1>8, CallsServed, Sizes DEF LsLoop, Running
<1> QED
  BY <1>4, <1>5, <1>7, <1>8

\* Where grep is, and what it has there.
InGrep(l, to) ==
  /\ to \in {"entry", "open", "read", "line", "close"}
  /\ l.fd \in Opened
  /\ to \in {"read", "line", "close"} => l.file \in Opened
  /\ to \in {"read", "line"} => l.last \in 0 .. BUFSIZE
  /\ to = "line" => l.line_start \in 0 .. l.last

\* A step of grep keeps the invariant if its variables stay in their range.
LEMMA GrepStep ==
  ASSUME ProgInv, prog = Grep, NEW l, NEW text, NEW to,
         Continue(l, text, to), BuffersKept', Served, Frame(l),
         InGrep(l, to)
  PROVE  ProgInv'
<1>1. prog' = Grep /\ pc' = to /\ local' = l
  BY DEF Continue
<1>2. ReadersInv' /\ SyserrInv'
  BY <1>1, Distinct DEF ReadersInv, SyserrInv, InGrep
<1>3. to \notin Quiet \cup Fresh
  BY DEF InGrep, Quiet, Fresh
<1> QED
  BY <1>2, <1>3, ContinueKeeps

\* grep's variables where it is.
LEMMA GrepHas ==
  ASSUME ProgInv, prog = Grep
  PROVE  /\ Frame(local) /\ BuffersKept
         /\ pc \in {"entry", "open", "read", "line", "close"} =>
              InGrep(local, pc)
BY DEF ProgInv, ReadersInv, InGrep

\* grep opens the directory and reads the next name.
LEMMA GrepNamesKeep ==
  ASSUME ProgInv, GrepMain \/ GrepEntry
  PROVE  ProgInv' /\ Served
<1>0. prog = Grep /\ Frame(local) /\ BuffersKept
  BY GrepHas DEF GrepMain, GrepEntry, Running
<1>1. CASE \E s \in {0, 2, 3} : \E text : sys_halt(s, text)
  BY <1>1, HaltKeeps
<1>2. CASE \E to \in {"entry", "open"} : \E l, text :
             Frame(l) /\ l.fd \in Opened /\ Step(l, text, to) /\ Served
  <2>1. PICK to \in {"entry", "open"} : \E l, text :
             Frame(l) /\ l.fd \in Opened /\ Step(l, text, to) /\ Served
    BY <1>2
  <2>2. PICK l, text :
             Frame(l) /\ l.fd \in Opened /\ Step(l, text, to) /\ Served
    BY <2>1
  <2>3. InGrep(l, to) /\ Continue(l, text, to) /\ BuffersKept'
    BY <2>1, <2>2, StepContinues DEF InGrep
  <2> QED
    BY <1>0, <2>2, <2>3, GrepStep
<1>3. CASE GrepMain
  <2>1. CASE CanOpen(Dot) /\ sys_open(Dot)
             /\ Step([local EXCEPT !.fd = NewFd], <<>>, "entry")
    <3> DEFINE l == [local EXCEPT !.fd = NewFd]
    <3>1. Step(l, <<>>, "entry")
      BY <2>1
    <3>2. Frame(l) /\ l.fd = NewFd
      BY <1>0 DEF Frame, Keys
    <3>3. Served /\ NewFd \in Opened
      BY <2>1, NewOpened, CallsServed
    <3> HIDE DEF l
    <3> QED
      BY <1>2, <3>1, <3>2, <3>3
  <2> QED
    BY <1>1, <1>3, <2>1 DEF GrepMain
<1>4. CASE GrepEntry
  <2>1. local.fd \in Opened
    BY <1>0, <1>4, GrepHas DEF GrepEntry, Running, InGrep
  <2>2. \A v : Frame([local EXCEPT !.fname = v])
               /\ [local EXCEPT !.fname = v].fd = local.fd
    BY <1>0 DEF Frame, Keys
  <2> DEFINE v == SelectSeq(ReadBytes(local.fd, NUM_DENTRY_NAME),
                            LAMBDA c : c # Nul)
             l == [local EXCEPT !.fname = v]
  <2>3. \/ sys_halt(0, <<>>)
        \/ /\ ReadCall(local.fd, NUM_DENTRY_NAME)
           /\ Step(local, <<>>, "entry") \/ Step(l, <<>>, "open")
    BY <1>4 DEF GrepEntry
  <2> HIDE DEF v
  <2>4. Frame(l) /\ l.fd \in Opened
    BY <2>1, <2>2
  <2> HIDE DEF l
  <2>5. ReadCall(local.fd, NUM_DENTRY_NAME) => Served
    BY <2>1, CallsServed, Sizes
  <2> QED
    BY <1>0, <1>1, <1>2, <2>1, <2>3, <2>4, <2>5
<1> QED
  BY <1>3, <1>4

\* grep opens the file it has the name of.
LEMMA GrepOpenKeeps ==
  ASSUME ProgInv, DoOneFile
  PROVE  ProgInv' /\ Served
<1>0. prog = Grep /\ pc = "open" /\ Frame(local) /\ BuffersKept
      /\ local.fd \in Opened
  BY GrepHas DEF DoOneFile, Running, InGrep
<1>1. CASE \E text : sys_halt(3, text)
  BY <1>1, HaltKeeps
<1>2. CASE CanOpen(local.fname) /\ \E g \in Leftovers :
             /\ sys_open(local.fname)
             /\ Continue([local EXCEPT !.file = NewFd, !.last = 0, !.data = g],
                         <<>>, "read")
             /\ UNCHANGED overrun
  <2>1. PICK g \in Leftovers :
             /\ sys_open(local.fname)
             /\ Continue([local EXCEPT !.file = NewFd, !.last = 0, !.data = g],
                         <<>>, "read")
             /\ UNCHANGED overrun
    BY <1>2
  <2> DEFINE l == [local EXCEPT !.file = NewFd, !.last = 0, !.data = g]
  <2>2. Frame(l) /\ l.fd = local.fd /\ l.file = NewFd /\ l.last = 0
    BY <1>0 DEF Frame, Keys
  <2>3. Continue(l, <<>>, "read") /\ Served /\ BuffersKept'
    BY <1>0, <2>1, CallsServed DEF BuffersKept
  <2> HIDE DEF l
  <2>4. InGrep(l, "read")
    BY <1>0, <1>2, <2>2, NewOpened, Sizes DEF InGrep
  <2> QED
    BY <1>0, <2>2, <2>3, <2>4, GrepStep
<1> QED
  BY <1>1, <1>2 DEF DoOneFile

\* grep fills the rest of its buffer.
LEMMA GrepReadKeeps ==
  ASSUME ProgInv, GrepRead
  PROVE  ProgInv' /\ Served
<1> DEFINE room == BUFSIZE - local.last
           bytes == ReadBytes(local.file, room)
           data == Stored(local.data, local.last, bytes)
           n == Len(bytes)
           l == [local EXCEPT !.cnt = n, !.data = data, !.last = @ + n,
                              !.line_start = 0]
<1>1. prog = Grep /\ pc = "read" /\ Frame(local) /\ BuffersKept
      /\ local.fd \in Opened /\ local.file \in Opened
      /\ local.last \in 0 .. BUFSIZE
  BY GrepHas DEF GrepRead, Running, InGrep
<1>2. room \in Nat /\ n \in 0 .. room
  <2>1. room \in Nat
    BY <1>1, Sizes
  <2> HIDE DEF room
  <2> QED
    BY <1>1, <2>1, AtMost DEF ProgInv
<1>3. /\ ReadCall(local.file, room) /\ Continue(l, <<>>, "line")
      /\ overrun' = overrun \cup Behind("read", local.last, room, BUFSIZE + 1)
  BY DEF GrepRead
<1>4. Served
  BY <1>1, <1>2, <1>3, CallsServed
<1>5. ~(local.last + room > BUFSIZE + 1)
  BY <1>1, Sizes
<1>6. BuffersKept'
  BY <1>1, <1>3, <1>5 DEF Behind, BuffersKept
<1> HIDE DEF data, bytes, n
<1>7. /\ Frame(l) /\ l.fd = local.fd /\ l.file = local.file
      /\ l.last = local.last + n /\ l.line_start = 0
  BY <1>1 DEF Frame, Keys
<1> HIDE DEF l
<1>8. l.last \in 0 .. BUFSIZE /\ l.line_start \in 0 .. l.last
  BY <1>1, <1>2, <1>7, Sizes
<1>9. InGrep(l, "line")
  BY <1>1, <1>7, <1>8 DEF InGrep
<1> QED
  BY <1>1, <1>3, <1>4, <1>6, <1>7, <1>9, GrepStep

\* grep looks at a line of its buffer.
LEMMA GrepLineKeeps ==
  ASSUME ProgInv, GrepLine
  PROVE  ProgInv' /\ Served
<1> DEFINE from == local.line_start
           ends == {j \in from .. local.last : local.data[j] = Newline}
                     \cup {local.last}
           line_end == Min(ends)
<1>1. /\ prog = Grep /\ pc = "line" /\ Frame(local) /\ BuffersKept
      /\ local.fd \in Opened /\ local.file \in Opened
      /\ local.last \in 0 .. BUFSIZE /\ from \in 0 .. local.last
  BY GrepHas DEF GrepLine, Running, InGrep
<1>2. line_end \in from .. local.last
  <2>1. ends \subseteq from .. local.last /\ ends # {} /\ ends \subseteq Nat
    BY <1>1, Sizes
  <2> HIDE DEF ends
  <2> QED
    BY <2>1, MinIsLeast
<1>3. UNCHANGED vars /\ Served /\ BuffersKept'
  BY <1>1 DEF GrepLine, Served, BuffersKept
<1> HIDE DEF ends, line_end
<1>4. CASE \E l, text, to : /\ Continue(l, text, to) /\ Frame(l) /\ InGrep(l, to)
  BY <1>1, <1>3, <1>4, GrepStep
<1>5. CASE \E v, text : Continue([local EXCEPT !.data = v,
                                  !.last = @ - from], text, "read")
  <2>1. PICK v, text : Continue([local EXCEPT !.data = v,
                                  !.last = @ - from], text, "read")
    BY <1>5
  <2> DEFINE l == [local EXCEPT !.data = v, !.last = @ - from]
  <2>2. /\ Frame(l) /\ l.fd = local.fd /\ l.file = local.file
        /\ l.last = local.last - from
    BY <1>1 DEF Frame, Keys
  <2>3. Continue(l, text, "read")
    BY <2>1
  <2> HIDE DEF l
  <2>4. l.last \in 0 .. BUFSIZE
    BY <1>1, <2>2, Sizes
  <2>5. InGrep(l, "read")
    BY <1>1, <2>2, <2>4 DEF InGrep
  <2> QED
    BY <1>4, <2>2, <2>3, <2>5
<1>6. CASE line_end + 1 < local.last
           /\ \E v, text : Continue([local EXCEPT !.data = v,
                                  !.line_start = line_end + 1], text, "line")
  <2>1. PICK v, text : Continue([local EXCEPT !.data = v,
                                  !.line_start = line_end + 1], text, "line")
    BY <1>6
  <2> DEFINE l == [local EXCEPT !.data = v, !.line_start = line_end + 1]
  <2>2. /\ Frame(l) /\ l.fd = local.fd /\ l.file = local.file
        /\ l.last = local.last /\ l.line_start = line_end + 1
    BY <1>1 DEF Frame, Keys
  <2>3. Continue(l, text, "line")
    BY <2>1
  <2> HIDE DEF l
  <2>4. l.last \in 0 .. BUFSIZE /\ l.line_start \in 0 .. l.last
    BY <1>1, <1>2, <1>6, <2>2, Sizes
  <2>5. InGrep(l, "line")
    BY <1>1, <2>2, <2>4 DEF InGrep
  <2> QED
    BY <1>4, <2>2, <2>3, <2>5
<1>7. CASE \E to \in {"close", "read"} : \E v, text :
             Continue([local EXCEPT !.data = v, !.last = 0], text, to)
  <2>0. PICK to \in {"close", "read"} : \E v, text :
             Continue([local EXCEPT !.data = v, !.last = 0], text, to)
    BY <1>7
  <2>1. PICK v, text : Continue([local EXCEPT !.data = v, !.last = 0], text, to)
    BY <2>0
  <2> DEFINE l == [local EXCEPT !.data = v, !.last = 0]
  <2>2. /\ Frame(l) /\ l.fd = local.fd /\ l.file = local.file
        /\ l.last = 0
    BY <1>1 DEF Frame, Keys
  <2>3. Continue(l, text, to)
    BY <2>1
  <2> HIDE DEF l
  <2>4. InGrep(l, to)
    BY <1>1, <2>0, <2>2, Sizes DEF InGrep
  <2> QED
    BY <1>4, <2>2, <2>3, <2>4
<1> DEFINE d == local.data
           ended_line == [d EXCEPT ![line_end] = Nul]
           line == CString(ended_line, from)
           s == CString(local.buf, 0)
           found == /\ ~Carried(d, from, line_end)
                    /\ \E check \in from .. line_end - 1 :
                         ece391_strncmp(CString(ended_line, check), s, Len(s))
           text == IF found
                     THEN local.fname \o <<":">> \o line \o <<Newline>>
                     ELSE <<>>
           down == ece391_strcpy(ended_line, from)
<1>8. IF Carried(d, from, line_end)
        THEN Continue([local EXCEPT !.data = down, !.last = @ - from], text,
                      "read")
      ELSE IF line_end + 1 < local.last
        THEN Continue([local EXCEPT !.data = ended_line,
                                    !.line_start = line_end + 1], text, "line")
      ELSE Continue([local EXCEPT !.data = ended_line, !.last = 0], text,
                    IF AtEnd(local.cnt) THEN "close" ELSE "read")
  BY DEF GrepLine, line_end, ends
<1> HIDE DEF d, ended_line, line, s, found, text, down
<1>9. (IF AtEnd(local.cnt) THEN "close" ELSE "read") \in {"close", "read"}
  OBVIOUS
<1> QED
  BY <1>5, <1>6, <1>7, <1>8, <1>9

\* grep closes the file it has opened.
LEMMA GrepCloseKeeps ==
  ASSUME ProgInv, GrepClose
  PROVE  ProgInv' /\ Served
<1> DEFINE l == [local EXCEPT !.data = <<>>]
<1>1. /\ prog = Grep /\ Frame(local) /\ BuffersKept
      /\ local.fd \in Opened /\ local.file \in Opened
  BY GrepHas DEF GrepClose, Running, InGrep
<1>2. Served /\ Continue(l, <<>>, "entry") /\ BuffersKept'
  BY <1>1, CallsServed, StepContinues DEF GrepClose
<1>3. Frame(l) /\ l.fd = local.fd
  BY <1>1 DEF Frame, Keys
<1>4. InGrep(l, "entry")
  BY <1>1, <1>3 DEF InGrep
<1> HIDE DEF l
<1> QED
  BY <1>1, <1>2, <1>3, <1>4, GrepStep

-----------------------------------------------------------------------------
(***************************************************************************)
(* syserr                                                                  *)
(***************************************************************************)

\* The calls on all descriptors from a to b.
LEMMA OnInterval ==
  ASSUME NEW call, NEW a \in Nat, NEW b \in Nat, a <= b
  PROVE  OnAll(call, a .. b) = [i \in 1 .. b - a + 1 |-> Call(call, a + i - 1)]
<1>1. Min(a .. b) = a
  <2>1. Min(a .. b) \in a .. b /\ \A y \in a .. b : Min(a .. b) <= y
    BY MinIsLeast
  <2> QED
    BY <2>1
<1>2. Cardinality(a .. b) = b - a + 1
  BY FS_Interval
<1> QED
  BY <1>1, <1>2 DEF OnAll

\* The tests, by number.
LEMMA TestCalls ==
  /\ Tests[1].calls = err_neg_fd /\ Tests[2].calls = err_big_fd
  /\ Tests[3].calls = err_open_lots /\ Tests[4].calls = err_open
  /\ Tests[5].calls = err_unopened /\ Tests[6].calls = err_vidmap
  /\ Tests[7].calls = err_stdin_out /\ Tests[8].calls = err_syscall_num
  /\ \A t \in 1 .. 8 : Tests[t].name = "err_open_lots" <=> t = 3
BY DEF Tests, Test

\* err_open_lots: opens up to one too many, then a close for each.
LEMMA LotsCalls ==
  LET M == MAX_OPEN_FILES
  IN /\ Len(err_open_lots) = M + M - 3
     /\ \A i \in 1 .. M + M - 3 :
          err_open_lots[i] = IF i < M THEN Call("open", Dot)
                             ELSE Call("finish", i - M + 2)
<1> DEFINE M == MAX_OPEN_FILES
           s == [i \in 1 .. M - 1 |-> Call("open", Dot)]
           u == OnAll("finish", Opened)
<1>1. M \in Nat /\ M > 2
  BY FilesAssumption
<1>2. u = [i \in 1 .. M - 2 |-> Call("finish", i + 1)]
  <2>1. u = [i \in 1 .. (M - 1) - 2 + 1 |-> Call("finish", 2 + i - 1)]
    BY <1>1, OnInterval DEF Opened
  <2>2. (M - 1) - 2 + 1 = M - 2 /\ \A i \in 1 .. M - 2 : 2 + i - 1 = i + 1
    BY <1>1
  <2> HIDE DEF u
  <2> QED
    BY <2>1, <2>2
<1> HIDE DEF u
<1> DEFINE a == M - 1
           e == M - 2
<1>3. Elements(s, a) /\ Elements(u, e) /\ a \in Nat /\ e \in Nat
  BY <1>1, <1>2 DEF Elements
<1>4. /\ \A k \in 1 .. a : s[k] = Call("open", Dot)
      /\ \A k \in 1 .. e : u[k] = Call("finish", k + 1)
  BY <1>2
<1>5. err_open_lots = Join(s, u)
  BY DEF err_open_lots, u, Join
<1> HIDE DEF s, a, e
<1>6. /\ Elements(err_open_lots, a + e) /\ a + e \in Nat
      /\ \A k \in 1 .. a : err_open_lots[k] = s[k]
      /\ \A k \in 1 .. e : err_open_lots[a + k] = u[k]
  BY <1>3, <1>5, Joined
<1>7. Len(err_open_lots) = a + e /\ a + e = M + M - 3
  <2> DEFINE n == a + e
  <2>1. n \in Nat /\ Elements(err_open_lots, n)
    BY <1>6
  <2> HIDE DEF n
  <2>2. Len(err_open_lots) = n
    BY <2>1, Given
  <2> QED
    BY <1>1, <2>2 DEF n, a, e
<1>8. ASSUME NEW i \in 1 .. M + M - 3
      PROVE  err_open_lots[i] = IF i < M THEN Call("open", Dot)
                                ELSE Call("finish", i - M + 2)
  <2>1. CASE i < M
    <3>1. i \in 1 .. a
      BY <1>1, <2>1 DEF a
    <3> QED
      BY <1>4, <1>6, <2>1, <3>1
  <2>2. CASE ~(i < M)
    <3>1. i - a \in 1 .. e /\ a + (i - a) = i /\ (i - a) + 1 = i - M + 2
      BY <1>1, <2>2 DEF a, e
    <3> QED
      BY <1>4, <1>6, <2>2, <3>1
  <2> QED
    BY <2>1, <2>2
<1> QED
  BY <1>7, <1>8

\* err_unopened: every call is on a descriptor.
LEMMA UnopenedCalls ==
  /\ Len(err_unopened) \in Nat
  /\ \A i \in 1 .. Len(err_unopened) :
       \/ \E fd \in Fd : err_unopened[i] = Call("close", fd)
       \/ \E fd \in Opened : err_unopened[i] = Call("read", fd)
       \/ \E fd \in Opened : err_unopened[i] = Call("write", fd)
<1> DEFINE M == MAX_OPEN_FILES
           s == OnAll("close", Fd)
           u == OnAll("read", Opened)
           w == OnAll("write", Opened)
<1>1. M \in Nat /\ M > 2 /\ M - 1 \in Nat /\ M - 2 \in Nat
  BY FilesAssumption
<1>2. s = [i \in 1 .. M |-> Call("close", i - 1)]
  <2>1. s = [i \in 1 .. (M - 1) - 0 + 1 |-> Call("close", 0 + i - 1)]
    BY <1>1, OnInterval DEF Fd
  <2>2. (M - 1) - 0 + 1 = M /\ \A i \in 1 .. M : 0 + i - 1 = i - 1
    BY <1>1
  <2> HIDE DEF s
  <2> QED
    BY <2>1, <2>2
<1>3. ASSUME NEW call
      PROVE  OnAll(call, Opened) = [i \in 1 .. M - 2 |-> Call(call, i + 1)]
  <2> DEFINE v == OnAll(call, Opened)
  <2>1. v = [i \in 1 .. (M - 1) - 2 + 1 |-> Call(call, 2 + i - 1)]
    BY <1>1, OnInterval DEF Opened
  <2>2. (M - 1) - 2 + 1 = M - 2 /\ \A i \in 1 .. M - 2 : 2 + i - 1 = i + 1
    BY <1>1
  <2> HIDE DEF v
  <2>3. v = [i \in 1 .. M - 2 |-> Call(call, i + 1)]
    BY <2>1, <2>2
  <2> QED
    BY <2>3 DEF v
<1>4. /\ u = [i \in 1 .. M - 2 |-> Call("read", i + 1)]
      /\ w = [i \in 1 .. M - 2 |-> Call("write", i + 1)]
  BY <1>3
<1> HIDE DEF s, u, w
<1> DEFINE e == M - 2
           x == Join(s, u)
           m == M + e
           n == m + e
<1>5. Elements(s, M) /\ Elements(u, e) /\ Elements(w, e) /\ e \in Nat
  BY <1>1, <1>2, <1>4 DEF Elements
<1> HIDE DEF e
<1>6. /\ Elements(x, m) /\ m \in Nat
      /\ \A k \in 1 .. M : x[k] = s[k]
      /\ \A k \in 1 .. e : x[M + k] = u[k]
  BY <1>1, <1>5, Joined
<1> HIDE DEF x, m
<1>7. err_unopened = Join(x, w)
  BY DEF err_unopened, x, s, u, w, Join
<1>8. /\ Elements(err_unopened, n) /\ n \in Nat
      /\ \A k \in 1 .. m : err_unopened[k] = x[k]
      /\ \A k \in 1 .. e : err_unopened[m + k] = w[k]
  BY <1>5, <1>6, <1>7, Joined
<1> HIDE DEF n
<1>9. Len(err_unopened) = n
  BY <1>8, Given
<1>10. ASSUME NEW i \in 1 .. n
       PROVE  \/ \E fd \in Fd : err_unopened[i] = Call("close", fd)
              \/ \E fd \in Opened : err_unopened[i] = Call("read", fd)
              \/ \E fd \in Opened : err_unopened[i] = Call("write", fd)
  <2>1. CASE i <= M
    <3>1. i \in 1 .. m /\ i - 1 \in Fd /\ i \in 1 .. M
      BY <1>1, <2>1 DEF m, n, e, Fd
    <3>2. err_unopened[i] = Call("close", i - 1)
      BY <1>2, <1>6, <1>8, <3>1
    <3> QED
      BY <3>1, <3>2
  <2>2. CASE ~(i <= M) /\ i <= m
    <3>1. /\ i \in 1 .. m /\ (i - M) + 1 \in Opened /\ i - M \in 1 .. e
          /\ M + (i - M) = i
      BY <1>1, <2>2 DEF m, n, e, Opened
    <3>2. err_unopened[i] = Call("read", (i - M) + 1)
      BY <1>4, <1>6, <1>8, <3>1 DEF e
    <3> QED
      BY <3>1, <3>2
  <2>3. CASE ~(i <= m)
    <3>1. /\ (i - m) + 1 \in Opened /\ i - m \in 1 .. e /\ m + (i - m) = i
      BY <1>1, <1>6, <2>3 DEF n, e, Opened
    <3>2. err_unopened[i] = Call("write", (i - m) + 1)
      BY <1>4, <1>8, <3>1 DEF e
    <3> QED
      BY <3>1, <3>2
  <2> QED
    BY <1>1, <1>6, <1>8, <2>1, <2>2, <2>3
<1> QED
  BY <1>8, <1>9, <1>10


\* What a call of a descriptor takes.
LEMMA AcceptsCases ==
  ASSUME NEW fd
  PROVE  /\ Accepts("read", fd) =>
              fd \in {0} \cup Opened /\ file_array[fd].type # "close"
         /\ Accepts("write", fd) =>
              fd \in {1} \cup Opened /\ file_array[fd].type # "close"
         /\ Accepts("close", fd) <=>
              fd \in Opened /\ file_array[fd].type # "close"
BY DEF Accepts

\* Whether a call of syserr is granted, by the call.
LEMMA GrantedCases ==
  ASSUME NEW arg
  PROVE  /\ Granted(Call("open", arg)) <=> CanOpen(arg)
         /\ Granted(Call("vidmap", arg)) <=> vidmapAccepts(arg)
         /\ Granted(Call("number", arg)) <=> syscall_handler(arg)
         /\ Granted(Call("finish", arg))
         /\ \A call \in {"read", "write", "close"} :
              Granted(Call(call, arg)) <=> Accepts(call, arg)
BY DEF Granted, Call

\* syserr's far descriptors are none, nor are the numbers out of range.
LEMMA FarOut ==
  /\ Far \notin {0, 1} \cup Opened /\ -Far \notin {0, 1} \cup Opened
  /\ ~syscall_handler(Far) /\ ~syscall_handler(-Far) /\ ~syscall_handler(0)
  /\ ~vidmapAccepts(0) /\ ~vidmapAccepts(4194304)
<1>1. MAX_OPEN_FILES <= Far /\ MAX_OPEN_FILES \in Nat
  BY SyserrAssumption, FilesAssumption, Zenon
<1>2. Far \in Nat /\ Far > 10
  BY DEF Far
<1>3. ~vidmapAccepts(0) /\ ~vidmapAccepts(4194304)
  BY DEF vidmapAccepts
<1>4. ~syscall_handler(Far) /\ ~syscall_handler(-Far) /\ ~syscall_handler(0)
  BY <1>2 DEF syscall_handler
<1>5. Far \notin {0, 1} \cup Opened /\ -Far \notin {0, 1} \cup Opened
  BY <1>1, <1>2 DEF Opened
<1> QED
  BY <1>3, <1>4, <1>5

\* A call that is refused and is not a close of the end changes nothing.
LEMMA RefusedUnchanged ==
  ASSUME NEW call, NEW arg, call # "finish", ~Granted(Call(call, arg)),
         Perform(Call(call, arg))
  PROVE  UNCHANGED vars
<1>1. Call(call, arg).call = call /\ Call(call, arg).arg = arg
  BY DEF Call
<1>2. call = "close" => ~Accepts("close", arg)
  BY GrantedCases
<1> QED
  BY <1>1, <1>2 DEF Perform

\* Every call of a test other than err_open_lots is refused while nothing
\* is open.
LEMMA Refused ==
  ASSUME AllClosed, NEW t \in 1 .. 8, t # 3
  PROVE  /\ Len(Tests[t].calls) \in Nat
         /\ \A i \in 1 .. Len(Tests[t].calls) :
              \E call, arg : /\ Tests[t].calls[i] = Call(call, arg)
                             /\ call # "finish"
                             /\ ~Granted(Call(call, arg))
<1> DEFINE No(c) == \E call, arg : /\ c = Call(call, arg) /\ call # "finish"
                                   /\ ~Granted(Call(call, arg))
           Fails(s) == /\ Len(s) \in Nat
                       /\ \A i \in 1 .. Len(s) : No(s[i])
<1>1. ASSUME NEW call, NEW arg, call # "finish", ~Granted(Call(call, arg))
      PROVE  No(Call(call, arg))
  BY <1>1
<1>2. \A a, b, c : No(a) /\ No(b) /\ No(c) => Fails(<<a, b, c>>)
  <2> HIDE DEF No
  <2> QED
    OBVIOUS
<1>3. \A a, b : No(a) /\ No(b) => Fails(<<a, b>>)
  <2> HIDE DEF No
  <2> QED
    OBVIOUS
<1>4. \A call \in {"read", "write", "close"} : \A fd :
        ~Accepts(call, fd) => No(Call(call, fd))
  BY <1>1, GrantedCases
<1> HIDE DEF No
<1>5. \A fd : fd \notin {0, 1} \cup Opened => Fails(OnFd(fd))
  <2> SUFFICES ASSUME NEW fd, fd \notin {0, 1} \cup Opened
               PROVE  Fails(OnFd(fd))
    OBVIOUS
  <2>1. ~Accepts("read", fd) /\ ~Accepts("write", fd) /\ ~Accepts("close", fd)
    BY AcceptsCases
  <2>2. No(Call("read", fd)) /\ No(Call("write", fd)) /\ No(Call("close", fd))
    BY <1>4, <2>1
  <2> HIDE DEF Fails
  <2> QED
    BY <1>2, <2>2 DEF OnFd
<1>6. Fails(err_open)
  <2>1. ~CanOpen(Append(Hello, "o")) /\ ~CanOpen(First(Grep, 3))
        /\ ~CanOpen(NoName)
    BY SyserrAssumption DEF CanOpen, read_dentry_by_name
  <2>2. /\ No(Call("open", Append(Hello, "o"))) /\ No(Call("open", NoName))
        /\ No(Call("open", First(Grep, 3)))
    BY <1>1, <2>1, GrantedCases
  <2> HIDE DEF Fails
  <2> QED
    BY <1>2, <2>2 DEF err_open
<1>7. Fails(err_unopened)
  <2>1. \A fd \in Fd : No(Call("close", fd))
    BY <1>4, AcceptsCases DEF AllClosed
  <2>2. \A fd \in Opened : No(Call("read", fd)) /\ No(Call("write", fd))
    BY <1>4, AcceptsCases DEF AllClosed
  <2> QED
    BY <2>1, <2>2, UnopenedCalls
<1>8. Fails(err_vidmap)
  <2>1. No(Call("vidmap", 0)) /\ No(Call("vidmap", 4194304))
    BY <1>1, FarOut, GrantedCases
  <2> HIDE DEF Fails
  <2> QED
    BY <1>3, <2>1 DEF err_vidmap
<1>9. Fails(err_stdin_out)
  <2>1. 0 \notin {1} \cup Opened /\ 1 \notin {0} \cup Opened
    BY FilesAssumption DEF Opened
  <2>2. No(Call("write", 0)) /\ No(Call("read", 1))
    BY <1>4, <2>1, AcceptsCases
  <2> HIDE DEF Fails
  <2> QED
    BY <1>3, <2>2 DEF err_stdin_out
<1>10. Fails(err_syscall_num)
  <2>1. /\ No(Call("number", Far)) /\ No(Call("number", -Far))
        /\ No(Call("number", 0))
    BY <1>1, FarOut, GrantedCases
  <2> HIDE DEF Fails
  <2> QED
    BY <1>2, <2>1 DEF err_syscall_num
<1>11. Fails(err_neg_fd) /\ Fails(err_big_fd)
  <2> HIDE DEF Fails
  <2> QED
    BY <1>5, FarOut DEF err_neg_fd, err_big_fd
<1>12. Fails(Tests[t].calls)
  <2> HIDE DEF Fails
  <2>1. t \in {1, 2, 4, 5, 6, 7, 8}
    OBVIOUS
  <2> QED
    BY <2>1, <1>6, <1>7, <1>8, <1>9, <1>10, <1>11, TestCalls
<1> QED
  BY <1>12 DEF No

\* A step that leaves nothing open is one to the beginning of a test.
LEMMA TestBegins ==
  ASSUME AllClosed, AllClosed', NEW t \in 1 .. 8
  PROVE  InTest(t, 1, 0)'
<1>1. Len(Tests[t].calls) \in Nat
  <2>1. CASE t = 3
    BY <2>1, TestCalls, LotsCalls, FilesAssumption
  <2>2. CASE t # 3
    BY <2>2, Refused
  <2> QED
    BY <2>1, <2>2
<1>2. 1 < MAX_OPEN_FILES /\ \A fd \in Opened : ~(fd <= 1)
  BY FilesAssumption DEF Opened
<1>3. 1 \in 1 .. Len(Tests[t].calls) + 1 /\ 0 = 1 - 1
  BY <1>1
<1> QED
  BY <1>2, <1>3 DEF InTest, AllClosed

\* A test ends with nothing open and as many calls refused as it wants.
LEMMA TestEnds ==
  ASSUME NEW t \in 1 .. 8, NEW i, NEW r, InTest(t, i, r),
         i > Len(Tests[t].calls)
  PROVE  AllClosed /\ r = Wanted(t)
<1>1. CASE t = 3
  <2> DEFINE M == MAX_OPEN_FILES
  <2>1. M \in Nat /\ M > 2 /\ Len(Tests[t].calls) = M + M - 3
    BY <1>1, FilesAssumption, TestCalls, LotsCalls
  <2>2. i = M + M - 2
    BY <2>1 DEF InTest
  <2>3. ~(i < M) /\ \A fd \in Opened : ~(fd > i - M + 1)
    BY <2>1, <2>2 DEF Opened
  <2>4. AllClosed /\ r = 1
    BY <1>1, <2>3 DEF InTest, AllClosed
  <2> QED
    BY <1>1, <2>4, TestCalls DEF Wanted
<1>2. CASE t # 3
  <2>1. AllClosed /\ r = i - 1 /\ i \in 1 .. Len(Tests[t].calls) + 1
    BY <1>2 DEF InTest
  <2>2. Len(Tests[t].calls) \in Nat
    BY <1>2, <2>1, Refused
  <2>3. r = Len(Tests[t].calls)
    BY <2>1, <2>2
  <2> QED
    BY <1>2, <2>1, <2>3, TestCalls DEF Wanted
<1> QED
  BY <1>1, <1>2

\* A call of a test other than err_open_lots.
LEMMA OtherCall ==
  ASSUME NEW t \in 1 .. 8, t # 3, NEW i, NEW r, InTest(t, i, r),
         i <= Len(Tests[t].calls), Perform(Tests[t].calls[i])
  PROVE  /\ ~Granted(Tests[t].calls[i])
         /\ UNCHANGED vars
         /\ InTest(t, i + 1, r + 1)'
<1>1. AllClosed /\ r = i - 1 /\ i \in 1 .. Len(Tests[t].calls) + 1
  BY DEF InTest
<1>2. Len(Tests[t].calls) \in Nat
  BY <1>1, Refused
<1>3. i \in 1 .. Len(Tests[t].calls)
  BY <1>1, <1>2
<1>4. PICK call, arg : /\ Tests[t].calls[i] = Call(call, arg)
                       /\ call # "finish"
                       /\ ~Granted(Call(call, arg))
  BY <1>1, <1>3, Refused
<1>5. UNCHANGED vars
  BY <1>4, RefusedUnchanged
<1>6. AllClosed'
  BY <1>1, <1>5 DEF AllClosed, vars
<1>7. i + 1 \in 1 .. Len(Tests[t].calls) + 1 /\ r + 1 = (i + 1) - 1
  BY <1>1, <1>2, <1>3
<1> QED
  BY <1>4, <1>5, <1>6, <1>7 DEF InTest

\* err_open_lots opens: the next descriptor, or no more.
LEMMA LotsOpen ==
  ASSUME FilesInv, NEW i \in 1 .. MAX_OPEN_FILES - 1, NEW r, InTest(3, i, r),
         Perform(Call("open", Dot))
  PROVE  IF i < MAX_OPEN_FILES - 1
           THEN /\ Granted(Call("open", Dot)) /\ sys_open(Dot)
                /\ \A fd \in Opened :
                     (file_array'[fd].type # "close" <=> fd <= i + 1)
           ELSE ~Granted(Call("open", Dot)) /\ UNCHANGED vars
<1> DEFINE M == MAX_OPEN_FILES
<1>1. M \in Nat /\ M > 2 /\ i < M
  BY FilesAssumption
<1>2. \A fd \in Opened : file_array[fd].type # "close" <=> fd <= i
  BY <1>1 DEF InTest
<1>3. Call("open", Dot).call = "open" /\ Call("open", Dot).arg = Dot
  BY DEF Call
<1>4. CASE i < M - 1
  <2>1. i + 1 \in Opened /\ \A e \in 2 .. i : e \in Opened
    BY <1>1, <1>4 DEF Opened
  <2>2. ~(i + 1 <= i) /\ (i + 1) - 1 = i /\ \A e \in 2 .. i : e <= i
    OBVIOUS
  <2>3. FreeDescriptor(i + 1)
    BY <1>2, <2>1, <2>2 DEF FreeDescriptor
  <2>4. CanOpen(Dot)
    BY <2>1, <2>3, SyserrAssumption DEF CanOpen
  <2>5. Granted(Call("open", Dot)) /\ sys_open(Dot)
    BY <1>3, <2>4, GrantedCases DEF Perform
  <2>6. PICK fd \in Opened, d \in read_dentry_by_name(Dot) :
          LET type == IF First(Dot, Len(Terminal)) = Terminal THEN "term"
                      ELSE Dentry[d].type
          IN /\ FreeDescriptor(fd)
             /\ file_array' = [file_array EXCEPT ![fd] =
                  [type |-> type,
                   inode |-> IF type = "file" THEN Dentry[d].inode ELSE 0,
                   file_position |-> 0]]
    BY <2>5 DEF sys_open
  <2>7. d \in DOMAIN Dentry
    BY <2>6 DEF read_dentry_by_name
  <2>8. Dentry[d].type # "close"
    BY <2>7, ImageAssumption
  <2>9. fd = i + 1
    <3>0. file_array[fd].type = "close"
      BY <2>6 DEF FreeDescriptor
    <3>1. ~(fd <= i) /\ fd \in Int
      BY <1>2, <3>0 DEF Opened
    <3>2. CASE fd > i + 1
      <4>1. i + 1 \in 2 .. fd - 1
        BY <3>1, <3>2, <2>1 DEF Opened
      <4>2. file_array[i + 1].type # "close"
        BY <2>6, <4>1 DEF FreeDescriptor
      <4> QED
        BY <1>2, <2>1, <2>2, <4>2
    <3> QED
      BY <3>1, <3>2
  <2>10. file_array'[fd].type # "close"
         /\ \A e \in Opened : e # fd => file_array'[e] = file_array[e]
    <3>1. fd \in Fd /\ DOMAIN file_array = Fd /\ Opened \subseteq Fd
      BY OpenedInFd DEF FilesInv
    <3> HIDE DEF FilesInv
    <3> QED
      BY <2>6, <2>8, <3>1
  <2>11. \A e \in Opened : e # i + 1 => (e <= i <=> e <= i + 1)
    BY DEF Opened
  <2>12. ASSUME NEW e \in Opened
         PROVE  file_array'[e].type # "close" <=> e <= i + 1
    <3>1. CASE e = i + 1
      BY <2>9, <2>10, <3>1
    <3>2. CASE e # i + 1
      BY <1>2, <2>9, <2>10, <2>11, <3>2
    <3> QED
      BY <3>1, <3>2
  <2> QED
    BY <1>4, <2>5, <2>12
<1>5. CASE ~(i < M - 1)
  <2>1. \A fd \in Opened : fd <= i
    BY <1>1, <1>5 DEF Opened
  <2>2. ~CanOpen(Dot)
    BY <1>2, <2>1 DEF CanOpen, FreeDescriptor
  <2>3. ~Granted(Call("open", Dot))
    BY <2>2, GrantedCases
  <2> QED
    BY <1>5, <2>3, RefusedUnchanged
<1> QED
  BY <1>4, <1>5

\* err_open_lots closes: the first descriptor that is open.
LEMMA LotsClose ==
  ASSUME FilesInv, NEW i \in MAX_OPEN_FILES .. MAX_OPEN_FILES + MAX_OPEN_FILES - 3,
         NEW r, InTest(3, i, r),
         Perform(Call("finish", i - MAX_OPEN_FILES + 2))
  PROVE  /\ i - MAX_OPEN_FILES + 2 \in Opened
         /\ sys_close(i - MAX_OPEN_FILES + 2)
         /\ \A fd \in Opened : (file_array'[fd].type # "close"
                                  <=> fd > i - MAX_OPEN_FILES + 2)
<1> DEFINE M == MAX_OPEN_FILES
           f == i - M + 2
<1>1. M \in Nat /\ M > 2 /\ ~(i < M)
  BY FilesAssumption
<1>2. \A fd \in Opened : file_array[fd].type # "close" <=> fd > i - M + 1
  BY <1>1 DEF InTest
<1>3. f \in Opened /\ f > i - M + 1
      /\ \A fd \in Opened : fd # f => (fd > i - M + 1 <=> fd > f)
  BY <1>1 DEF Opened
<1>0. f \in Int
  BY <1>1
<1> HIDE DEF f
<1>4. Call("finish", f).call = "finish" /\ Call("finish", f).arg = f
  BY DEF Call
<1>5. Accepts("close", f)
  BY <1>2, <1>3, AcceptsCases
<1>6. sys_close(f)
  BY <1>4, <1>5 DEF Perform, f
<1>7. file_array'[f].type = "close"
      /\ \A e \in Opened : e # f => file_array'[e] = file_array[e]
  <2>1. /\ f \in Fd /\ file_array \in [Fd -> Descriptors]
        /\ Opened \subseteq Fd
    BY <1>3, OpenedInFd DEF FilesInv
  <2> QED
    BY <1>6, <2>1 DEF sys_close, Descriptors
<1>8. ASSUME NEW fd \in Opened
      PROVE  file_array'[fd].type # "close" <=> fd > f
  <2>1. CASE fd = f
    <3>1. file_array'[fd].type = "close"
      BY <1>7, <2>1
    <3>2. ~(fd > f)
      BY <1>0, <2>1
    <3> QED
      BY <3>1, <3>2
  <2>2. CASE fd # f
    BY <1>2, <1>3, <1>7, <2>2
  <2> QED
    BY <2>1, <2>2
<1> QED
  BY <1>3, <1>6, <1>8 DEF f

\* A call of err_open_lots.
LEMMA LotsCall ==
  ASSUME FilesInv, NEW i, NEW r, InTest(3, i, r),
         i <= Len(Tests[3].calls), Perform(Tests[3].calls[i]),
         NEW g, g = IF Granted(Tests[3].calls[i]) THEN 0 ELSE 1
  PROVE  Served /\ InTest(3, i + 1, r + g)'
<1> DEFINE M == MAX_OPEN_FILES
           c == Tests[3].calls[i]
<1>1. M \in Nat /\ M > 2
  BY FilesAssumption
<1>2. Len(Tests[3].calls) = M + M - 3 /\ i \in 1 .. M + M - 3
  BY <1>1, TestCalls, LotsCalls DEF InTest
<1>3. c = IF i < M THEN Call("open", Dot) ELSE Call("finish", i - M + 2)
  BY <1>2, TestCalls, LotsCalls
<1>4. i + 1 \in 1 .. Len(Tests[3].calls) + 1
  BY <1>1, <1>2
<1>5. CASE i < M - 1
  <2>1. i < M /\ i + 1 < M /\ i \in 1 .. M - 1
    BY <1>1, <1>2, <1>5
  <2>2. c = Call("open", Dot) /\ r = 0
    BY <1>3, <2>1 DEF InTest
  <2>3. /\ Granted(c) /\ sys_open(Dot)
        /\ \A fd \in Opened : (file_array'[fd].type # "close" <=> fd <= i + 1)
    BY <1>5, <2>1, <2>2, LotsOpen
  <2>4. r + g = 0
    BY <2>2, <2>3
  <2> QED
    BY <1>4, <2>1, <2>3, <2>4, CallsServed DEF InTest
<1>6. CASE i = M - 1
  <2>1. /\ i < M /\ ~(i + 1 < M) /\ i \in 1 .. M - 1 /\ ~(i < M - 1)
        /\ \A fd \in Opened : fd <= i /\ fd > (i + 1) - M + 1
    BY <1>1, <1>2, <1>6 DEF Opened
  <2>2. c = Call("open", Dot) /\ r = 0
        /\ \A fd \in Opened : file_array[fd].type # "close"
    BY <1>3, <2>1 DEF InTest
  <2>3. ~Granted(c) /\ UNCHANGED vars
    BY <2>1, <2>2, LotsOpen
  <2>4. r + g = 1
    BY <2>2, <2>3
  <2>5. \A fd \in Opened : file_array'[fd].type # "close"
    BY <2>2, <2>3 DEF vars
  <2> QED
    BY <1>4, <2>1, <2>3, <2>4, <2>5 DEF InTest, Served
<1>7. CASE i >= M
  <2>1. /\ ~(i < M) /\ ~(i + 1 < M) /\ i \in M .. M + M - 3
        /\ (i + 1) - M + 1 = i - M + 2
    BY <1>1, <1>2, <1>7
  <2>2. c = Call("finish", i - M + 2) /\ r = 1
    BY <1>3, <2>1 DEF InTest
  <2>3. /\ i - M + 2 \in Opened /\ sys_close(i - M + 2)
        /\ \A fd \in Opened : (file_array'[fd].type # "close"
                                 <=> fd > i - M + 2)
    BY <2>1, <2>2, LotsClose
  <2>4. Granted(c)
    BY <2>2, GrantedCases
  <2>5. r + g = 1
    BY <2>2, <2>4
  <2> QED
    BY <1>4, <2>1, <2>3, <2>5, CallsServed DEF InTest
<1> QED
  BY <1>1, <1>2, <1>5, <1>6, <1>7

\* A step of syserr to its next call keeps the invariant.
LEMMA SyserrStep ==
  ASSUME ProgInv, prog = Syserr, NEW l, NEW text, Step(l, text, "call"),
         Served, Frame(l), l.tests \in Seq(1 .. 8), l.tests # <<>>,
         l.last = 0,
         NEW t, t = Head(l.tests), NEW i, i = l.i, NEW r, r = l.refused,
         InTest(t, i, r)'
  PROVE  ProgInv'
<1>1. /\ Continue(l, text, "call") /\ BuffersKept'
      /\ prog' = Syserr /\ pc' = "call" /\ local' = l
  BY StepContinues DEF Continue
<1>2. "call" \notin Quiet \cup Fresh
  BY DEF Quiet, Fresh
<1>3. ReadersInv'
  BY <1>1, Distinct DEF ReadersInv
<1>4. SyserrInv'
  BY <1>1 DEF SyserrInv, InTest, AllClosed
<1> QED
  BY <1>1, <1>2, <1>3, <1>4, ContinueKeeps

\* syserr makes a call.
LEMMA SyserrCallKeeps ==
  ASSUME ProgInv, SyserrCall
  PROVE  ProgInv' /\ Served
<1> DEFINE c == Tests[Head(local.tests)].calls[local.i]
           l == [local EXCEPT !.i = @ + 1,
                              !.refused = @ + (IF Granted(c) THEN 0 ELSE 1)]
<1>1. /\ prog = Syserr /\ pc = "call" /\ Frame(local) /\ FilesInv
      /\ local.tests \in Seq(1 .. 8) /\ local.tests # <<>> /\ local.last = 0
      /\ InTest(Head(local.tests), local.i, local.refused)
      /\ local.i <= Len(Tests[Head(local.tests)].calls)
      /\ Perform(c) /\ Step(l, <<>>, "call")
  BY DEF SyserrCall, Running, ProgInv, SyserrInv
<1>2. Head(local.tests) \in 1 .. 8
  BY <1>1
<1>3. PICK t \in 1 .. 8 : t = Head(local.tests)
  BY <1>2
<1>4. PICK i, r, g : /\ i = local.i /\ r = local.refused
                     /\ g = IF Granted(c) THEN 0 ELSE 1
  OBVIOUS
<1>5. /\ InTest(t, i, r) /\ i <= Len(Tests[t].calls)
      /\ Perform(Tests[t].calls[i])
      /\ g = IF Granted(Tests[t].calls[i]) THEN 0 ELSE 1
  BY <1>1, <1>3, <1>4
<1>6. l = [local EXCEPT !.i = i + 1, !.refused = r + g]
  BY <1>4
<1> HIDE DEF l, c
<1>7. /\ Frame(l) /\ l.tests = local.tests /\ l.last = local.last
      /\ l.i = i + 1 /\ l.refused = r + g
  BY <1>1, <1>6 DEF Frame, Keys
<1>8. Served /\ InTest(t, i + 1, r + g)'
  <2>1. CASE t = 3
    BY <1>1, <1>5, <2>1, LotsCall
  <2>2. CASE t # 3
    <3>1. /\ ~Granted(Tests[t].calls[i]) /\ UNCHANGED vars
          /\ InTest(t, i + 1, r + 1)'
      BY <1>5, <2>2, OtherCall
    <3>2. g = 1
      BY <1>5, <3>1
    <3> QED
      BY <3>1, <3>2 DEF Served
  <2> QED
    BY <2>1, <2>2
<1>9. PICK i2, r2 : i2 = i + 1 /\ r2 = r + g
  OBVIOUS
<1>10. InTest(t, i2, r2)' /\ i2 = l.i /\ r2 = l.refused /\ t = Head(l.tests)
  BY <1>3, <1>7, <1>8, <1>9
<1> QED
  BY <1>1, <1>7, <1>8, <1>10, SyserrStep

\* Which test a character selects.
LEMMA Selected ==
  ASSUME NEW c, NEW select, select = {t \in 0 .. 8 : c = Lookup[t + 1]},
         select # {}, select # {0}
  PROVE  Max(select) \in 1 .. 8
<1>1. \A t, u \in 0 .. 8 : Lookup[t + 1] = Lookup[u + 1] => t = u
  BY DEF Lookup
<1>2. PICK t \in 0 .. 8 : t \in select
  OBVIOUS
<1>3. select = {t}
  BY <1>1, <1>2
<1>4. Max({t}) = t
  BY DEF Max
<1>5. t # 0
  BY <1>3
<1> QED
  BY <1>2, <1>3, <1>4, <1>5

\* syserr chooses its tests.
LEMMA SyserrMainKeeps ==
  ASSUME ProgInv, SyserrMain
  PROVE  ProgInv' /\ Served
<1> DEFINE select == {t \in 0 .. 8 : local.buf[0] = Lookup[t + 1]}
           tests == IF select = {0} THEN [t \in 1 .. 8 |-> t]
                    ELSE <<Max(select)>>
           l == [local EXCEPT !.i = 1, !.tests = tests]
<1>1. /\ prog = Syserr /\ pc = "answered" /\ Frame(local) /\ AllClosed
      /\ local.last = 0 /\ local.refused = 0
  BY Distinct DEF SyserrMain, Running, ProgInv, Quiet, Fresh
<1>2. CASE \E text : sys_halt(0, text)
  BY <1>2, HaltKeeps
<1>3. CASE select # {} /\ Step(l, <<>>, "call") /\ UNCHANGED vars
  <2>1. tests \in Seq(1 .. 8) /\ tests # <<>>
    <3>1. CASE select = {0}
      <4> DEFINE all == [t \in 1 .. 8 |-> t]
      <4>1. tests = all
        BY <3>1
      <4>2. all \in [1 .. 8 -> 1 .. 8] /\ all[1] = 1
        OBVIOUS
      <4>3. all \in Seq(1 .. 8) /\ Len(all) = 8
        BY <4>2
      <4> HIDE DEF all, tests
      <4>4. Len(all) # 0
        BY <4>3
      <4>5. all # <<>>
        BY <4>4
      <4> QED
        BY <4>1, <4>3, <4>5
    <3>2. CASE select # {0}
      <4>1. Max(select) \in 1 .. 8
        BY <1>3, <3>2, Selected
      <4>2. tests = <<Max(select)>>
        BY <3>2
      <4> HIDE DEF select, tests
      <4> QED
        BY <4>1, <4>2
    <3> QED
      BY <3>1, <3>2
  <2>2. Step(l, <<>>, "call") /\ Served
    BY <1>3 DEF Served
  <2> HIDE DEF tests, select
  <2>3. /\ Frame(l) /\ l.tests = tests /\ l.last = 0 /\ l.i = 1
        /\ l.refused = 0
    BY <1>1 DEF Frame, Keys
  <2> HIDE DEF l
  <2>4. PICK t \in 1 .. 8 : t = Head(tests)
    BY <2>1
  <2>5. AllClosed'
    BY <1>1, <1>3 DEF AllClosed, vars
  <2>6. InTest(t, 1, 0)'
    BY <1>1, <2>5, TestBegins
  <2>7. l.tests \in Seq(1 .. 8) /\ l.tests # <<>> /\ t = Head(l.tests)
    BY <2>1, <2>3, <2>4
  <2> QED
    BY <1>1, <2>2, <2>3, <2>6, <2>7, SyserrStep
<1> QED
  BY <1>2, <1>3 DEF SyserrMain

\* syserr has a result: the test has passed, the next one begins or the
\* program ends.
LEMMA SyserrResultKeeps ==
  ASSUME ProgInv, SyserrResult
  PROVE  ProgInv' /\ Served
<1> DEFINE fail == IF local.refused = Wanted(Head(local.tests)) THEN 0 ELSE 2
           sum == local.last + fail
           l == [local EXCEPT !.i = 1, !.refused = 0, !.last = sum,
                              !.tests = Tail(@)]
<1>1. /\ prog = Syserr /\ pc = "call" /\ Frame(local)
      /\ local.tests \in Seq(1 .. 8) /\ local.tests # <<>> /\ local.last = 0
      /\ InTest(Head(local.tests), local.i, local.refused)
      /\ local.i > Len(Tests[Head(local.tests)].calls)
  BY DEF SyserrResult, Running, ProgInv, SyserrInv
<1>2. Head(local.tests) \in 1 .. 8
  BY <1>1
<1>3. AllClosed /\ local.refused = Wanted(Head(local.tests))
  BY <1>1, <1>2, TestEnds
<1>4. sum = 0
  BY <1>1, <1>3
<1>5. CASE \E text : sys_halt(sum, text)
  BY <1>4, <1>5, HaltKeeps
<1>6. CASE \E text : Len(local.tests) > 1 /\ Step(l, text, "call")
                     /\ UNCHANGED vars
  <2>1. PICK text : Len(local.tests) > 1 /\ Step(l, text, "call")
                    /\ UNCHANGED vars
    BY <1>6
  <2> HIDE DEF sum, fail
  <2>2. /\ Frame(l) /\ l.tests = Tail(local.tests) /\ l.last = sum
        /\ l.i = 1 /\ l.refused = 0
    BY <1>1 DEF Frame, Keys
  <2> HIDE DEF l
  <2>3. Tail(local.tests) \in Seq(1 .. 8) /\ Tail(local.tests) # <<>>
    <3> DEFINE ts == local.tests
               rest == Tail(ts)
    <3>1. ts \in Seq(1 .. 8) /\ ts # <<>> /\ Len(ts) > 1
      BY <1>1, <2>1
    <3> HIDE DEF ts
    <3>2. rest \in Seq(1 .. 8) /\ Len(rest) = Len(ts) - 1 /\ Len(ts) \in Nat
      BY <3>1
    <3> HIDE DEF rest
    <3>3. PICK n \in Nat : n = Len(ts) /\ n > 1 /\ Len(rest) = n - 1
      BY <3>1, <3>2, Zenon
    <3>4. n - 1 # 0
      BY <3>3
    <3>5. rest # <<>>
      BY <3>3, <3>4
    <3> QED
      BY <3>2, <3>5 DEF rest, ts
  <2>4. PICK t \in 1 .. 8 : t = Head(Tail(local.tests))
    BY <2>3
  <2>5. AllClosed' /\ Served
    BY <1>3, <2>1 DEF AllClosed, vars, Served
  <2>6. InTest(t, 1, 0)'
    BY <1>3, <2>5, TestBegins
  <2>7. /\ l.tests \in Seq(1 .. 8) /\ l.tests # <<>> /\ t = Head(l.tests)
        /\ l.last = 0
    BY <1>4, <2>2, <2>3, <2>4
  <2> QED
    BY <1>1, <2>1, <2>2, <2>5, <2>6, <2>7, SyserrStep
<1> QED
  BY <1>5, <1>6 DEF SyserrResult

-----------------------------------------------------------------------------
(***************************************************************************)
(* The theorems                                                            *)
(***************************************************************************)

\* Initially nothing is open and nothing runs.
LEMMA ProgStarts == ProgInit => ProgInv
<1> SUFFICES ASSUME ProgInit PROVE ProgInv
  OBVIOUS
<1>1. FilesInv /\ Frame(local) /\ BuffersKept /\ pc = "prompt"
  BY FilesInit DEF ProgInit, NoLocals, Frame, Keys, BuffersKept
<1>2. AllClosed
  BY OpenedInFd, FilesAssumption DEF ProgInit, Init, AllClosed, Opened
<1> QED
  BY <1>1, <1>2 DEF ProgInv, ReadersInv, SyserrInv, Fresh

\* Every step of a program, of the shell or of any other process does to
\* the descriptors what Files knows, and keeps the invariant.
LEMMA ProgKeeps ==
  ASSUME ProgInv, [ProgNext]_allvars
  PROVE  ProgInv' /\ Served
<1>1. CASE AnyCall
  <2>1. Served /\ FilesInv'
    BY <1>1, NextServed, ServedKeeps DEF AnyCall, ProgInv
  <2>2. /\ prog = Anything /\ prog' = prog /\ pc' = pc /\ local' = local
        /\ overrun' = overrun
    BY <1>1 DEF AnyCall, progvars
  <2>3. ReadersInv'
    BY <2>2 DEF ProgInv, ReadersInv
  <2>4. SyserrInv'
    BY <2>2, Distinct DEF SyserrInv
  <2> QED
    BY <2>1, <2>2, <2>3, <2>4 DEF ProgInv, Frame, BuffersKept
<1>2. CASE UNCHANGED allvars
  <2>1. Served /\ FilesInv'
    BY <1>2, ServedKeeps DEF Served, ProgInv, allvars
  <2>2. UNCHANGED <<prog, pc, local, overrun, file_array>>
    BY <1>2 DEF allvars, progvars, vars
  <2>3. AllClosed' <=> AllClosed
    BY <2>2 DEF AllClosed
  <2>4. ReadersInv'
    BY <2>2 DEF ProgInv, ReadersInv
  <2>5. SyserrInv'
    BY <2>2 DEF ProgInv, SyserrInv, InTest, AllClosed
  <2> QED
    BY <2>1, <2>2, <2>3, <2>4, <2>5 DEF ProgInv, Frame, BuffersKept
<1>3. CASE \E line \in Commands : ShellRead(line)
  BY <1>3, ShellReadKeeps
<1>4. CASE \E line \in Answers : ReadAnswer(line)
  BY <1>4, ReadAnswerKeeps
<1>5. CASE ProgramStep
  BY <1>5, ExecuteKeeps, ShellReportKeeps, GetargsKeeps, AskKeeps, OneShotKeeps,
     CounterKeeps, CatLsKeeps, GrepNamesKeep, GrepOpenKeeps, GrepReadKeeps,
     GrepLineKeeps, GrepCloseKeeps, SyserrMainKeeps, SyserrCallKeeps,
     SyserrResultKeeps
  DEF ProgramStep
<1> QED
  BY <1>1, <1>2, <1>3, <1>4, <1>5 DEF ProgNext

\* The invariant of the programs holds in every run of the shell and the
\* programs.
THEOREM ProgramsInvariance == ProgSpec => []ProgInv
BY ProgStarts, ProgKeeps, PTL DEF ProgSpec

\* No read that a program makes writes behind the array it passes, for any
\* sizes, lines and files, and whatever the arrays held before: where a call
\* has written behind one it was getargs.
THEOREM NoReadOverruns == ProgSpec => []BuffersKept
<1>1. ProgInv => BuffersKept
  BY DEF ProgInv
<1> QED
  BY ProgramsInvariance, <1>1, PTL

\* Every test of syserr passes, for any number of descriptors and any image
\* with the directory and without the names made up.
THEOREM SyserrPasses == ProgSpec => []TestsPass
<1>1. ASSUME ProgInv PROVE TestsPass
  <2> SUFFICES ASSUME Running(Syserr, "call"),
                      local.i > Len(Tests[Head(local.tests)].calls)
               PROVE  /\ local.refused = Wanted(Head(local.tests))
                      /\ local.last = 0
    BY DEF TestsPass
  <2>1. /\ local.tests \in Seq(1 .. 8) /\ local.tests # <<>>
        /\ local.last = 0
        /\ InTest(Head(local.tests), local.i, local.refused)
    BY <1>1 DEF ProgInv, SyserrInv, Running
  <2>2. Head(local.tests) \in 1 .. 8
    BY <2>1
  <2> QED
    BY <2>1, <2>2, TestEnds
<1> QED
  BY ProgramsInvariance, <1>1, PTL

\* What Files promises holds while the programs run: positions are in range,
\* a read that delivers nothing is at the end, a file is read whole by one
\* call.
THEOREM FilesUnderPrograms ==
  ProgSpec => [](TypeOK /\ EmptyMeansEnd /\ WholeImageAtOnce)
<1>1. ProgInv => TypeOK /\ EmptyMeansEnd /\ WholeImageAtOnce
  BY InvTypeOK, InvWhole DEF ProgInv, FilesInv
<1> QED
  BY ProgramsInvariance, <1>1, PTL

\* What the programs read through their descriptors, halts and new programs
\* included, are streams as Streams defines them.
THEOREM ProgramsReadStreams == ProgSpec => ImplementsStreams
<1>1. ProgInit => Streamed!Init
  BY InitImplements DEF ProgInit
<1>2. ProgInv /\ [ProgNext]_allvars => [Streamed!Next]_Streamed!vars
  BY ProgKeeps, ServedImplements DEF ProgInv
<1> QED
  BY <1>1, <1>2, ProgramsInvariance, PTL
  DEF ProgSpec, ImplementsStreams, Streamed!Spec

=============================================================================

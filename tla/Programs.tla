------------------------------ MODULE Programs ------------------------------
(***************************************************************************)
(* The programs of src/syscalls on top of the descriptors of Files: the    *)
(* shell, sys_execute as far as it reads the command (parser, checkExe)    *)
(* and the value it returns, sys_getargs, and cat, ls, grep, counter,      *)
(* hello, testprint, sigtest and syserr.  A buffer is an array of          *)
(* characters, from 0; what the programs print is a sequence of characters *)
(* and of whole messages.  Next to them, a process that makes arbitrary    *)
(* calls on its descriptors (Files!Next).                                  *)
(***************************************************************************)
EXTENDS Files, TLC

CONSTANTS
  BUFSIZE,         \* 1024, in every program
  ARGSIZE,         \* 32
  Limits,          \* what counter counts to: 100, 10000, 100000
  Commands,        \* lines typed at the prompt, ending with a newline
  Answers,         \* lines typed at the questions of the programs
  Leftovers,       \* what a stack array may hold before it is written,
                   \* with the byte behind it
  Clobbered        \* what the compiler may leave in %bl, see sys_halt

ASSUME ProgramsAssumption ==
  /\ BUFSIZE \in Nat /\ ARGSIZE \in Nat /\ 1 < ARGSIZE /\ ARGSIZE <= BUFSIZE
  /\ Clobbered \subseteq 0 .. 255
  /\ \A g \in Leftovers : DOMAIN g = 0 .. BUFSIZE

VARIABLES
  prog,               \* the running program, or Anything
  pc,
  local,              \* its local variables
  args,               \* pcb->arguments of the program
  rval,               \* what execute returns to the shell
  cmdline, answer,    \* history: what was typed
  out,                \* history: what was printed since
  hits,               \* history: the lines grep printed of its file, where
                      \* they begin in it and as they were printed
  clean,              \* history: no stale byte stood behind a string
  overrun             \* history: the calls of the program that wrote behind
                      \* the array they were given

progvars == <<prog, pc, local, args, rval, cmdline, answer, out, hits, clean,
              overrun>>
allvars == <<vars, progvars>>

Nul == ""
Newline == "\n"
Anything == <<"any">>
Shell == <<"shell">>
Exit == <<"e", "x", "i", "t">>

NoLocals == [buf |-> <<>>, data |-> <<>>, fd |-> 0, file |-> 0, cnt |-> 0,
             last |-> 0, line_start |-> 0, fname |-> <<>>, i |-> 0,
             refused |-> 0, tests |-> <<>>]

(***************************************************************************)
(* C strings and numbers                                                   *)
(***************************************************************************)

\* A buffer holds the string that starts at `at` and ends before a Nul; where
\* it holds none the string goes on behind it.
strlen(s, at) ==
  Min({j \in DOMAIN s : j >= at /\ s[j] = Nul} \cup {Max(DOMAIN s) + 1}) - at

CString(s, at) == [i \in 1 .. strlen(s, at) |-> s[at + i - 1]]

\* strncpy of a string to the start of a buffer: cut at n, padded up to n
strncpy(dest, str, n) ==
  [i \in DOMAIN dest |-> IF i >= n THEN dest[i]
                         ELSE IF i < Len(str) THEN str[i + 1] ELSE Nul]

\* n bytes stored from `at` on
Stored(dest, at, bytes) ==
  [i \in DOMAIN dest |-> IF i \in at .. at + Len(bytes) - 1
                           THEN bytes[i - at + 1] ELSE dest[i]]

\* strcpy of the string at `from` down to the start of the same buffer
ece391_strcpy(s, from) ==
  Stored(s, 0, Append(CString(s, from), Nul))

\* strncmp(s1, s2, n) = 0, for strings
ece391_strncmp(s1, s2, n) == First(s1, n) = First(s2, n)

\* (mutant: stops one swap early)
ece391_strrevShort(s) ==
  [i \in DOMAIN s |-> IF 2 * i \in {Len(s), Len(s) + 2} THEN s[i]
                      ELSE s[Len(s) + 1 - i]]

ece391_strrev(s) == [i \in DOMAIN s |-> s[Len(s) + 1 - i]]

Lookup == <<"0", "1", "2", "3", "4", "5", "6", "7", "8", "9">>

\* the digits from the lowest place value up, then reversed
ece391_itoa(value, radix) ==
  LET digits[newval \in 0 .. value] ==
        IF newval = 0 THEN <<>>
        ELSE <<Lookup[(newval % radix) + 1]>> \o digits[newval \div radix]
  IN IF value = 0 THEN <<Lookup[1]>> ELSE ece391_strrev(digits[value])

(***************************************************************************)
(* Descriptors, the terminal and the arguments                             *)
(***************************************************************************)

CanOpen(name) ==
  /\ read_dentry_by_name(name) # {}
  /\ \E fd \in Opened : FreeDescriptor(fd)

NewFd == CHOOSE fd \in Opened : FreeDescriptor(fd)

Accepts(call, fd) ==
  /\ fd \in CASE call = "read" -> {0} \cup Opened
              [] call = "write" -> {1} \cup Opened
              [] call = "close" -> Opened
  /\ file_array[fd].type # "close"

\* what read delivers: a directory pads the name up to n bytes, the rtc
\* delivers nothing at its next tick
ReadBytes(fd, n) ==
  LET f == file_array[fd]
      name == Dentry[f.file_position + 1].name
  IN CASE f.type = "file" -> read_data(f.inode, f.file_position, n)
       [] f.type = "dir" /\ name # NoName ->
            [i \in 1 .. n |-> IF i <= Len(name) THEN name[i] ELSE Nul]
       [] OTHER -> <<>>

ReadCall(fd, n) ==
  \/ reg_file_read(fd, n)
  \/ dir_read(fd, n)
  \/ /\ file_array[fd].type # "file" /\ ReadBytes(fd, n) = <<>>
     /\ UNCHANGED vars

\* the characters but for the Nuls; one in the last place is a newline
tWrite(bytes) ==
  SelectSeq(bytes, LAMBDA c : c # Nul)
    \o (IF bytes # <<>> /\ bytes[Len(bytes)] = Nul THEN <<Newline>> ELSE <<>>)

\* (mutant: the whole buffer)
LineBytesAll == BUFSIZE

\* what every program asks of the terminal: BUFSIZE-1
LineBytes == BUFSIZE - 1

\* tRead clears nbytes + 1 bytes, then copies the line
tRead(line) ==
  [i \in 0 .. BUFSIZE |-> IF i < Min({Len(line), LineBytes})
                            THEN line[i + 1] ELSE Nul]

\* a call that writes n bytes from index `at` of an array of `size`
Behind(call, at, n, size) == IF at + n > size THEN {call} ELSE {}

\* The buffer is cleared up to its first Nul, wherever that is, before the
\* argument is looked at, and no Nul is stored behind the argument.
sys_getargs(buf, arguments) ==
  strncpy([i \in DOMAIN buf |-> IF i < strlen(buf, 0) THEN Nul ELSE buf[i]],
          arguments, Len(arguments))

GetargsFails(nbytes) == Len(args) > nbytes \/ Len(args) = 0

\* vidmap takes a pointer into the page of the program
vidmapAccepts(screen_start) ==
  screen_start >= 134217728 /\ screen_start < 138412032

\* (mutant: looks at the upper end only)
syscall_handlerUpper(eax) == eax <= 10

\* the system calls there are
syscall_handler(eax) == 1 <= eax /\ eax <= 10

(***************************************************************************)
(* Steps of a program                                                      *)
(***************************************************************************)

Running(p, l) == prog = p /\ pc = l

Continue(l, text, to) ==
  /\ local' = l /\ out' = out \o text /\ pc' = to
  /\ UNCHANGED <<prog, args, rval, cmdline, answer>>

Step(l, text, to) ==
  Continue(l, text, to) /\ UNCHANGED <<hits, clean, overrun>>

\* What execute returns: the status is in %bl unless the compiler has used
\* it; 256 if the register that the compiler chose for program_exception when
\* the parent was in sys_execute (%ebx, %esi or %edi, the constraint is a
\* plain r) holds a 1 now.  Nothing saves the register, so that may be so
\* whether the program has faulted or not.
HaltValue(status) == {status, 256} \cup Clobbered

sys_halt(status, text) ==
  /\ rval' \in HaltValue(status % 256)
  /\ file_array' = [fd \in Fd |-> [file_array[fd] EXCEPT !.type = "close"]]
  /\ out' = out \o text /\ hits' = <<>>
  /\ got' = [fd \in Fd |-> <<>>] /\ last' = NoRead
  /\ prog' = Shell /\ pc' = "report" /\ local' = NoLocals /\ args' = <<>>
  /\ UNCHANGED <<cmdline, answer, clean, overrun>>

exception_user_program == sys_halt(256, <<>>)

(***************************************************************************)
(* The shell and sys_execute                                               *)
(***************************************************************************)

\* the line without its newline
Stripped(line) ==
  IF line # <<>> /\ line[Len(line)] = Newline THEN First(line, Len(line) - 1)
  ELSE line

\* A line is read and looked at; after "exit" a new shell is started.
ShellRead(line) ==
  /\ Running(Shell, "prompt")
  /\ pc' = IF Stripped(line) \in {Exit, <<>>} THEN "prompt" ELSE "execute"
  /\ cmdline' = Stripped(line)
  /\ answer' = <<>> /\ out' = <<>> /\ clean' = TRUE
  /\ overrun' = Behind("read", 0, LineBytes + 1, BUFSIZE)
  /\ UNCHANGED <<vars, prog, local, args, rval, hits>>

\* the command up to the first space, then ARGSIZE-1 characters at most
parser(command) ==
  LET stop == Min({i \in DOMAIN command : command[i] = " "}
                    \cup {Len(command) + 1})
  IN [cmd |-> SubSeq(command, 1, stop - 1),
      args |-> SubSeq(command, stop + 1,
                      Min({Len(command), stop + ARGSIZE - 1}))]

\* what checkExe prints when it refuses a command, none when it accepts it
checkExe(cmd) ==
  LET found == read_dentry_by_name(cmd)
  IN IF found = {} THEN cmd \o <<" is an invalid filename! ">>
     ELSE IF \A d \in found :
               read_data(Dentry[d].inode, 0, 4) = <<"del", "E", "L", "F">>
       THEN <<>>
       ELSE cmd \o <<" is not an ELF file :(">>

\* The kernel's part is in Process; here, what becomes of the line.  The
\* array the program will pass to getargs holds some leftover.
sys_execute ==
  LET p == parser(cmdline)
      refusal == checkExe(p.cmd)
  IN
  /\ Running(Shell, "execute")
  /\ IF refusal # <<>>
       THEN /\ rval' = -1 /\ pc' = "report" /\ out' = out \o refusal
            /\ UNCHANGED <<vars, prog, local, args>>
       ELSE /\ \E d \in read_dentry_by_name(p.cmd) : prog' = Dentry[d].name
            /\ args' = p.args /\ pc' = "main"
            /\ \E g \in Leftovers : local' = [NoLocals EXCEPT !.buf = g]
            /\ file_array' = [fd \in Fd |->
                 IF fd < 2 THEN [file_array[fd] EXCEPT !.type = "term"]
                 ELSE file_array[fd]]
            /\ UNCHANGED <<got, last, out, rval>>
  /\ UNCHANGED <<cmdline, answer, hits, clean, overrun>>

Verdict(value) ==
  CASE value = -1 -> <<"no such command\n">>
    [] value = 256 -> <<"program terminated by exception\n">>
    [] value \notin {-1, 0, 256} -> <<"program terminated abnormally\n">>
    [] value = 0 -> <<>>

\* the value is not looked at again
ShellReport ==
  /\ Running(Shell, "report")
  /\ out' = out \o Verdict(rval) /\ rval' = 0 /\ pc' = "prompt"
  /\ UNCHANGED <<vars, prog, local, args, cmdline, answer, hits, clean,
                 overrun>>

(***************************************************************************)
(* The programs that have an argument                                      *)
(***************************************************************************)

Cat == <<"c", "a", "t">>
Ls == <<"l", "s">>
Grep == <<"g", "r", "e", "p">>
Hello == <<"hello">>
Testprint == <<"testprint">>
Counter == <<"counter">>
Sigtest == <<"sigtest">>
Syserr == <<"syserr">>
Dot == <<".">>

\* The array is passed as it is.  If it holds no Nul, Nuls are stored behind
\* it up to the next one; what they destroy there is not modelled.
Getargs ==
  LET buf == sys_getargs(local.buf, args)
      behind == Behind("getargs", 0, strlen(local.buf, 0), BUFSIZE)
  IN
  /\ prog \in {Cat, Grep, Sigtest} /\ pc = "main"
  /\ Continue([local EXCEPT !.buf = buf], <<>>,
              IF GetargsFails(BUFSIZE) THEN "noargument" ELSE "argument")
  /\ overrun' = overrun \cup behind
  /\ clean' = (clean /\ behind = {}
                     /\ (GetargsFails(BUFSIZE) \/ CString(buf, 0) = args))
  /\ UNCHANGED <<vars, hits>>

NoArgument ==
  /\ prog \in {Cat, Grep, Sigtest} /\ pc = "noargument"
  /\ sys_halt(3, <<IF prog = Cat THEN "could not read arguments\n"
                   ELSE "could not read argument\n">>)

(***************************************************************************)
(* hello, testprint, counter, sigtest: ask, then answer                    *)
(***************************************************************************)

Question ==
  Hello :> <<"Hi, what's your name? ">>
  @@ Counter :> <<"Enter the Test Number: (0): 100, (1): 10000, (2): 100000\n">>
  @@ Syserr :> <<"Choose from tests 1-8. 0 to run all: ">>
  @@ Sigtest :> <<"Hi, what's your name? ">>

\* sigtest fetches its argument before it asks; set_handler is not
\* implemented and returns -1, which sigtest ignores
SigtestIntro(buf) ==
  IF buf[0] = "1" THEN <<"Installing signal handlers\n">> ELSE <<>>

Ask ==
  LET intro == IF prog = Sigtest THEN SigtestIntro(local.buf) ELSE <<>>
  IN
  /\ prog \in DOMAIN Question
  /\ pc = IF prog = Sigtest THEN "argument" ELSE "main"
  /\ Step(local, intro \o Question[prog], "ask")
  /\ UNCHANGED vars

ReadAnswer(line) ==
  /\ prog \in DOMAIN Question /\ pc = "ask"
  /\ local' = [local EXCEPT !.buf = tRead(line),
                            !.cnt = Min({Len(line), LineBytes})]
  /\ answer' = line /\ pc' = "answered"
  /\ overrun' = overrun \cup Behind("read", 0, LineBytes + 1, BUFSIZE)
  /\ UNCHANGED <<vars, prog, args, rval, cmdline, out, hits, clean>>

HelloMain ==
  /\ Running(Hello, "answered")
  /\ sys_halt(0, <<"Hello, ">> \o CString(local.buf, 0))

TestprintMain ==
  /\ Running(Testprint, "main")
  /\ sys_halt(0, <<"Hello, if this ran, the program was correct. Yay!\n">>)

\* The write to address 0 faults.
SigtestMain == Running(Sigtest, "answered") /\ exception_user_program

WrongChoice(str) ==
  \/ Len(str) > 2
  \/ Len(str) = 2 /\ str[1] \notin {"0", "1", "2"}

\* local.last counts up to local.i
CounterMain ==
  LET str == CString(local.buf, 0)
      choice == {c \in 1 .. 3 : str # <<>> /\ str[1] = Lookup[c]}
      max == IF choice = {} THEN 0 ELSE Limits[Max(choice)]
  IN
  /\ Running(Counter, "answered")
  /\ IF WrongChoice(str) THEN sys_halt(0, <<"Wrong Choice!\n">>)
     ELSE Step([local EXCEPT !.i = max], <<>>, "count") /\ UNCHANGED vars

CounterLoop ==
  /\ Running(Counter, "count")
  /\ IF local.last < local.i
       THEN /\ Step([local EXCEPT !.last = @ + 1],
                    Append(ece391_itoa(local.last + 1, 10), Newline), "count")
            /\ UNCHANGED vars
       ELSE sys_halt(0, <<>>)

(***************************************************************************)
(* cat and ls                                                              *)
(***************************************************************************)

CatMain ==
  LET name == CString(local.buf, 0)
  IN
  /\ Running(Cat, "argument")
  /\ IF ~CanOpen(name) THEN sys_halt(2, <<"file not found\n">>)
     ELSE /\ sys_open(name)
          /\ Step([local EXCEPT !.fd = NewFd], <<>>, "read")

CatLoop ==
  LET bytes == ReadBytes(local.fd, BUFSIZE)
  IN
  /\ Running(Cat, "read")
  /\ IF bytes = <<>> THEN sys_halt(0, <<>>)
     ELSE /\ ReadCall(local.fd, BUFSIZE)
          /\ Step(local, tWrite(bytes), "read")

\* buf has room for a name and a newline
LsMain ==
  /\ Running(Ls, "main")
  /\ IF ~CanOpen(Dot) THEN sys_halt(2, <<"directory open failed\n">>)
     ELSE /\ sys_open(Dot)
          /\ Step([local EXCEPT !.fd = NewFd], <<>>, "read")

LsLoop ==
  LET bytes == ReadBytes(local.fd, NUM_DENTRY_NAME)
  IN
  /\ Running(Ls, "read")
  /\ IF bytes = <<>> THEN sys_halt(0, <<>>)
     ELSE /\ ReadCall(local.fd, NUM_DENTRY_NAME)
          /\ Step(local, tWrite(Append(bytes, Newline)), "read")

(***************************************************************************)
(* grep                                                                    *)
(***************************************************************************)

GrepMain ==
  /\ Running(Grep, "argument")
  /\ IF ~CanOpen(Dot) THEN sys_halt(2, <<"directory open failed\n">>)
     ELSE /\ sys_open(Dot)
          /\ Step([local EXCEPT !.fd = NewFd], <<>>, "entry")

\* the next name; the directory itself is skipped
GrepEntry ==
  LET bytes == ReadBytes(local.fd, NUM_DENTRY_NAME)
  IN
  /\ Running(Grep, "entry")
  /\ IF bytes = <<>> THEN sys_halt(0, <<>>)
     ELSE /\ ReadCall(local.fd, NUM_DENTRY_NAME)
          /\ IF bytes[1] = "." THEN Step(local, <<>>, "entry")
             ELSE Step([local EXCEPT !.fname =
                          SelectSeq(bytes, LAMBDA c : c # Nul)], <<>>, "open")

\* data is not initialised: the byte behind the last one read is looked at
DoOneFile ==
  /\ Running(Grep, "open")
  /\ IF ~CanOpen(local.fname) THEN sys_halt(3, <<"file open failed\n">>)
     ELSE \E g \in Leftovers :
            /\ sys_open(local.fname)
            /\ Continue([local EXCEPT !.file = NewFd, !.last = 0, !.data = g],
                        <<>>, "read")
            /\ hits' = <<>>
            /\ clean' = (clean /\ g[BUFSIZE] # Newline)
            /\ UNCHANGED overrun

GrepRead ==
  LET room == BUFSIZE - local.last
      bytes == ReadBytes(local.file, room)
  IN
  /\ Running(Grep, "read")
  /\ ReadCall(local.file, room)
  /\ Continue([local EXCEPT !.cnt = Len(bytes),
                            !.data = Stored(@, local.last, bytes),
                            !.last = @ + Len(bytes), !.line_start = 0],
              <<>>, "line")
  /\ overrun' = overrun \cup Behind("read", local.last, room, BUFSIZE + 1)
  /\ UNCHANGED <<hits, clean>>

\* (mutant: the end of the file is taken for a failure only)
AtEndNegative(cnt) == cnt < 0

\* the last read brought nothing
AtEnd(cnt) == cnt = 0

\* (mutant: what is left at the end of the buffer is taken for a line)
NeverCarried(d, from, line_end) == FALSE

\* no newline ends the line, unless there is one behind what was read
Carried(d, from, line_end) ==
  d[line_end] # Newline /\ ~AtEnd(local.cnt) /\ from # 0

\* One line of the buffer: carried down to be completed, or searched.
GrepLine ==
  LET d == local.data
      from == local.line_start
      line_end == Min({j \in from .. local.last : d[j] = Newline}
                        \cup {local.last})
      ended_line == [d EXCEPT ![line_end] = Nul]
      line == CString(ended_line, from)
      s == CString(local.buf, 0)
      found == /\ ~Carried(d, from, line_end)
               /\ \E check \in from .. line_end - 1 :
                    ece391_strncmp(CString(ended_line, check), s, Len(s))
      position == file_array[local.file].file_position - local.last + from
      text == IF found THEN local.fname \o <<":">> \o line \o <<Newline>>
              ELSE <<>>
  IN
  /\ Running(Grep, "line")
  /\ hits' = IF found THEN Append(hits, [at |-> position, text |-> line])
             ELSE hits
  /\ IF Carried(d, from, line_end)
       THEN Continue([local EXCEPT !.data = ece391_strcpy(ended_line, from),
                                   !.last = @ - from], text, "read")
     ELSE IF line_end + 1 < local.last
       THEN Continue([local EXCEPT !.data = ended_line,
                                   !.line_start = line_end + 1], text, "line")
     ELSE Continue([local EXCEPT !.data = ended_line, !.last = 0], text,
                   IF AtEnd(local.cnt) THEN "close" ELSE "read")
  /\ UNCHANGED <<vars, clean, overrun>>

GrepClose ==
  /\ Running(Grep, "close")
  /\ sys_close(local.file)
  /\ Step([local EXCEPT !.data = <<>>], <<>>, "entry")

(***************************************************************************)
(* syserr: calls that have to be refused                                   *)
(***************************************************************************)

Far == 1073741823   \* NEG_FD and NEG_NUM are its opposite

Call(call, arg) == [call |-> call, arg |-> arg]
OnFd(fd) == <<Call("read", fd), Call("write", fd), Call("close", fd)>>
OnAll(call, fds) ==
  LET from == Min(fds)
  IN [i \in 1 .. Cardinality(fds) |-> Call(call, from + i - 1)]

err_neg_fd == OnFd(-Far)
err_big_fd == OnFd(Far)

\* "finish" stands for the closes whose result is not looked at
err_open_lots ==
  [i \in 1 .. MAX_OPEN_FILES - 1 |-> Call("open", Dot)]
    \o OnAll("finish", Opened)

\* a name with one character too many, one with one too few, none
err_open ==
  << Call("open", Append(Hello, "o")), Call("open", First(Grep, 3)),
     Call("open", NoName) >>

err_unopened ==
  OnAll("close", Fd) \o OnAll("read", Opened) \o OnAll("write", Opened)

err_vidmap == <<Call("vidmap", 0), Call("vidmap", 4194304)>>
err_stdin_out == <<Call("write", 0), Call("read", 1)>>
err_syscall_num ==
  <<Call("number", Far), Call("number", -Far), Call("number", 0)>>

Test(name, calls) == [name |-> name, calls |-> calls]
Tests ==
  << Test("err_neg_fd", err_neg_fd), Test("err_big_fd", err_big_fd),
     Test("err_open_lots", err_open_lots), Test("err_open", err_open),
     Test("err_unopened", err_unopened), Test("err_vidmap", err_vidmap),
     Test("err_stdin_out", err_stdin_out),
     Test("err_syscall_num", err_syscall_num) >>

\* What syserr takes for granted: the directory is there, and there are no
\* files of the two names that err_open makes up.
ASSUME SyserrAssumption ==
  /\ MAX_OPEN_FILES <= Far
  /\ read_dentry_by_name(Dot) # {}
  /\ read_dentry_by_name(Append(Hello, "o")) = {}
  /\ read_dentry_by_name(First(Grep, 3)) = {}

\* how many of its calls a test wants refused
Wanted(t) ==
  IF Tests[t].name = "err_open_lots" THEN 1 ELSE Len(Tests[t].calls)

Granted(c) ==
  CASE c.call = "open" -> CanOpen(c.arg)
    [] c.call = "vidmap" -> vidmapAccepts(c.arg)
    [] c.call = "number" -> syscall_handler(c.arg)
    [] c.call = "finish" -> TRUE
    [] OTHER -> Accepts(c.call, c.arg)

Perform(c) ==
  IF c.call = "open" /\ Granted(c) THEN sys_open(c.arg)
  ELSE IF c.call \in {"close", "finish"} /\ Accepts("close", c.arg)
    THEN sys_close(c.arg)
  ELSE UNCHANGED vars

\* local.last sums up the failures
SyserrMain ==
  LET c == local.buf[0]
      select == {t \in 0 .. 8 : c = Lookup[t + 1]}
  IN
  /\ Running(Syserr, "answered")
  /\ IF select = {}
       THEN sys_halt(0, <<"Invalid test number. Choose from tests 1-8 or 0">>)
       ELSE /\ Step([local EXCEPT !.i = 1, !.tests =
                       IF select = {0} THEN [t \in 1 .. 8 |-> t]
                       ELSE <<Max(select)>>], <<>>, "call")
            /\ UNCHANGED vars

SyserrCall ==
  LET c == Tests[Head(local.tests)].calls[local.i]
  IN
  /\ Running(Syserr, "call")
  /\ local.i <= Len(Tests[Head(local.tests)].calls)
  /\ Perform(c)
  /\ Step([local EXCEPT !.i = @ + 1,
                        !.refused = @ + (IF Granted(c) THEN 0 ELSE 1)],
          <<>>, "call")

SyserrResult ==
  LET t == Head(local.tests)
      fail == IF local.refused = Wanted(t) THEN 0 ELSE 2
      text == <<Tests[t].name, IF fail = 0 THEN ": PASS\n" ELSE ": FAIL\n">>
      all == CString(local.buf, 0)[1] = "0"
      sum == local.last + fail
      overall == IF ~all THEN <<>>
                 ELSE <<"\nOverall Tests",
                        IF sum = 0 THEN ": PASS\n" ELSE ": FAIL\n">>
  IN
  /\ Running(Syserr, "call")
  /\ local.i > Len(Tests[t].calls)
  /\ IF Len(local.tests) > 1
       THEN /\ Step([local EXCEPT !.i = 1, !.refused = 0, !.last = sum,
                                  !.tests = Tail(@)], text, "call")
            /\ UNCHANGED vars
       ELSE sys_halt(sum, text \o overall)

(***************************************************************************)
(* The specification                                                       *)
(***************************************************************************)

ProgInit ==
  /\ Init
  /\ prog \in {Anything, Shell} /\ pc = "prompt" /\ local = NoLocals
  /\ args = <<>> /\ rval = 0
  /\ cmdline = <<>> /\ answer = <<>> /\ out = <<>> /\ hits = <<>>
  /\ clean = TRUE /\ overrun = {}

\* any process, by the calls it makes on its descriptors
AnyCall == prog = Anything /\ Next /\ UNCHANGED progvars

\* what does not wait for somebody to type
ProgramStep ==
  \/ sys_execute \/ ShellReport \/ Getargs \/ NoArgument
  \/ Ask \/ HelloMain \/ TestprintMain \/ SigtestMain
  \/ CounterMain \/ CounterLoop
  \/ CatMain \/ CatLoop \/ LsMain \/ LsLoop
  \/ GrepMain \/ GrepEntry \/ DoOneFile \/ GrepRead \/ GrepLine \/ GrepClose
  \/ SyserrMain \/ SyserrCall \/ SyserrResult

ProgNext ==
  \/ AnyCall
  \/ \E line \in Commands : ShellRead(line)
  \/ \E line \in Answers : ReadAnswer(line)
  \/ ProgramStep

ProgSpec == ProgInit /\ [][ProgNext]_allvars /\ WF_allvars(ProgramStep)

-----------------------------------------------------------------------------
\* Every test of syserr passes: when its calls are made, as many have been
\* refused as it wants (those with descriptors, names, pointers and numbers
\* that are out of range; of MAX_OPEN_FILES-1 opens the last one), and no
\* test before it failed; also when the tests run one after the other and
\* any command ran before.
TestsPass ==
  LET t == Head(local.tests)
  IN Running(Syserr, "call") /\ local.i > Len(Tests[t].calls) =>
       local.refused = Wanted(t) /\ local.last = 0

\* No read the programs make writes behind the array they pass: tRead
\* clears one byte more than it is asked for (terminal.c:141), and the
\* programs ask for one less than they have; grep fills what is left of its
\* array, whatever it has carried down.  getargs is the only call that writes
\* behind an array: it clears what it takes for a string, which an array that
\* was never written need not end (syscalls.c:448).
BuffersKept == overrun \subseteq {"getargs"}

\* Every command comes back to the prompt or waits for an answer: the loops
\* of cat, ls and grep reach the end of every file.
PromptReturns ==
  (prog # Anything /\ pc \notin {"prompt", "ask"}) ~>
    pc \in {"prompt", "ask"}
=============================================================================

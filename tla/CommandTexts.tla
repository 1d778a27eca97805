---------------------------- MODULE CommandTexts ----------------------------
(***************************************************************************)
(* What the commands are for: what is to be on the screen when one has     *)
(* ended, said from the image and not from the steps of the programs.      *)
(***************************************************************************)
EXTENDS Programs, SequencesExt

HasInside(line, s) ==
  \E i \in 1 .. Len(line) - Len(s) + 1 :
    SubSeq(line, i, i + Len(s) - 1) = s

Names(from) ==
  FlattenSeq([k \in DOMAIN from |-> Append(from[k], Newline)])

CatText(name) ==
  IF read_dentry_by_name(name) = {} THEN <<"file not found\n">>
  ELSE LET d == Dentry[Max(read_dentry_by_name(name))]
       IN CASE d.type = "file" ->
                 IF Nul \in Range(Content[d.inode]) THEN out
                 ELSE Content[d.inode]
            [] d.type = "dir" -> Names(Listing)
            [] OTHER -> <<>>

Decimal(n) ==
  IF n < 10 THEN <<Lookup[n + 1]>>
  ELSE <<Lookup[(n \div 10) + 1], Lookup[(n % 10) + 1]>>

CounterText ==
  IF WrongChoice(answer) THEN <<"Wrong Choice!\n">>
  ELSE Names([n \in 1 .. (IF answer[1] \in {"0", "1", "2"}
                            THEN Limits[CHOOSE c \in 1 .. 3 :
                                          Lookup[c] = answer[1]] ELSE 0)
                |-> Decimal(n)])

\* what is to be on the screen before the shell's verdict, by the command
\* that was typed; whatever there is, where nothing is said of it
Meaning(command) ==
  LET p == parser(command)
      s == p.args
      noArgument == s = <<>>
  IN CASE checkExe(p.cmd) # <<>> -> checkExe(p.cmd)
       [] p.cmd = Ls -> Names(Listing)
       [] p.cmd = Cat /\ noArgument -> <<"could not read arguments\n">>
       [] p.cmd = Cat /\ ~noArgument -> CatText(s)
       [] p.cmd = Grep /\ noArgument -> <<"could not read argument\n">>
       [] p.cmd = Hello -> Question[Hello] \o <<"Hello, ">> \o answer
       [] p.cmd = Counter -> Question[Counter] \o CounterText
       [] p.cmd = Testprint ->
            <<"Hello, if this ran, the program was correct. Yay!\n">>
       [] OTHER -> out

\* When a command has ended, the screen shows what the command means: cat
\* the bytes of its file if they are a text (for the directory the names, a
\* line each), ls the names, hello the answer, counter the numbers in
\* decimal.  This is so however the reads of the kernel cut the file, provided
\* getargs has left the argument and nothing else in the array it was given
\* (it stores no Nul, syscalls.c:461, and clears behind an array without one).
CommandsPrint ==
  Running(Shell, "report") /\ clean => out = Meaning(cmdline)

\* text[p .. q] is a line of the text
IsLine(text, p, q) ==
  /\ p <= q /\ Newline \notin {text[i] : i \in p .. q}
  /\ p = 1 \/ text[p - 1] = Newline
  /\ q = Len(text) \/ text[q + 1] = Newline

\* and it lies, with its newline, in one block and in grep's buffer
InOneRead(text, p, q) ==
  LET e == Min({q + 1, Len(text)})
  IN /\ (p - 1) \div BYTES_PER_BLOCK = (e - 1) \div BYTES_PER_BLOCK
     /\ e - p < BUFSIZE

\* When grep has gone through a text (a file without 0 bytes), what it has
\* printed are parts of lines that contain what it looks for, from the front
\* to the back and none twice, whatever stood in its arrays before.  Every
\* line that lies in one block of the file and fits the buffer it has looked
\* at as a whole: the line is printed, and all of it, if it has the string in
\* it and only then, provided there was no newline behind the buffer
\* (ece391grep.c:33).  A line across two blocks it may look at in two parts:
\* a read ends with a block (fs.c:109), and a part that is at the start of the
\* buffer already is taken for a line (ece391grep.c:33).
GrepReports ==
  LET f == file_array[local.file]
      text == IF f.type = "file" THEN Content[f.inode] ELSE <<>>
      s == CString(local.buf, 0)
  IN Running(Grep, "close") /\ Nul \notin Range(text) =>
       /\ \A i, j \in DOMAIN hits : i < j => hits[i].at < hits[j].at
       /\ \A h \in Range(hits) :
            /\ h.text = SubSeq(text, h.at + 1, h.at + Len(h.text))
            /\ Newline \notin Range(h.text) /\ HasInside(h.text, s)
       /\ clean => \A p, q \in DOMAIN text :
            IsLine(text, p, q) /\ InOneRead(text, p, q) =>
              LET line == SubSeq(text, p, q)
              IN HasInside(line, s) <=>
                   [at |-> p - 1, text |-> line] \in Range(hits)
=============================================================================

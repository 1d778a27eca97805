-------------------------------- MODULE Line --------------------------------
(***************************************************************************)
(* The line buffers of the terminals: the keyboard handler fills and edits *)
(* the one of the terminal on display, and tRead waits, in the process of  *)
(* each terminal, for its line to end or its buffer to fill up.            *)
(*                                                                         *)
(* The handler runs with interrupts off.  tRead runs with interrupts       *)
(* enabled except after its cli, when nothing else runs: `masked' names    *)
(* the process that has executed one.  With a full buffer tRead reads the  *)
(* keyboard itself.  The screen is the subject of module Screen.           *)
(***************************************************************************)
EXTENDS Integers, Sequences

CONSTANTS
  BUFSIZE,         \* 128
  NUM_TERM,        \* 3
  Letter,          \* what keys other than Enter insert
  Counts           \* the nbytes of reads

ASSUME LineAssumption ==
  /\ BUFSIZE \in Nat \ {0} /\ NUM_TERM \in Nat \ {0}
  /\ Counts \subseteq Nat

Term == 1 .. NUM_TERM
Nobody == 0
Newline == "\n"
Nul == "nul"

VARIABLES
  tbuf,            \* the buffers, one after the other, and the byte before
                   \* them, which the alignment of tbuf makes padding
  idx,             \* per terminal
  set,             \* the flag of that name
  currentTerminal,
  pc, nbytes,      \* per process, named by its terminal
  masked,
  line,            \* history: per terminal, the line as its user typed and
                   \* edited it through the handler
  astray,          \* history: the terminals whose line has been cleared in
                   \* place of another one, or not cleared itself
  copied           \* per process that is about to return idx: the number of
                   \* characters it has copied to its caller

buffers == <<tbuf, idx, line, astray>>
reader == <<pc, nbytes, copied>>
vars == <<buffers, reader, set, currentTerminal, masked>>

\* &tbuf[t-1][i]
Address(t, i) == (t - 1) * BUFSIZE + i
Memory == -1 .. NUM_TERM * BUFSIZE - 1
Buffer(t) == Address(t, 0) .. Address(t, BUFSIZE - 1)

Init ==
  /\ tbuf = [a \in Memory |-> Nul]
  /\ idx = [t \in Term |-> 0]
  /\ set = 1
  /\ currentTerminal = 1
  /\ pc = [t \in Term |-> "user"]
  /\ nbytes = [t \in Term |-> 0]
  /\ masked = Nobody
  /\ line = [t \in Term |-> <<>>]
  /\ astray = {}
  /\ copied = [t \in Term |-> 0]

(***************************************************************************)
(* The keyboard handler                                                    *)
(***************************************************************************)
Interruptible == masked = Nobody

\* (mutant: room for one more)
HasRoomForMore(t) == idx[t] <= BUFSIZE

HasRoom(t) == idx[t] < BUFSIZE

\* the history of a line that has gone astray begins again when it is empty
Edited(t, edited) ==
  line' = [line EXCEPT ![t] = IF t \in astray THEN @ ELSE edited]

\* A letter or Enter; a key held with shift, of which the handler may take
\* several in one run, is one of these each.
insert(c) ==
  LET t == currentTerminal
  IN
  /\ Interruptible
  /\ HasRoom(t)
  /\ tbuf' = [tbuf EXCEPT ![Address(t, idx[t])] = c]
  /\ idx' = [idx EXCEPT ![t] = @ + 1]
  /\ Edited(t, Append(line[t], c))
  /\ UNCHANGED <<reader, set, currentTerminal, masked, astray>>

Shorter(s) == IF Len(s) > 0 THEN SubSeq(s, 1, Len(s) - 1) ELSE s

\* (mutant: the index is taken back first)
BackspaceTwice ==
  LET t == currentTerminal
  IN
  /\ Interruptible
  /\ tbuf' = [tbuf EXCEPT ![Address(t, idx[t] - 2)] = Nul]
  /\ idx' = [idx EXCEPT ![t] = IF @ > 0 THEN @ - 1 ELSE @]
  /\ Edited(t, Shorter(line[t]))
  /\ UNCHANGED <<reader, set, currentTerminal, masked, astray>>

\* the byte before the end of the line, whichever that is when it is empty
backspacebuf ==
  LET t == currentTerminal
  IN
  /\ Interruptible
  /\ tbuf' = [tbuf EXCEPT ![Address(t, idx[t] - 1)] = Nul]
  /\ idx' = [idx EXCEPT ![t] = IF @ > 0 THEN @ - 1 ELSE @]
  /\ Edited(t, Shorter(line[t]))
  /\ UNCHANGED <<reader, set, currentTerminal, masked, astray>>

Wiped(t) ==
  [a \in Memory |-> IF a \in Buffer(t) THEN Nul ELSE tbuf[a]]

\* Ctrl-L, and Alt-Fn for the terminal on display, are for the line on
\* display; clearbuf goes by the process r that happens to run.  With another
\* one running, the line on display stays and the one of r is gone.
clearbuf(r) ==
  LET t == currentTerminal
  IN
  /\ Interruptible
  /\ tbuf' = Wiped(r)
  /\ idx' = [idx EXCEPT ![r] = 0]
  /\ line' = [line EXCEPT ![r] = <<>>, ![t] = <<>>]
  /\ astray' = IF r = t THEN astray \ {t}
               ELSE astray \cup {u \in {r, t} : idx[u] # 0}
  /\ UNCHANGED <<reader, set, currentTerminal, masked>>

screenChange(t) ==
  /\ Interruptible
  /\ t # currentTerminal
  /\ currentTerminal' = t
  /\ UNCHANGED <<buffers, reader, set, masked>>

(***************************************************************************)
(* tRead, in the process of terminal t                                     *)
(***************************************************************************)
Runs(t, step) == masked \in {Nobody, t} /\ pc[t] = step
GoTo(t, step) == pc' = [pc EXCEPT ![t] = step]

EndsLine(t) == tbuf[Address(t, idx[t] - 1)] = Newline

\* its clearbuf, with interrupts enabled, wipes the buffer first
tRead(t, n) ==
  /\ Runs(t, "user")
  /\ nbytes' = [nbytes EXCEPT ![t] = n]
  /\ tbuf' = Wiped(t)
  /\ GoTo(t, "reset")
  /\ UNCHANGED <<idx, line, astray, copied, set, currentTerminal, masked>>

ReadReset(t) ==
  /\ Runs(t, "reset")
  /\ idx' = [idx EXCEPT ![t] = 0]
  /\ line' = [line EXCEPT ![t] = <<>>]
  /\ astray' = astray \ {t}
  /\ GoTo(t, "poll")
  /\ UNCHANGED <<tbuf, nbytes, copied, set, currentTerminal, masked>>

\* (mutant: the byte behind the line)
ReadPollBehind(t) ==
  /\ Runs(t, "poll")
  /\ IF idx[t] = BUFSIZE THEN TRUE ELSE tbuf[Address(t, idx[t])] = Newline
  /\ GoTo(t, "mask")
  /\ UNCHANGED <<buffers, nbytes, copied, set, currentTerminal, masked>>

\* the loop ends at a newline or a full buffer; either way interrupts are
\* enabled when it does
ReadPoll(t) ==
  /\ Runs(t, "poll")
  /\ idx[t] = BUFSIZE \/ (idx[t] # 0 /\ EndsLine(t))
  /\ GoTo(t, "mask")
  /\ UNCHANGED <<buffers, nbytes, copied, set, currentTerminal, masked>>

\* cli; the buffer that is tested is the one of the terminal on display, and
\* scancode, not initialized, may happen to be Enter
ReadMask(t) ==
  /\ Runs(t, "mask")
  /\ masked' = t
  /\ IF idx[currentTerminal] = BUFSIZE
       THEN \E step \in {"full", "finish"} : GoTo(t, step)
       ELSE GoTo(t, "copy")
  /\ UNCHANGED <<buffers, nbytes, copied, set, currentTerminal>>

\* The loop of a full buffer.  Interrupts stay off in it until a key asks
\* for its handler; `set' remembers, for all readers at once, that they are
\* to be switched off again.
FullEnds(t) ==
  /\ Runs(t, "full")
  /\ EndsLine(t)
  /\ GoTo(t, "finish")
  /\ UNCHANGED <<buffers, nbytes, copied, set, currentTerminal, masked>>

FullMask(t) ==
  /\ Runs(t, "full")
  /\ ~EndsLine(t) /\ idx[t] = BUFSIZE
  /\ set = 0
  /\ masked' = t /\ set' = 1
  /\ GoTo(t, "key")
  /\ UNCHANGED <<buffers, nbytes, copied, currentTerminal>>

FullGoesOn(t) ==
  /\ Runs(t, "full")
  /\ ~EndsLine(t) /\ idx[t] = BUFSIZE
  /\ set # 0
  /\ GoTo(t, "key")
  /\ UNCHANGED <<buffers, nbytes, copied, set, currentTerminal, masked>>

\* The keyboard is read directly: Enter ends the line, any other key that
\* inserts is dropped.
FullKey(t) ==
  /\ Runs(t, "key")
  /\ \E step \in {"finish", "full"} : GoTo(t, step)
  /\ UNCHANGED <<buffers, nbytes, copied, set, currentTerminal, masked>>

\* Backspace, Control and Alt, left to the handler
FullSpecial(t) ==
  /\ Runs(t, "key")
  /\ set' = 0
  /\ masked' = Nobody
  /\ GoTo(t, "full")
  /\ UNCHANGED <<buffers, nbytes, copied, currentTerminal>>

FullFinish(t) ==
  /\ Runs(t, "finish")
  /\ GoTo(t, IF idx[t] = BUFSIZE THEN "newline" ELSE "copy")
  /\ UNCHANGED <<buffers, nbytes, copied, set, currentTerminal, masked>>

\* the newline takes the place of the last character
FullNewline(t) ==
  /\ Runs(t, "newline")
  /\ tbuf' = [tbuf EXCEPT ![Address(t, BUFSIZE - 1)] = Newline]
  /\ line' = [line EXCEPT ![t] = IF Len(@) = BUFSIZE
                                   THEN [@ EXCEPT ![BUFSIZE] = Newline]
                                   ELSE @]
  /\ GoTo(t, "copy")
  /\ UNCHANGED <<idx, astray, nbytes, copied, set, currentTerminal, masked>>

\* the strncpy of either branch, taken as one step
CopySome(t) ==
  /\ Runs(t, "copy")
  /\ nbytes[t] <= idx[t]
  /\ masked' = Nobody
  /\ nbytes' = [nbytes EXCEPT ![t] = 0]
  /\ GoTo(t, "user")
  /\ UNCHANGED <<buffers, copied, set, currentTerminal>>

CopyLine(t) ==
  /\ Runs(t, "copy")
  /\ nbytes[t] > idx[t]
  /\ copied' = [copied EXCEPT ![t] = idx[t]]
  /\ masked' = Nobody
  /\ GoTo(t, "count")
  /\ UNCHANGED <<buffers, nbytes, set, currentTerminal>>

\* the value returned, idx[t], is read after the sti
ReturnCount(t) ==
  /\ Runs(t, "count")
  /\ copied' = [copied EXCEPT ![t] = 0]
  /\ nbytes' = [nbytes EXCEPT ![t] = 0]
  /\ GoTo(t, "user")
  /\ UNCHANGED <<buffers, set, currentTerminal, masked>>

Key ==
  \/ \E c \in Letter \cup {Newline} : insert(c)
  \/ backspacebuf
  \/ \E r \in Term : clearbuf(r)
  \/ \E t \in Term : screenChange(t)

ReadStep(t) ==
  \/ ReadReset(t) \/ ReadPoll(t) \/ ReadMask(t)
  \/ FullEnds(t) \/ FullMask(t) \/ FullGoesOn(t)
  \/ FullFinish(t) \/ FullNewline(t)
  \/ CopySome(t) \/ CopyLine(t) \/ ReturnCount(t)

Next ==
  \/ Key
  \/ \E t \in Term :
       \/ \E n \in Counts : tRead(t, n)
       \/ ReadStep(t) \/ FullKey(t) \/ FullSpecial(t)

\* The scheduler runs every process again and again, but may find it each
\* time between the cli and the sti of another.  No key need ever arrive.
Fairness == \A t \in Term : SF_vars(ReadStep(t))

Spec == Init /\ [][Next]_vars /\ Fairness

-----------------------------------------------------------------------------
(***************************************************************************)
(* Properties                                                              *)
(***************************************************************************)
Steps ==
  {"user", "reset", "poll", "mask", "full", "key", "finish",
   "newline", "copy", "count"}

\* insert stops at the end of the buffer of its terminal and backspacebuf at
\* its beginning; a process that has switched interrupts off is inside the
\* part of tRead that does so.
TypeOK ==
  /\ tbuf \in [Memory -> Letter \cup {Newline, Nul}]
  /\ idx \in [Term -> 0 .. BUFSIZE]
  /\ set \in {0, 1}
  /\ currentTerminal \in Term
  /\ pc \in [Term -> Steps]
  /\ nbytes \in [Term -> Counts \cup {0}]
  /\ astray \subseteq Term
  /\ masked \in Term \cup {Nobody}
  /\ masked # Nobody =>
       pc[masked] \in {"full", "key", "finish", "newline", "copy"}

\* Whatever terminals are switched, cleared and read in between, the buffer
\* of a terminal holds the line that its user typed and edited there, with
\* three exceptions, no others.  A line goes astray when Ctrl-L or Alt-Fn
\* comes while the process of another terminal runs.  While tRead has wiped
\* the buffer and not yet reset idx, characters may be 0, though never others
\* than those typed.  And the last one is also the byte that backspacebuf
\* sets to 0 for the empty line of the terminal after it.
LineKept ==
  \A t \in Term \ astray :
    /\ Len(line[t]) = idx[t]
    /\ \A i \in 1 .. idx[t] :
         LET byte == tbuf[Address(t, i - 1)]
         IN byte = line[t][i]
            \/ (byte = Nul /\ (pc[t] = "reset" \/ i = BUFSIZE))

\* A read whose line has been ended by Enter returns, unless its user goes
\* on typing, or another read keeps the interrupts off, with a full buffer
\* and no key to leave it.
EnterReturns ==
  []<>(masked = Nobody) =>
    \A t \in Term :
      pc[t] = "poll" /\ idx[t] > 0 /\ EndsLine(t)
        ~> pc[t] = "user" \/ ~(idx[t] > 0 /\ EndsLine(t))

\* terminal.c:134, "How many bytes read on success": the idx that a read
\* returns is the number of characters it has put into the buffer of its
\* caller.
ReturnsBytesRead ==
  \A t \in Term : pc[t] = "count" => idx[t] = copied[t]
=============================================================================

------------------------------- MODULE Screen -------------------------------
(***************************************************************************)
(* The text screens of the terminals: putc, tScroll, backspace, clear and  *)
(* screenChange over the video memory, which shows one terminal, and the   *)
(* pages that keep the others.                                             *)
(*                                                                         *)
(* Each terminal that was started has one process that writes to it.  Its  *)
(* putc runs with interrupts enabled and is cut into the steps between     *)
(* which another process may write or a key may arrive; putc reads         *)
(* currentTerminal afresh in every one of them.  The keyboard handler runs *)
(* with interrupts off while any of the processes, r below, is the one     *)
(* that pcb names.                                                         *)
(***************************************************************************)
EXTENDS Integers

CONSTANTS
  NUM_ROWS,        \* 25
  NUM_COLS,        \* 80
  NUM_TERM,        \* 3
  Char             \* printable characters

ASSUME ScreenAssumption ==
  /\ NUM_ROWS \in Nat \ {0} /\ NUM_COLS \in Nat \ {0}
  /\ NUM_TERM \in Nat \ {0}

Term == 1 .. NUM_TERM
Newline == "\n"
Blank == " "

\* A store beyond the last row falls into bytes of the page that no screen
\* shows: an EXCEPT at such a position leaves the cells as they are.
Cells == 0 .. NUM_ROWS * NUM_COLS - 1
LastRow == NUM_ROWS - 1
BlankPage == [i \in Cells |-> Blank]
BlankScreen == [cells |-> BlankPage, x |-> 0, y |-> 0]

VARIABLES
  video,           \* the cells of the video memory
  page,            \* per terminal: the cells kept at VIDEO_TERM
  screen_x, screen_y,
  currentTerminal,
  numShells,       \* the terminals that have a shell
  pc,              \* per terminal: the step of putc of its process
  ch,              \* per terminal: the character being put
  shown,           \* per terminal: putc has taken the branch that writes to
                   \* the video memory
  expected,        \* history: per terminal, the screen its output asks for
  disturbed        \* history: a key has hit one of the windows below

putting == <<pc, ch, shown>>
vars == <<video, page, screen_x, screen_y, currentTerminal, numShells,
          putting, expected, disturbed>>

Init ==
  /\ video = BlankPage
  /\ page = [t \in Term |-> BlankPage]
  /\ screen_x = [t \in Term |-> 0]
  /\ screen_y = [t \in Term |-> 0]
  /\ currentTerminal = 1
  /\ numShells = {1}
  /\ pc = [t \in Term |-> "idle"]
  /\ ch = [t \in Term |-> Newline]
  /\ shown = [t \in Term |-> FALSE]
  /\ expected = [t \in Term |-> BlankScreen]
  /\ disturbed = FALSE

(***************************************************************************)
(* What the output asks for: characters at increasing positions, the rows  *)
(* moving up when the position passes the last one.                        *)
(***************************************************************************)
ScrollUp(cells) ==
  [i \in Cells |->
     IF i + NUM_COLS \in Cells THEN cells[i + NUM_COLS] ELSE Blank]

Written(s, c) ==
  LET at == NUM_COLS * s.y + s.x
      next == IF c = Newline THEN NUM_COLS * (s.y + 1) ELSE at + 1
      cells == IF c = Newline THEN s.cells ELSE [s.cells EXCEPT ![at] = c]
  IN IF next \in Cells
       THEN [cells |-> cells, x |-> next % NUM_COLS, y |-> next \div NUM_COLS]
       ELSE [cells |-> ScrollUp(cells), x |-> 0, y |-> LastRow]

Erased(s) ==
  LET at == NUM_COLS * s.y + s.x
      to == IF at = 0 THEN 0 ELSE at - 1
  IN [cells |-> [s.cells EXCEPT ![to] = Blank],
      x |-> to % NUM_COLS, y |-> to \div NUM_COLS]

Expect(t, screen) == expected' = [expected EXCEPT ![t] = screen]

(***************************************************************************)
(* putc, in the process of terminal t                                      *)
(***************************************************************************)

\* (mutant: as in the other branch)
CursorDisplayed(t) == currentTerminal

\* the terminal whose cursor this putc moves
Cursor(t) == IF shown[t] THEN currentTerminal ELSE t

\* (mutant: one row too far)
AtLastRowLate(y) == y = NUM_ROWS

AtLastRow(y) == y = LastRow

Advance(t, step) == pc' = [pc EXCEPT ![t] = step]

\* tScroll, called while pcb sits on terminal t, decides at its beginning
\* what to scroll
ToPage(t) == t # currentTerminal

tScroll(t) == Advance(t, IF ToPage(t) THEN "scroll page" ELSE "scroll video")

putc(t, c) ==
  /\ t \in numShells /\ pc[t] = "idle"
  /\ ch' = [ch EXCEPT ![t] = c]
  /\ shown' = [shown EXCEPT ![t] = (t = currentTerminal)]
  /\ Advance(t, IF c = Newline THEN "newline" ELSE "store")
  /\ Expect(t, Written(expected[t], c))
  /\ UNCHANGED <<video, page, screen_x, screen_y, currentTerminal, numShells,
                 disturbed>>

PutStore(t) ==
  LET g == Cursor(t)
      at == NUM_COLS * screen_y[g] + screen_x[g]
  IN
  /\ pc[t] = "store"
  /\ IF shown[t]
       THEN video' = [video EXCEPT ![at] = ch[t]] /\ UNCHANGED page
       ELSE page' = [page EXCEPT ![t][at] = ch[t]] /\ UNCHANGED video
  /\ Advance(t, "step")
  /\ UNCHANGED <<screen_x, screen_y, currentTerminal, numShells, ch, shown,
                 expected, disturbed>>

PutStep(t) ==
  /\ pc[t] = "step"
  /\ screen_x' = [screen_x EXCEPT ![Cursor(t)] = @ + 1]
  /\ Advance(t, "row")
  /\ UNCHANGED <<video, page, screen_y, currentTerminal, numShells, ch, shown,
                 expected, disturbed>>

PutRow(t) ==
  LET g == Cursor(t)
  IN
  /\ pc[t] = "row"
  /\ IF AtLastRow(screen_y[g]) /\ screen_x[g] = NUM_COLS
       THEN tScroll(t) /\ UNCHANGED screen_y
       ELSE /\ screen_y' = [screen_y EXCEPT ![g] =
                              (@ + (screen_x[g] \div NUM_COLS)) % NUM_ROWS]
            /\ Advance(t, "column")
  /\ UNCHANGED <<video, page, screen_x, currentTerminal, numShells, ch, shown,
                 expected, disturbed>>

PutScroll(t) ==
  /\ \/ pc[t] = "scroll page"
        /\ page' = [page EXCEPT ![t] = ScrollUp(@)] /\ UNCHANGED video
     \/ pc[t] = "scroll video"
        /\ video' = ScrollUp(video) /\ UNCHANGED page
  /\ Advance(t, IF ch[t] = Newline THEN "return" ELSE "column")
  /\ UNCHANGED <<screen_x, screen_y, currentTerminal, numShells, ch, shown,
                 expected, disturbed>>

PutColumn(t) ==
  /\ pc[t] = "column"
  /\ screen_x' = [screen_x EXCEPT ![Cursor(t)] = @ % NUM_COLS]
  /\ Advance(t, "idle")
  /\ UNCHANGED <<video, page, screen_y, currentTerminal, numShells, ch, shown,
                 expected, disturbed>>

PutNewline(t) ==
  LET g == Cursor(t)
  IN
  /\ pc[t] = "newline"
  /\ IF AtLastRow(screen_y[g])
       THEN tScroll(t) /\ UNCHANGED screen_y
       ELSE /\ screen_y' = [screen_y EXCEPT ![g] = @ + 1]
            /\ Advance(t, "return")
  /\ UNCHANGED <<video, page, screen_x, currentTerminal, numShells, ch, shown,
                 expected, disturbed>>

PutReturn(t) ==
  /\ pc[t] = "return"
  /\ screen_x' = [screen_x EXCEPT ![Cursor(t)] = 0]
  /\ Advance(t, "idle")
  /\ UNCHANGED <<video, page, screen_y, currentTerminal, numShells, ch, shown,
                 expected, disturbed>>

PutStepOf(t) ==
  \/ PutStore(t) \/ PutStep(t) \/ PutRow(t) \/ PutColumn(t)
  \/ PutNewline(t) \/ PutReturn(t) \/ PutScroll(t)

(***************************************************************************)
(* The keyboard handler.  A key disturbs the screen                        *)
(*   - when it prints, erases or clears inside a putc to the terminal on   *)
(*     display;                                                            *)
(*   - when it replaces that terminal under a putc to the video memory;    *)
(*   - when it brings up a terminal whose process is about to store a      *)
(*     character into the page just copied from, or is scrolling it;       *)
(*   - when its output has to scroll, or announces "Already in terminal",  *)
(*     while a process of another terminal runs: tScroll and putc go by    *)
(*     that process.                                                       *)
(***************************************************************************)
InPutc(t) == pc[t] # "idle"
PutsToVideo ==
  LET t == currentTerminal
  IN InPutc(t) /\ (shown[t] \/ pc[t] = "scroll video")
PutsToPage(t) == pc[t] \in {"store", "scroll page"}
Disturb(condition) == disturbed' = (disturbed \/ condition)

Displayed ==
  [cells |-> video, x |-> screen_x[currentTerminal],
   y |-> screen_y[currentTerminal]]

Kept(t) == [cells |-> page[t], x |-> screen_x[t], y |-> screen_y[t]]

\* putc from beginning to end, without and with the scrolling
Scrolls(s, c) ==
  AtLastRow(s.y) /\ (c = Newline \/ s.x + 1 = NUM_COLS)

PutUnscrolled(s, c) ==
  LET at == NUM_COLS * s.y + s.x
      x == IF c = Newline THEN 0 ELSE (s.x + 1) % NUM_COLS
      y == IF Scrolls(s, c) THEN s.y
           ELSE IF c = Newline THEN s.y + 1
           ELSE (s.y + ((s.x + 1) \div NUM_COLS)) % NUM_ROWS
  IN [cells |-> IF c = Newline THEN s.cells ELSE [s.cells EXCEPT ![at] = c],
      x |-> x, y |-> y]

Put(s, c) ==
  LET u == PutUnscrolled(s, c)
  IN IF Scrolls(s, c) THEN [u EXCEPT !.cells = ScrollUp(@)] ELSE u

SetCursor(t, s) ==
  /\ screen_x' = [screen_x EXCEPT ![t] = s.x]
  /\ screen_y' = [screen_y EXCEPT ![t] = s.y]

\* the echo of a key that insert() has taken
Echo(r, c) ==
  LET s == Displayed
      t == currentTerminal
      misdirected == Scrolls(s, c) /\ r # t
  IN
  /\ IF misdirected
       THEN /\ video' = PutUnscrolled(s, c).cells
            /\ page' = [page EXCEPT ![r] = ScrollUp(@)]
       ELSE video' = Put(s, c).cells /\ UNCHANGED page
  /\ SetCursor(t, PutUnscrolled(s, c))
  /\ Expect(t, Written(expected[t], c))
  /\ Disturb(InPutc(t) \/ misdirected)
  /\ UNCHANGED <<currentTerminal, numShells, putting>>

\* backspace, for a key that backspacebuf() has taken
Erase ==
  LET s == Displayed
      to == IF s.x > 0 THEN [x |-> s.x - 1, y |-> s.y]
            ELSE IF s.y > 0 THEN [x |-> NUM_COLS - 1, y |-> s.y - 1]
            ELSE [x |-> 0, y |-> 0]
  IN
  /\ video' = [video EXCEPT ![NUM_COLS * to.y + to.x] = Blank]
  /\ SetCursor(currentTerminal, to)
  /\ Expect(currentTerminal, Erased(expected[currentTerminal]))
  /\ Disturb(InPutc(currentTerminal))
  /\ UNCHANGED <<page, currentTerminal, numShells, putting>>

\* Ctrl-L
Clear ==
  /\ video' = BlankPage
  /\ SetCursor(currentTerminal, BlankScreen)
  /\ Expect(currentTerminal, BlankScreen)
  /\ Disturb(InPutc(currentTerminal))
  /\ UNCHANGED <<page, currentTerminal, numShells, putting>>

\* Alt-Fn for the terminal on display: "\nAlready in terminal ...", of which
\* the newline and one character are kept
AlreadyIn(r, c) ==
  LET t == currentTerminal
      printed == Put(Put(IF r = t THEN Displayed ELSE Kept(r), Newline), c)
  IN
  /\ IF r = t THEN video' = printed.cells /\ UNCHANGED page
     ELSE page' = [page EXCEPT ![r] = printed.cells] /\ UNCHANGED video
  /\ SetCursor(r, printed)
  /\ Expect(t, Written(Written(expected[t], Newline), c))
  /\ Disturb(InPutc(t) \/ r # t)
  /\ UNCHANGED <<currentTerminal, numShells, putting>>

\* (mutant: without keeping the screen that is left)
SaveDisplayedNot == UNCHANGED page

SaveDisplayed == page' = [page EXCEPT ![currentTerminal] = video]

\* Alt-Fn for another terminal that has its shell
Switch(t) ==
  /\ t \in numShells \ {currentTerminal}
  /\ SaveDisplayed
  /\ video' = page[t]
  /\ currentTerminal' = t
  /\ Disturb(PutsToVideo \/ PutsToPage(t))
  /\ UNCHANGED <<screen_x, screen_y, numShells, putting, expected>>

\* for one that has none: clear, and a shell is started
Launch(t) ==
  /\ t \in Term \ numShells
  /\ SaveDisplayed
  /\ video' = BlankPage
  /\ currentTerminal' = t
  /\ numShells' = numShells \cup {t}
  /\ SetCursor(t, BlankScreen)
  /\ Expect(t, BlankScreen)
  /\ Disturb(PutsToVideo)
  /\ UNCHANGED putting

\* the same when the process table is full
LaunchRefused ==
  /\ numShells # Term
  /\ SaveDisplayed
  /\ UNCHANGED <<video, screen_x, screen_y, currentTerminal, numShells,
                 putting, expected, disturbed>>

Key ==
  \/ \E r \in numShells, c \in Char \cup {Newline} : Echo(r, c)
  \/ Erase \/ Clear
  \/ \E r \in numShells, c \in Char : AlreadyIn(r, c)
  \/ \E t \in Term : Switch(t) \/ Launch(t)
  \/ LaunchRefused

Next ==
  \/ \E t \in Term :
       \/ \E c \in Char \cup {Newline} : putc(t, c)
       \/ PutStepOf(t)
  \/ Key

Spec == Init /\ [][Next]_vars

-----------------------------------------------------------------------------
(***************************************************************************)
(* Properties                                                              *)
(***************************************************************************)

\* Until a key disturbs it, no putc, echo or backspace moves a cursor off
\* its screen, so that every character is stored inside the page.
TypeOK ==
  /\ video \in [Cells -> Char \cup {Blank}]
  /\ page \in [Term -> [Cells -> Char \cup {Blank}]]
  /\ currentTerminal \in numShells
  /\ numShells \subseteq Term
  /\ ~disturbed =>
       \A t \in Term :
         /\ screen_y[t] \in 0 .. LastRow
         /\ screen_x[t] \in 0 .. NUM_COLS
         /\ screen_x[t] = NUM_COLS =>
              pc[t] \in {"row", "scroll page", "scroll video", "column"}

Shown(t) ==
  [cells |-> IF t = currentTerminal THEN video ELSE page[t],
   x |-> screen_x[t], y |-> screen_y[t]]

\* Whatever is written in the background, however the terminals are switched,
\* launched, cleared and scrolled: unless a key disturbs it, what a terminal
\* shows, or will show when it is brought up, is what its own process and
\* the keys typed at it have put there, and nothing else.
ShowsItsOutput ==
  ~disturbed =>
    \A t \in numShells : pc[t] = "idle" => Shown(t) = expected[t]

\* No step of a process changes what another terminal shows, not even in
\* the middle of a putc.
OutputStaysHome ==
  [][\A t \in Term :
       PutStepOf(t) /\ ~disturbed =>
         \A u \in Term \ {t} : Shown(u)' = Shown(u)]_vars
=============================================================================

---------------------------- MODULE ScreenProofs ----------------------------
(***************************************************************************)
(* Proofs about Screen, for any number of terminals and any size of the    *)
(* screen.                                                                 *)
(*                                                                         *)
(* That a terminal shows its output is not inductive: it says nothing of a *)
(* terminal in the middle of a putc.  The invariant ScreenInv therefore    *)
(* says, at every step of putc, what the steps that are left will make of  *)
(* the screen (Rest), and that this is what the output asks for (Right);   *)
(* and, since the steps read currentTerminal afresh, that they still write *)
(* where the first of them meant to (Place).                               *)
(***************************************************************************)
EXTENDS Screen, Arithmetic, TLAPS

Glyph == Char \cup {Blank}
Screens == [cells : [Cells -> Glyph], x : Nat, y : Nat]
PutSteps ==
  {"idle", "store", "step", "row", "scroll page", "scroll video", "column",
   "newline", "return"}

\* What holds of the variables even after a key has disturbed the screens.
Typed ==
  /\ video \in [Cells -> Glyph] /\ page \in [Term -> [Cells -> Glyph]]
  /\ screen_x \in [Term -> Nat] /\ screen_y \in [Term -> Nat]
  /\ currentTerminal \in numShells /\ numShells \subseteq Term
  /\ pc \in [Term -> PutSteps]
  /\ ch \in [Term -> Char \cup {Newline}]
  /\ shown \in [Term -> BOOLEAN]
  /\ expected = [t \in Term |-> expected[t]]
  /\ disturbed \in BOOLEAN
  /\ \A t \in Term : pc[t] \in {"store", "step", "row", "column"} =>
                       ch[t] # Newline
  /\ \A t \in Term : pc[t] \in {"newline", "return"} => ch[t] = Newline

\* Where the cursor of a terminal may be, and where its putc writes.
Place(t) ==
  /\ screen_y[t] \in 0 .. LastRow
  /\ screen_x[t] \in 0 .. NUM_COLS
  /\ screen_x[t] = NUM_COLS =>
       pc[t] \in {"row", "scroll page", "scroll video", "column"}
  /\ pc[t] \in {"scroll page", "scroll video"} =>
       screen_y[t] = LastRow /\ (ch[t] # Newline <=> screen_x[t] = NUM_COLS)
  /\ InPutc(t) => t \in numShells
  /\ InPutc(t) /\ (shown[t] \/ pc[t] = "scroll video") => t = currentTerminal
  /\ pc[t] = "scroll page" => t # currentTerminal
  /\ pc[t] = "store" => (shown[t] <=> t = currentTerminal)

\* the screen whose cursor goes to the position next, which may be one beyond
\* the last row
Settle(cells, next) ==
  IF next \in Cells
    THEN [cells |-> cells, x |-> next % NUM_COLS, y |-> next \div NUM_COLS]
    ELSE [cells |-> ScrollUp(cells), x |-> 0, y |-> LastRow]

\* what a terminal that shows s will show when the putc of c that is at step
\* has ended
Rest(step, c, s) ==
  LET at == NUM_COLS * s.y + s.x
  IN CASE step = "idle" -> s
       [] step \in {"store", "newline"} -> Written(s, c)
       [] step = "step" -> Settle(s.cells, at + 1)
       [] step = "row" -> Settle(s.cells, at)
       [] step \in {"scroll page", "scroll video"} ->
            [cells |-> ScrollUp(s.cells), x |-> 0, y |-> LastRow]
       [] step = "column" ->
            [cells |-> s.cells, x |-> s.x % NUM_COLS, y |-> s.y]
       [] step = "return" -> [cells |-> s.cells, x |-> 0, y |-> s.y]

\* What terminal t is going to show is what its output asks for.
Right(t) == t \in numShells => expected[t] = Rest(pc[t], ch[t], Shown(t))

\* The inductive invariant.
ScreenInv ==
  /\ Typed
  /\ ~disturbed => \A t \in Term : Place(t) /\ Right(t)

-----------------------------------------------------------------------------
(***************************************************************************)
(* Positions                                                               *)
(***************************************************************************)

\* The wrap-around of putc: the column NUM_COLS, and no other it can reach,
\* becomes column 0 of the next row.
LEMMA Wrap ==
  /\ \A x \in 0 .. NUM_COLS :
       /\ x % NUM_COLS = IF x = NUM_COLS THEN 0 ELSE x
       /\ x \div NUM_COLS = IF x = NUM_COLS THEN 1 ELSE 0
  /\ \A y \in 0 .. LastRow : y % NUM_ROWS = y
<1>1. ASSUME NEW x \in 0 .. NUM_COLS, x # NUM_COLS
      PROVE  x % NUM_COLS = x /\ x \div NUM_COLS = 0
  <2>1. x \in 0 .. NUM_COLS - 1 /\ NUM_COLS * 0 + x = x
    BY <1>1, ScreenAssumption
  <2> QED
    BY <2>1, DivMod, ScreenAssumption
<1>2. NUM_COLS % NUM_COLS = 0 /\ NUM_COLS \div NUM_COLS = 1
  <2>1. NUM_COLS * 1 + 0 = NUM_COLS /\ 0 \in 0 .. NUM_COLS - 1
    BY ScreenAssumption
  <2> QED
    BY <2>1, DivMod, ScreenAssumption
<1>3. ASSUME NEW y \in 0 .. LastRow
      PROVE  y % NUM_ROWS = y
  <2>1. y \in 0 .. NUM_ROWS - 1 /\ NUM_ROWS * 0 + y = y
    BY ScreenAssumption DEF LastRow
  <2> QED
    BY <2>1, DivMod, ScreenAssumption
<1> QED
  BY <1>1, <1>2, <1>3

\* The cells of a row before the last are followed by another row's.
LEMMA InPage ==
  ASSUME NEW y \in 0 .. LastRow, NEW x \in 0 .. NUM_COLS
  PROVE  /\ NUM_COLS * y + x \in Nat
         /\ NUM_COLS * (y + 1) = NUM_COLS * y + NUM_COLS
         /\ (NUM_COLS * y + x \in Cells) <=> (x < NUM_COLS \/ y < LastRow)
<1>1. NUM_COLS * y \in Nat /\ NUM_COLS * LastRow \in Nat
  BY ScreenAssumption DEF LastRow
<1>2. NUM_ROWS * NUM_COLS = NUM_COLS * LastRow + NUM_COLS
  BY ScreenAssumption DEF LastRow
<1>3. NUM_COLS * (y + 1) = NUM_COLS * y + NUM_COLS
  BY ScreenAssumption DEF LastRow
<1>4. y < LastRow => NUM_COLS * (y + 1) <= NUM_COLS * LastRow
  <2> SUFFICES ASSUME y < LastRow
               PROVE  NUM_COLS * (y + 1) <= NUM_COLS * LastRow
    OBVIOUS
  <2>1. \A d \in Nat : NUM_COLS * d >= 0
    BY ScreenAssumption
  <2>2. LastRow - (y + 1) \in Nat
    BY ScreenAssumption DEF LastRow
  <2>3. NUM_COLS * (LastRow - (y + 1))
          = NUM_COLS * LastRow - NUM_COLS * (y + 1)
    BY ScreenAssumption DEF LastRow
  <2>4. NUM_COLS * (y + 1) \in Nat
    BY ScreenAssumption DEF LastRow
  <2> QED
    BY <1>1, <2>1, <2>2, <2>3, <2>4
<1>5. y = LastRow => NUM_COLS * y = NUM_COLS * LastRow
  OBVIOUS
<1>6. y < LastRow \/ y = LastRow
  BY ScreenAssumption DEF LastRow
<1> HIDE DEF LastRow
<1>7. NUM_COLS \in Nat \ {0} /\ NUM_COLS * y + x \in Nat
  BY <1>1, ScreenAssumption
<1>8. (NUM_COLS * y + x \in Cells)
        <=> NUM_COLS * y + x < NUM_COLS * LastRow + NUM_COLS
  BY <1>1, <1>2, <1>7 DEF Cells
<1> QED
  BY <1>1, <1>3, <1>4, <1>5, <1>6, <1>7, <1>8

\* A position at most one beyond the end of its row, as a screen.
LEMMA SettleAt ==
  ASSUME NEW y \in 0 .. LastRow, NEW x \in 0 .. NUM_COLS, NEW cells
  PROVE  Settle(cells, NUM_COLS * y + x) =
           IF x < NUM_COLS THEN [cells |-> cells, x |-> x, y |-> y]
           ELSE IF y < LastRow THEN [cells |-> cells, x |-> 0, y |-> y + 1]
           ELSE [cells |-> ScrollUp(cells), x |-> 0, y |-> LastRow]
<1>1. CASE x < NUM_COLS
  <2>1. x \in 0 .. NUM_COLS - 1 /\ y \in Nat
    BY <1>1, ScreenAssumption DEF LastRow
  <2> QED
    BY <1>1, <2>1, InPage, DivMod, ScreenAssumption DEF Settle
<1>2. CASE x = NUM_COLS /\ y < LastRow
  <2>1. y + 1 \in Nat /\ 0 \in 0 .. NUM_COLS - 1
    BY ScreenAssumption DEF LastRow
  <2>2. NUM_COLS * y + x = NUM_COLS * (y + 1) + 0
    BY <1>2, InPage, <2>1, ScreenAssumption
  <2>3. /\ (NUM_COLS * (y + 1) + 0) % NUM_COLS = 0
        /\ (NUM_COLS * (y + 1) + 0) \div NUM_COLS = y + 1
    BY <2>1, DivMod, ScreenAssumption
  <2> QED
    BY <1>2, <2>2, <2>3, InPage DEF Settle
<1>3. CASE x = NUM_COLS /\ ~(y < LastRow)
  BY <1>3, InPage DEF Settle
<1> QED
  BY <1>1, <1>2, <1>3, ScreenAssumption
(***************************************************************************)
(* Characters                                                              *)
(***************************************************************************)

\* What the output asks for, by the position that follows.
LEMMA WrittenSettles ==
  ASSUME NEW s \in Screens, NEW c, s.y \in 0 .. LastRow,
         s.x \in 0 .. NUM_COLS - 1
  PROVE  Written(s, c) =
           IF c = Newline THEN Settle(s.cells, NUM_COLS * s.y + NUM_COLS)
           ELSE Settle([s.cells EXCEPT ![NUM_COLS * s.y + s.x] = c],
                       NUM_COLS * s.y + (s.x + 1))
<1>1. /\ s.x \in 0 .. NUM_COLS
      /\ NUM_COLS * s.y \in Nat
  BY ScreenAssumption DEF LastRow
<1>2. NUM_COLS * (s.y + 1) = NUM_COLS * s.y + NUM_COLS
  BY <1>1, InPage
<1>3. (NUM_COLS * s.y + s.x) + 1 = NUM_COLS * s.y + (s.x + 1)
  BY <1>1, ScreenAssumption
<1> QED
  BY <1>2, <1>3 DEF Written, Settle

\* putc, run from beginning to end, does what the output asks for.
LEMMA PutIsWritten ==
  ASSUME NEW s \in Screens, NEW c, s.y \in 0 .. LastRow,
         s.x \in 0 .. NUM_COLS - 1
  PROVE  Put(s, c) = Written(s, c)
<1> DEFINE cs == [s.cells EXCEPT ![NUM_COLS * s.y + s.x] = c]
<1>1. /\ s.x + 1 \in 0 .. NUM_COLS /\ NUM_COLS \in 0 .. NUM_COLS
      /\ LastRow \in Nat /\ NUM_COLS \in Nat \ {0}
      /\ s.y # LastRow => s.y < LastRow /\ s.y + 1 \in 0 .. LastRow
      /\ s.x + 1 # NUM_COLS => s.x + 1 < NUM_COLS
  BY ScreenAssumption DEF LastRow
<1>2. CASE c = Newline
  <2>1. Written(s, c) = IF s.y < LastRow
                          THEN [cells |-> s.cells, x |-> 0, y |-> s.y + 1]
                          ELSE [cells |-> ScrollUp(s.cells), x |-> 0,
                                y |-> LastRow]
    <3>1. Written(s, c) = Settle(s.cells, NUM_COLS * s.y + NUM_COLS)
      BY <1>2, WrittenSettles
    <3>2. Settle(s.cells, NUM_COLS * s.y + NUM_COLS) =
            IF NUM_COLS < NUM_COLS
              THEN [cells |-> s.cells, x |-> NUM_COLS, y |-> s.y]
            ELSE IF s.y < LastRow
              THEN [cells |-> s.cells, x |-> 0, y |-> s.y + 1]
            ELSE [cells |-> ScrollUp(s.cells), x |-> 0, y |-> LastRow]
      BY <1>1, SettleAt
    <3>3. ~(NUM_COLS < NUM_COLS)
      BY <1>1
    <3> QED
      BY <3>1, <3>2, <3>3
  <2> QED
    BY <1>1, <1>2, <2>1 DEF Put, PutUnscrolled, Scrolls, AtLastRow
<1>3. CASE c # Newline
  <2>1. Written(s, c) =
          IF s.x + 1 < NUM_COLS
            THEN [cells |-> cs, x |-> s.x + 1, y |-> s.y]
          ELSE IF s.y < LastRow THEN [cells |-> cs, x |-> 0, y |-> s.y + 1]
          ELSE [cells |-> ScrollUp(cs), x |-> 0, y |-> LastRow]
    <3>1. Written(s, c) = Settle(cs, NUM_COLS * s.y + (s.x + 1))
      BY <1>3, WrittenSettles
    <3> HIDE DEF cs
    <3>2. Settle(cs, NUM_COLS * s.y + (s.x + 1)) =
            IF s.x + 1 < NUM_COLS
              THEN [cells |-> cs, x |-> s.x + 1, y |-> s.y]
            ELSE IF s.y < LastRow THEN [cells |-> cs, x |-> 0, y |-> s.y + 1]
            ELSE [cells |-> ScrollUp(cs), x |-> 0, y |-> LastRow]
      BY <1>1, SettleAt
    <3> QED
      BY <3>1, <3>2
  <2>2. /\ (s.x + 1) % NUM_COLS = IF s.x + 1 = NUM_COLS THEN 0 ELSE s.x + 1
        /\ (s.x + 1) \div NUM_COLS = IF s.x + 1 = NUM_COLS THEN 1 ELSE 0
    BY <1>1, Wrap
  <2>3. s.y % NUM_ROWS = s.y /\ s.y + 0 = s.y
        /\ (s.y # LastRow => (s.y + 1) % NUM_ROWS = s.y + 1)
    <3>1. \A y \in 0 .. LastRow : y % NUM_ROWS = y
      BY Wrap
    <3>2. s.y + 0 = s.y
      BY <1>1
    <3> QED
      BY <1>1, <3>1, <3>2
  <2>4. CASE s.x + 1 = NUM_COLS /\ s.y = LastRow
    <3>1. Put(s, c) = [cells |-> ScrollUp(cs), x |-> 0, y |-> LastRow]
      BY <1>1, <1>3, <2>2, <2>4 DEF Put, PutUnscrolled, Scrolls, AtLastRow
    <3> QED
      BY <1>1, <2>1, <2>4, <3>1
  <2>5. CASE s.x + 1 = NUM_COLS /\ s.y # LastRow
    <3>1. Put(s, c) = [cells |-> cs, x |-> 0, y |-> s.y + 1]
      BY <1>1, <1>3, <2>2, <2>3, <2>5
         DEF Put, PutUnscrolled, Scrolls, AtLastRow
    <3> QED
      BY <1>1, <2>1, <2>5, <3>1
  <2>6. CASE s.x + 1 # NUM_COLS
    <3>1. Put(s, c) = [cells |-> cs, x |-> s.x + 1, y |-> s.y]
      BY <1>1, <1>3, <2>2, <2>3, <2>6
         DEF Put, PutUnscrolled, Scrolls, AtLastRow
    <3> QED
      BY <1>1, <2>1, <2>6, <3>1
  <2> QED
    BY <2>4, <2>5, <2>6
<1> QED
  BY <1>2, <1>3

\* A scrolled page is a page.
LEMMA ScrollTyped ==
  ASSUME NEW cells \in [Cells -> Glyph]
  PROVE  ScrollUp(cells) \in [Cells -> Glyph]
BY DEF ScrollUp, Glyph

\* putc leaves a screen, and its cursor on it.
LEMMA PutTyped ==
  ASSUME NEW s \in Screens, NEW c \in Char \cup {Newline}
  PROVE  /\ PutUnscrolled(s, c) \in Screens /\ Put(s, c) \in Screens
         /\ Put(s, c).x = PutUnscrolled(s, c).x
         /\ Put(s, c).y = PutUnscrolled(s, c).y
         /\ s.y \in 0 .. LastRow /\ s.x \in 0 .. NUM_COLS - 1 =>
              /\ Put(s, c).y \in 0 .. LastRow
              /\ Put(s, c).x \in 0 .. NUM_COLS - 1
<1> DEFINE u == PutUnscrolled(s, c)
<1>1. s.x + 1 \in Nat /\ (s.x + 1) % NUM_COLS \in 0 .. NUM_COLS - 1
      /\ (s.x + 1) \div NUM_COLS \in Nat
  BY ScreenAssumption DEF Screens
<1>2. (s.y + ((s.x + 1) \div NUM_COLS)) % NUM_ROWS \in 0 .. LastRow
  BY <1>1, ScreenAssumption DEF Screens, LastRow
<1>3. u = [cells |-> u.cells, x |-> u.x, y |-> u.y]
  BY DEF PutUnscrolled
<1>4. u.cells \in [Cells -> Glyph]
  BY DEF PutUnscrolled, Screens, Glyph
<1>5. u.x \in 0 .. NUM_COLS - 1
  BY <1>1, ScreenAssumption DEF PutUnscrolled
<1>6. u.y \in Nat /\ (s.y \in 0 .. LastRow => u.y \in 0 .. LastRow)
  BY <1>2, ScreenAssumption
     DEF PutUnscrolled, Screens, LastRow, Scrolls, AtLastRow
<1> HIDE DEF u
<1>7. Put(s, c) = IF Scrolls(s, c) THEN [u EXCEPT !.cells = ScrollUp(@)] ELSE u
  BY DEF Put, u
<1>8. ScrollUp(u.cells) \in [Cells -> Glyph]
  BY <1>4, ScrollTyped
<1>9. Put(s, c).x = u.x /\ Put(s, c).y = u.y /\ Put(s, c) \in Screens
      /\ u \in Screens
  BY <1>3, <1>4, <1>5, <1>6, <1>7, <1>8, ScreenAssumption DEF Screens
<1> QED
  BY <1>5, <1>6, <1>9 DEF u

\* where backspace goes
Back(s) ==
  IF s.x > 0 THEN [x |-> s.x - 1, y |-> s.y]
  ELSE IF s.y > 0 THEN [x |-> NUM_COLS - 1, y |-> s.y - 1]
  ELSE [x |-> 0, y |-> 0]

\* backspace erases the character before the cursor, on the row above it at
\* the beginning of a row, and the first cell at the top of the screen.
LEMMA BackIsErased ==
  ASSUME NEW s \in Screens, s.y \in 0 .. LastRow, s.x \in 0 .. NUM_COLS - 1
  PROVE  /\ Erased(s) =
              [cells |->
                 [s.cells EXCEPT ![NUM_COLS * Back(s).y + Back(s).x] = Blank],
               x |-> Back(s).x, y |-> Back(s).y]
         /\ Back(s).y \in 0 .. LastRow /\ Back(s).x \in 0 .. NUM_COLS - 1
<1> DEFINE at == NUM_COLS * s.y + s.x
           to == IF at = 0 THEN 0 ELSE at - 1
<1>1. /\ Back(s).y \in Nat /\ Back(s).y \in 0 .. LastRow
      /\ Back(s).x \in 0 .. NUM_COLS - 1
  BY ScreenAssumption DEF Back, LastRow
<1>2. to = NUM_COLS * Back(s).y + Back(s).x
  <2>1. CASE s.x > 0
    <3>1. NUM_COLS * s.y \in Nat
      BY ScreenAssumption DEF LastRow
    <3> QED
      BY <2>1, <3>1 DEF Back
  <2>2. CASE s.x = 0 /\ s.y > 0
    <3>1. NUM_COLS * s.y = NUM_COLS * (s.y - 1) + NUM_COLS
          /\ NUM_COLS * (s.y - 1) \in Nat
      BY <2>2, ScreenAssumption DEF LastRow
    <3>2. Back(s).x = NUM_COLS - 1 /\ Back(s).y = s.y - 1
      BY <2>2 DEF Back
    <3>3. at = NUM_COLS * s.y
      BY <2>2, <3>1, ScreenAssumption
    <3> HIDE DEF at
    <3> QED
      BY <3>1, <3>2, <3>3, ScreenAssumption
  <2>3. CASE s.x = 0 /\ s.y = 0
    BY <2>3, ScreenAssumption DEF Back
  <2> QED
    BY <2>1, <2>2, <2>3 DEF Screens
<1>3. to % NUM_COLS = Back(s).x /\ to \div NUM_COLS = Back(s).y
  <2>1. /\ (NUM_COLS * Back(s).y + Back(s).x) % NUM_COLS = Back(s).x
        /\ (NUM_COLS * Back(s).y + Back(s).x) \div NUM_COLS = Back(s).y
    BY <1>1, DivMod, ScreenAssumption
  <2> HIDE DEF to
  <2> QED
    BY <1>2, <2>1
<1>4. Erased(s) = [cells |-> [s.cells EXCEPT ![to] = Blank],
                   x |-> to % NUM_COLS, y |-> to \div NUM_COLS]
  BY DEF Erased
<1> QED
  BY <1>1, <1>2, <1>3, <1>4
-----------------------------------------------------------------------------
(***************************************************************************)
(* Steps                                                                   *)
(***************************************************************************)

\* The screens begin blank, with nothing left to do.
LEMMA InitInv == Init => ScreenInv
<1> SUFFICES ASSUME Init PROVE ScreenInv
  OBVIOUS
<1> USE ScreenAssumption
<1>1. 1 \in Term
  BY DEF Term
<1>2. Typed
  BY <1>1 DEF Init, Typed, BlankPage, Glyph, PutSteps
<1>3. ASSUME NEW t \in Term
      PROVE  Place(t)
  BY DEF Init, Place, InPutc, LastRow
<1>4. ASSUME NEW t \in Term
      PROVE  Right(t)
  BY DEF Init, Right, Rest, Shown, BlankScreen
<1> QED
  BY <1>2, <1>3, <1>4 DEF ScreenInv

\* Every step of a process, disturbed or not, keeps the types.
LEMMA PutStepTyped ==
  ASSUME Typed, NEW t \in Term, PutStepOf(t)
  PROVE  Typed'
<1> DEFINE g == Cursor(t)
           at == NUM_COLS * screen_y[g] + screen_x[g]
<1>1. g \in Term
  BY DEF Cursor, Typed
<1>2. UNCHANGED <<currentTerminal, numShells, ch, shown, expected, disturbed>>
  BY DEF PutStepOf, PutStore, PutStep, PutRow, PutScroll, PutColumn,
         PutNewline, PutReturn
<1>3. PICK step \in PutSteps :
        /\ pc' = [pc EXCEPT ![t] = step]
        /\ step \in {"store", "step", "row", "column"} => ch[t] # Newline
        /\ step \in {"newline", "return"} => ch[t] = Newline
  BY DEF PutStepOf, PutStore, PutStep, PutRow, PutScroll, PutColumn,
         PutNewline, PutReturn, PutSteps, Advance, tScroll, Typed
<1>4. video' \in [Cells -> Glyph] /\ page' \in [Term -> [Cells -> Glyph]]
  <2>1. /\ video \in [Cells -> Glyph] /\ page \in [Term -> [Cells -> Glyph]]
        /\ page[t] \in [Cells -> Glyph]
    BY DEF Typed
  <2>2. CASE PutStore(t)
    <3>1. ch[t] \in Glyph
      BY <2>2 DEF PutStore, Glyph, Typed
    <3>2. /\ [video EXCEPT ![at] = ch[t]] \in [Cells -> Glyph]
          /\ [page[t] EXCEPT ![at] = ch[t]] \in [Cells -> Glyph]
      BY <2>1, <3>1
    <3>3. \/ video' = [video EXCEPT ![at] = ch[t]] /\ page' = page
          \/ /\ page' = [page EXCEPT ![t] = [page[t] EXCEPT ![at] = ch[t]]]
             /\ video' = video
      BY <2>2 DEF PutStore
    <3> HIDE DEF at
    <3> QED
      BY <2>1, <3>2, <3>3
  <2>3. CASE PutScroll(t)
    <3>1. /\ ScrollUp(video) \in [Cells -> Glyph]
          /\ ScrollUp(page[t]) \in [Cells -> Glyph]
      BY <2>1, ScrollTyped DEF Glyph
    <3> QED
      BY <2>1, <2>3, <3>1 DEF PutScroll
  <2>4. CASE UNCHANGED <<video, page>>
    BY <2>1, <2>4
  <2> QED
    BY <2>2, <2>3, <2>4 DEF PutStepOf, PutStep, PutRow, PutColumn,
       PutNewline, PutReturn
<1>5. /\ screen_x \in [Term -> Nat] /\ screen_y \in [Term -> Nat]
      /\ screen_x[g] \in Nat /\ screen_y[g] \in Nat
  BY <1>1 DEF Typed
<1>6. \/ screen_x' = screen_x
      \/ \E n \in Nat : screen_x' = [screen_x EXCEPT ![g] = n]
  <2>1. screen_x[g] + 1 \in Nat /\ screen_x[g] % NUM_COLS \in Nat /\ 0 \in Nat
    BY <1>5, ScreenAssumption
  <2> HIDE DEF g
  <2> QED
    BY <2>1 DEF PutStepOf, PutStore, PutStep, PutRow, PutScroll, PutColumn,
                PutNewline, PutReturn, g
<1>7. \/ screen_y' = screen_y
      \/ \E n \in Nat : screen_y' = [screen_y EXCEPT ![g] = n]
  <2>1. screen_x[g] \div NUM_COLS \in Nat
    BY <1>5, ScreenAssumption
  <2>2. /\ (screen_y[g] + (screen_x[g] \div NUM_COLS)) % NUM_ROWS \in Nat
        /\ screen_y[g] + 1 \in Nat
    BY <1>5, <2>1, ScreenAssumption
  <2> QED
    BY <2>2 DEF PutStepOf, PutStore, PutStep, PutRow, PutScroll, PutColumn,
                PutNewline, PutReturn
<1>8. screen_x' \in [Term -> Nat] /\ screen_y' \in [Term -> Nat]
  BY <1>1, <1>5, <1>6, <1>7
<1> HIDE DEF g, at
<1> QED
  BY <1>2, <1>3, <1>4, <1>8 DEF Typed

\* So does the beginning of a putc.
LEMMA PutcTyped ==
  ASSUME Typed, NEW t \in Term, NEW c \in Char \cup {Newline}, putc(t, c)
  PROVE  Typed'
BY DEF Typed, putc, Advance, Expect, PutSteps

\* So does every key.
LEMMA KeyTyped ==
  ASSUME Typed, Key
  PROVE  Typed'
<1> USE ScreenAssumption
<1>1. UNCHANGED putting /\ numShells \subseteq Term /\ currentTerminal \in Term
  BY DEF Key, Echo, Erase, Clear, AlreadyIn, Switch, Launch, LaunchRefused,
         Typed
<1>2. BlankPage \in [Cells -> Glyph]
  BY DEF BlankPage, Glyph
<1>3. Displayed \in Screens /\ \A t \in Term : Kept(t) \in Screens
  BY <1>1 DEF Displayed, Kept, Screens, Typed, Glyph
<1>4. \A s \in Screens : /\ s.cells \in [Cells -> Glyph]
                         /\ s.x \in Nat /\ s.y \in Nat
  BY DEF Screens, Glyph
<1>5. SUFFICES /\ video' \in [Cells -> Glyph]
               /\ page' \in [Term -> [Cells -> Glyph]]
               /\ screen_x' \in [Term -> Nat] /\ screen_y' \in [Term -> Nat]
               /\ currentTerminal' \in numShells' /\ numShells' \subseteq Term
               /\ expected' = [t \in Term |-> expected'[t]]
               /\ disturbed' \in BOOLEAN
  BY <1>1 DEF Typed, putting
<1>6. ASSUME NEW r \in numShells, NEW c \in Char \cup {Newline}, Echo(r, c)
      PROVE  <1>5!1
  <2>1. PutUnscrolled(Displayed, c) \in Screens /\ Put(Displayed, c) \in Screens
    BY <1>3, PutTyped
  <2>2. r \in Term
    BY <1>1
  <2>3. video' \in [Cells -> Glyph]
    BY <1>6, <2>1, <1>4 DEF Echo
  <2>4. page' \in [Term -> [Cells -> Glyph]]
    BY <1>6, <2>2, ScrollTyped DEF Echo, Typed, Glyph
  <2> QED
    BY <1>1, <1>4, <1>6, <2>1, <2>3, <2>4
       DEF Echo, Typed, SetCursor, Expect, Disturb
<1>7. CASE Erase
  <2>1. video' \in [Cells -> Glyph] /\ page' \in [Term -> [Cells -> Glyph]]
    BY <1>7 DEF Erase, Typed, Glyph
  <2>2. screen_x' \in [Term -> Nat] /\ screen_y' \in [Term -> Nat]
    BY <1>1, <1>3, <1>4, <1>7 DEF Erase, SetCursor, Typed
  <2> QED
    BY <1>1, <1>7, <2>1, <2>2 DEF Erase, Typed, Expect, Disturb
<1>8. CASE Clear
  BY <1>1, <1>2, <1>8
     DEF Clear, Typed, SetCursor, Expect, Disturb, BlankScreen
<1>9. ASSUME NEW r \in numShells, NEW c \in Char, AlreadyIn(r, c)
      PROVE  <1>5!1
  <2> DEFINE from == IF r = currentTerminal THEN Displayed ELSE Kept(r)
             printed == Put(Put(from, Newline), c)
  <2>1. r \in Term /\ from \in Screens
    BY <1>1, <1>3
  <2>2. printed \in Screens
    BY <2>1, PutTyped
  <2>3. /\ \/ video' = printed.cells /\ UNCHANGED page
           \/ page' = [page EXCEPT ![r] = printed.cells] /\ UNCHANGED video
        /\ SetCursor(r, printed)
        /\ UNCHANGED <<currentTerminal, numShells>>
        /\ disturbed' = (disturbed
                           \/ (InPutc(currentTerminal) \/ r # currentTerminal))
        /\ expected' = [expected EXCEPT ![currentTerminal] =
                          Written(Written(expected[currentTerminal], Newline),
                                  c)]
    BY <1>9 DEF AlreadyIn, Disturb, Expect
  <2> HIDE DEF printed
  <2> QED
    <3>1. video' \in [Cells -> Glyph] /\ page' \in [Term -> [Cells -> Glyph]]
      BY <1>4, <2>1, <2>2, <2>3 DEF Typed
    <3>2. screen_x' \in [Term -> Nat] /\ screen_y' \in [Term -> Nat]
      BY <1>4, <2>1, <2>2, <2>3 DEF Typed, SetCursor
    <3>3. disturbed' \in BOOLEAN
      BY <2>3 DEF Typed
    <3>4. expected' = [t \in Term |-> expected'[t]]
      BY <2>3 DEF Typed
    <3>5. currentTerminal' \in numShells' /\ numShells' \subseteq Term
      BY <2>3 DEF Typed
    <3> QED
      BY <3>1, <3>2, <3>3, <3>4, <3>5
<1>10. ASSUME NEW t \in Term, Switch(t) \/ Launch(t)
       PROVE  <1>5!1
  <2>1. /\ video' \in [Cells -> Glyph]
        /\ page' \in [Term -> [Cells -> Glyph]]
    BY <1>1, <1>2, <1>10 DEF Switch, Launch, SaveDisplayed, Typed
  <2>2. screen_x' \in [Term -> Nat] /\ screen_y' \in [Term -> Nat]
    <3>1. screen_x \in [Term -> Nat] /\ screen_y \in [Term -> Nat]
      BY DEF Typed
    <3>2. CASE Switch(t)
      BY <3>1, <3>2 DEF Switch
    <3>3. CASE Launch(t)
      BY <3>1, <3>3 DEF Launch, SetCursor, BlankScreen
    <3> QED
      BY <1>10, <3>2, <3>3
  <2>3. currentTerminal' \in numShells' /\ numShells' \subseteq Term
    BY <1>1, <1>10 DEF Switch, Launch
  <2>4. expected' = [u \in Term |-> expected'[u]]
    BY <1>10 DEF Switch, Launch, Typed, Expect
  <2>5. disturbed' \in BOOLEAN
    BY <1>10 DEF Switch, Launch, Disturb, Typed
  <2> QED
    BY <2>1, <2>2, <2>3, <2>4, <2>5
<1>11. CASE LaunchRefused
  BY <1>1, <1>11 DEF LaunchRefused, SaveDisplayed, Typed
<1> QED
  BY <1>6, <1>7, <1>8, <1>9, <1>10, <1>11 DEF Key
\* A step of putc moves the cursor of its own terminal and leaves what the
\* others show alone.
LEMMA PutStepHome ==
  ASSUME Typed, NEW t \in Term, Place(t), PutStepOf(t)
  PROVE  /\ Cursor(t) = t
         /\ t \in numShells
         /\ UNCHANGED <<currentTerminal, numShells, ch, shown, expected,
                        disturbed>>
         /\ \A u \in Term \ {t} : Shown(u)' = Shown(u) /\ pc'[u] = pc[u]
<1>1. InPutc(t)
  BY DEF PutStepOf, PutStore, PutStep, PutRow, PutScroll, PutColumn,
         PutNewline, PutReturn, InPutc
<1>2. Cursor(t) = t /\ t \in numShells
  BY <1>1 DEF Place, Cursor
<1>3. UNCHANGED <<currentTerminal, numShells, ch, shown, expected, disturbed>>
  BY DEF PutStepOf, PutStore, PutStep, PutRow, PutScroll, PutColumn,
         PutNewline, PutReturn
<1>4. \A u \in Term \ {t} : /\ pc'[u] = pc[u]
                            /\ screen_x'[u] = screen_x[u]
                            /\ screen_y'[u] = screen_y[u]
  BY <1>2 DEF PutStepOf, PutStore, PutStep, PutRow, PutScroll, PutColumn,
              PutNewline, PutReturn, Advance, tScroll, Typed
<1>5. /\ t # currentTerminal => video' = video
      /\ \A u \in Term \ {t} : page'[u] = page[u]
  <2>1. CASE PutStore(t)
    <3>1. shown[t] <=> t = currentTerminal
      BY <2>1 DEF PutStore, Place
    <3> QED
      BY <2>1, <3>1 DEF PutStore, Typed
  <2>2. CASE PutScroll(t)
    BY <2>2, <1>1 DEF PutScroll, Place, Typed
  <2>3. CASE UNCHANGED <<video, page>>
    BY <2>3
  <2> QED
    BY <2>1, <2>2, <2>3 DEF PutStepOf, PutStep, PutRow, PutColumn,
       PutNewline, PutReturn
<1>6. \A u \in Term \ {t} : Shown(u)' = Shown(u)
  BY <1>3, <1>4, <1>5 DEF Shown
<1> QED
  BY <1>2, <1>3, <1>4, <1>6

\* A step of putc does its part of what is left to do.
LEMMA PutStepRight ==
  ASSUME Typed, NEW t \in Term, Place(t), PutStepOf(t)
  PROVE  /\ Place(t)'
         /\ Rest(pc'[t], ch[t], Shown(t)') = Rest(pc[t], ch[t], Shown(t))
<1> DEFINE s == Shown(t)
           x == screen_x[t]
           y == screen_y[t]
           at == NUM_COLS * y + x
<1>1. /\ Cursor(t) = t /\ t \in numShells
      /\ UNCHANGED <<currentTerminal, numShells, ch, shown>>
  BY PutStepHome
<1>2. /\ s \in Screens /\ s = [cells |-> s.cells, x |-> x, y |-> y]
      /\ s.cells = IF t = currentTerminal THEN video ELSE page[t]
  BY DEF Shown, Typed, Screens, Glyph
<1>3. /\ y \in 0 .. LastRow /\ x \in 0 .. NUM_COLS
      /\ NUM_COLS \in Nat \ {0} /\ LastRow \in Nat /\ at \in Nat
      /\ NUM_COLS * y \in Nat
  <2>1. y \in 0 .. LastRow /\ x \in 0 .. NUM_COLS
    BY DEF Place
  <2>2. NUM_COLS \in Nat \ {0} /\ LastRow \in Nat
    BY ScreenAssumption DEF LastRow
  <2> HIDE DEF x, y
  <2>3. NUM_COLS * y \in Nat
    BY <2>1, <2>2
  <2> QED
    BY <2>1, <2>2, <2>3
<1>4. /\ pc \in [Term -> PutSteps]
      /\ screen_x \in [Term -> Nat] /\ screen_y \in [Term -> Nat]
      /\ video \in [Cells -> Glyph] /\ page \in [Term -> [Cells -> Glyph]]
  BY DEF Typed
<1>5. Shown(t)' = [cells |-> IF t = currentTerminal THEN video' ELSE page'[t],
                   x |-> screen_x'[t], y |-> screen_y'[t]]
  BY <1>1 DEF Shown
<1>6. CASE PutStore(t)
  <2>1. /\ pc[t] = "store" /\ pc'[t] = "step"
        /\ screen_x' = screen_x /\ screen_y' = screen_y
    BY <1>4, <1>6 DEF PutStore, Advance
  <2>2. shown[t] <=> t = currentTerminal
    BY <2>1 DEF Place
  <2>3. ch[t] # Newline /\ x \in 0 .. NUM_COLS - 1
    <3>1. ch[t] # Newline /\ x # NUM_COLS
      BY <2>1 DEF Place, Typed
    <3> HIDE DEF x
    <3> QED
      BY <1>3, <3>1
  <2>4. Shown(t)' = [cells |-> [s.cells EXCEPT ![at] = ch[t]],
                     x |-> x, y |-> y]
    <3>1. IF shown[t]
            THEN video' = [video EXCEPT ![at] = ch[t]]
            ELSE page' = [page EXCEPT ![t] = [page[t] EXCEPT ![at] = ch[t]]]
      BY <1>1, <1>6 DEF PutStore
    <3>2. [s.cells EXCEPT ![at] = ch[t]] =
            IF t = currentTerminal THEN video' ELSE page'[t]
      BY <1>2, <1>4, <2>2, <3>1
    <3> QED
      BY <1>5, <2>1, <3>2
  <2>5. Rest("store", ch[t], s) =
          Settle([s.cells EXCEPT ![at] = ch[t]], NUM_COLS * y + (x + 1))
    <3>1. Rest("store", ch[t], s) = Written(s, ch[t])
      BY DEF Rest
    <3>2. s.x = x /\ s.y = y
      BY <1>2
    <3> HIDE DEF s, x, y
    <3> QED
      BY <1>2, <1>3, <2>3, <3>1, <3>2, WrittenSettles DEF at
  <2>6. Rest("step", ch[t], Shown(t)') =
          Settle([s.cells EXCEPT ![at] = ch[t]], at + 1)
    BY <2>4 DEF Rest
  <2>7. at + 1 = NUM_COLS * y + (x + 1)
    BY <1>3
  <2>8. Place(t)'
    BY <1>1, <2>1, <2>2 DEF Place, InPutc
  <2> QED
    BY <2>1, <2>5, <2>6, <2>7, <2>8
<1>7. CASE PutStep(t)
  <2>1. /\ pc[t] = "step" /\ pc'[t] = "row"
        /\ screen_x'[t] = x + 1 /\ screen_y' = screen_y
        /\ UNCHANGED <<video, page>>
    BY <1>1, <1>4, <1>7 DEF PutStep, Advance
  <2>2. x # NUM_COLS
    BY <2>1 DEF Place
  <2>3. Shown(t)' = [cells |-> s.cells, x |-> x + 1, y |-> y]
    BY <1>1, <1>2, <1>5, <2>1
  <2>4. Rest("row", ch[t], Shown(t)') = Settle(s.cells, NUM_COLS * y + (x + 1))
    BY <2>3 DEF Rest
  <2>5. Rest("step", ch[t], s) = Settle(s.cells, at + 1)
    BY <1>2 DEF Rest
  <2>6. at + 1 = NUM_COLS * y + (x + 1)
    BY <1>3
  <2>7. Place(t)'
    BY <1>1, <1>3, <2>1, <2>2 DEF Place, InPutc
  <2> QED
    BY <2>1, <2>4, <2>5, <2>6, <2>7
<1>8. CASE PutRow(t)
  <2>1. pc[t] = "row" /\ UNCHANGED <<video, page, screen_x>>
    BY <1>8 DEF PutRow
  <2>2. Rest("row", ch[t], s) = Settle(s.cells, at)
    BY <1>2 DEF Rest
  <2>3. Settle(s.cells, at) =
          IF x < NUM_COLS THEN [cells |-> s.cells, x |-> x, y |-> y]
          ELSE IF y < LastRow THEN [cells |-> s.cells, x |-> 0, y |-> y + 1]
          ELSE [cells |-> ScrollUp(s.cells), x |-> 0, y |-> LastRow]
    BY <1>3, SettleAt
  <2>4. CASE y = LastRow /\ x = NUM_COLS
    <3>1. /\ pc'[t] = IF t # currentTerminal THEN "scroll page"
                      ELSE "scroll video"
          /\ screen_y' = screen_y
      BY <1>1, <1>4, <1>8, <2>4
         DEF PutRow, AtLastRow, tScroll, ToPage, Advance
    <3>2. Shown(t)' = s
      BY <1>1, <2>1, <3>1 DEF Shown
    <3>3. Rest(pc'[t], ch[t], s) =
            [cells |-> ScrollUp(s.cells), x |-> 0, y |-> LastRow]
      BY <3>1 DEF Rest
    <3>4. Place(t)'
      <4>1. ch[t] # Newline
        BY <2>1 DEF Typed
      <4> QED
        BY <1>1, <1>3, <2>1, <2>4, <3>1, <4>1 DEF Place, InPutc
    <3> QED
      BY <1>3, <2>1, <2>2, <2>3, <2>4, <3>2, <3>3, <3>4
  <2>5. CASE ~(y = LastRow /\ x = NUM_COLS)
    <3>1. /\ pc'[t] = "column"
          /\ screen_y'[t] = (y + (x \div NUM_COLS)) % NUM_ROWS
      BY <1>1, <1>4, <1>8, <2>5 DEF PutRow, AtLastRow, Advance
    <3>2. /\ x % NUM_COLS = IF x = NUM_COLS THEN 0 ELSE x
          /\ x \div NUM_COLS = IF x = NUM_COLS THEN 1 ELSE 0
      BY <1>3, Wrap
    <3>3. screen_y'[t] = IF x = NUM_COLS THEN y + 1 ELSE y
      <4>1. x = NUM_COLS => y + 1 \in 0 .. LastRow
        BY <1>3, <2>5
      <4>2. y + 0 = y
        BY <1>3
      <4> QED
        BY <1>3, <3>1, <3>2, <4>1, <4>2, Wrap
    <3>4. screen_y'[t] \in 0 .. LastRow
      BY <1>3, <2>5, <3>3
    <3>5. Shown(t)' = [cells |-> s.cells, x |-> x, y |-> screen_y'[t]]
      BY <1>1, <1>2, <2>1 DEF Shown
    <3>6. Rest("column", ch[t], Shown(t)') =
            [cells |-> s.cells, x |-> x % NUM_COLS, y |-> screen_y'[t]]
      BY <3>5 DEF Rest
    <3>7. Place(t)'
      BY <1>1, <1>3, <2>1, <3>1, <3>4 DEF Place, InPutc
    <3> HIDE DEF s, x, y, at
    <3>8. x < NUM_COLS \/ (x = NUM_COLS /\ ~(x < NUM_COLS) /\ y < LastRow)
      BY <1>3, <2>5
    <3>9. Settle(s.cells, at) =
            [cells |-> s.cells, x |-> x % NUM_COLS, y |-> screen_y'[t]]
      <4>1. CASE x < NUM_COLS
        <5>1. x # NUM_COLS
          BY <1>3, <4>1
        <5> QED
          BY <2>3, <3>2, <3>3, <4>1, <5>1
      <4>2. CASE x = NUM_COLS /\ ~(x < NUM_COLS) /\ y < LastRow
        BY <2>3, <3>2, <3>3, <4>2
      <4> QED
        BY <3>8, <4>1, <4>2
    <3> QED
      BY <2>1, <2>2, <3>1, <3>6, <3>7, <3>9 DEF s
  <2> QED
    BY <2>4, <2>5
<1>9. CASE PutScroll(t)
  <2>1. /\ pc[t] \in {"scroll page", "scroll video"}
        /\ pc'[t] = IF ch[t] = Newline THEN "return" ELSE "column"
        /\ UNCHANGED <<screen_x, screen_y>>
    BY <1>4, <1>9 DEF PutScroll, Advance
  <2>2. /\ y = LastRow /\ (ch[t] # Newline <=> x = NUM_COLS)
        /\ pc[t] = "scroll video" <=> t = currentTerminal
    BY <2>1 DEF Place, InPutc
  <2>3. (IF t = currentTerminal THEN video' ELSE page'[t]) = ScrollUp(s.cells)
    BY <1>2, <1>4, <1>9, <2>2 DEF PutScroll
  <2>4. Shown(t)' = [cells |-> ScrollUp(s.cells), x |-> x, y |-> y]
    BY <1>1, <2>1, <2>3 DEF Shown
  <2>5. Rest(pc[t], ch[t], s) =
          [cells |-> ScrollUp(s.cells), x |-> 0, y |-> LastRow]
    BY <2>1 DEF Rest
  <2>6. NUM_COLS % NUM_COLS = 0
    BY <1>3, Wrap
  <2>7. Rest(pc'[t], ch[t], Shown(t)') =
          [cells |-> ScrollUp(s.cells), x |-> 0, y |-> LastRow]
    <3>1. CASE ch[t] = Newline
      <4>1. pc'[t] = "return"
        BY <2>1, <3>1
      <4> HIDE DEF x, y, s
      <4>2. Rest("return", ch[t], Shown(t)') =
              [cells |-> ScrollUp(s.cells), x |-> 0, y |-> y]
        BY <2>4 DEF Rest
      <4> QED
        BY <2>2, <4>1, <4>2
    <3>2. CASE ch[t] # Newline
      <4>1. pc'[t] = "column" /\ x % NUM_COLS = 0
        BY <2>1, <2>2, <2>6, <3>2
      <4> HIDE DEF x, y, s
      <4>2. Rest("column", ch[t], Shown(t)') =
              [cells |-> ScrollUp(s.cells), x |-> x % NUM_COLS, y |-> y]
        BY <2>4 DEF Rest
      <4> QED
        BY <2>2, <4>1, <4>2
    <3> QED
      BY <3>1, <3>2
  <2>8. Place(t)'
    <3>1. screen_x'[t] = x /\ screen_y'[t] = y
      BY <2>1
    <3> QED
      BY <1>1, <1>3, <2>1, <2>2, <3>1 DEF Place, InPutc
  <2> QED
    BY <2>5, <2>7, <2>8
<1>10. CASE PutColumn(t)
  <2>1. /\ pc[t] = "column" /\ pc'[t] = "idle"
        /\ screen_x'[t] = x % NUM_COLS
        /\ UNCHANGED <<video, page, screen_y>>
    BY <1>1, <1>4, <1>10 DEF PutColumn, Advance
  <2>2. Shown(t)' = [cells |-> s.cells, x |-> x % NUM_COLS, y |-> y]
    BY <1>1, <1>2, <2>1 DEF Shown
  <2>3. Rest("column", ch[t], s) =
          [cells |-> s.cells, x |-> x % NUM_COLS, y |-> y]
    BY <1>2 DEF Rest
  <2>4. Rest("idle", ch[t], Shown(t)') = Shown(t)'
    BY DEF Rest
  <2>5. x % NUM_COLS \in 0 .. NUM_COLS - 1
    BY <1>3
  <2>6. /\ screen_x'[t] \in 0 .. NUM_COLS /\ screen_x'[t] # NUM_COLS
        /\ screen_y'[t] \in 0 .. LastRow
    BY <1>3, <2>1, <2>5
  <2>7. Place(t)'
    BY <1>1, <2>1, <2>6 DEF Place, InPutc
  <2> QED
    BY <2>1, <2>2, <2>3, <2>4, <2>7
<1>11. CASE PutNewline(t)
  <2>1. /\ pc[t] = "newline" /\ ch[t] = Newline
        /\ UNCHANGED <<video, page, screen_x>>
    BY <1>11 DEF PutNewline, Typed
  <2>2. x \in 0 .. NUM_COLS - 1
    <3>1. x # NUM_COLS
      BY <2>1 DEF Place
    <3> HIDE DEF x
    <3> QED
      BY <1>3, <3>1
  <2>3. Rest("newline", ch[t], s) =
          IF y < LastRow THEN [cells |-> s.cells, x |-> 0, y |-> y + 1]
          ELSE [cells |-> ScrollUp(s.cells), x |-> 0, y |-> LastRow]
    <3>1. Rest("newline", ch[t], s) = Written(s, Newline)
      BY <2>1 DEF Rest
    <3>2. s.x = x /\ s.y = y
      BY <1>2
    <3> HIDE DEF s, x, y
    <3>3. Written(s, Newline) = Settle(s.cells, NUM_COLS * y + NUM_COLS)
      BY <1>2, <2>2, <1>3, <3>2, WrittenSettles
    <3>4. NUM_COLS \in 0 .. NUM_COLS /\ ~(NUM_COLS < NUM_COLS)
      BY <1>3
    <3>5. Settle(s.cells, NUM_COLS * y + NUM_COLS) =
            IF NUM_COLS < NUM_COLS
              THEN [cells |-> s.cells, x |-> NUM_COLS, y |-> y]
            ELSE IF y < LastRow
              THEN [cells |-> s.cells, x |-> 0, y |-> y + 1]
            ELSE [cells |-> ScrollUp(s.cells), x |-> 0, y |-> LastRow]
      BY <1>3, <3>4, SettleAt
    <3> QED
      BY <3>1, <3>3, <3>4, <3>5
  <2>4. CASE y = LastRow
    <3>1. /\ pc'[t] = IF t # currentTerminal THEN "scroll page"
                      ELSE "scroll video"
          /\ screen_y' = screen_y
      BY <1>1, <1>4, <1>11, <2>4
         DEF PutNewline, AtLastRow, tScroll, ToPage, Advance
    <3>2. Shown(t)' = s
      BY <1>1, <2>1, <3>1 DEF Shown
    <3>3. Rest(pc'[t], ch[t], s) =
            [cells |-> ScrollUp(s.cells), x |-> 0, y |-> LastRow]
      BY <3>1 DEF Rest
    <3>4. Place(t)'
      BY <1>1, <1>3, <2>1, <2>2, <2>4, <3>1 DEF Place, InPutc
    <3> QED
      BY <1>3, <2>1, <2>3, <2>4, <3>2, <3>3, <3>4
  <2>5. CASE y # LastRow
    <3>1. pc'[t] = "return" /\ screen_y'[t] = y + 1
      BY <1>1, <1>4, <1>11, <2>5 DEF PutNewline, AtLastRow, Advance
    <3>2. Shown(t)' = [cells |-> s.cells, x |-> x, y |-> y + 1]
      BY <1>1, <1>2, <2>1, <3>1 DEF Shown
    <3>3. Rest("return", ch[t], Shown(t)') =
            [cells |-> s.cells, x |-> 0, y |-> y + 1]
      BY <3>2 DEF Rest
    <3>4. y < LastRow /\ y + 1 \in 0 .. LastRow
      <4> HIDE DEF y
      <4> QED
        BY <1>3, <2>5
    <3>5. Place(t)'
      <4>1. screen_x'[t] \in 0 .. NUM_COLS /\ screen_x'[t] # NUM_COLS
        BY <1>3, <2>1, <2>2
      <4>2. screen_y'[t] \in 0 .. LastRow
        BY <3>1, <3>4
      <4> QED
        BY <1>1, <2>1, <3>1, <4>1, <4>2 DEF Place, InPutc
    <3>6. Rest("newline", ch[t], s) =
            [cells |-> s.cells, x |-> 0, y |-> y + 1]
      BY <2>3, <3>4
    <3> QED
      BY <2>1, <3>1, <3>3, <3>5, <3>6
  <2> QED
    BY <2>4, <2>5
<1>12. CASE PutReturn(t)
  <2>1. /\ pc[t] = "return" /\ pc'[t] = "idle" /\ screen_x'[t] = 0
        /\ UNCHANGED <<video, page, screen_y>>
    BY <1>1, <1>4, <1>12 DEF PutReturn, Advance
  <2>2. Shown(t)' = [cells |-> s.cells, x |-> 0, y |-> y]
    BY <1>1, <1>2, <2>1 DEF Shown
  <2>3. Rest("return", ch[t], s) = [cells |-> s.cells, x |-> 0, y |-> y]
    BY <1>2 DEF Rest
  <2>4. Rest("idle", ch[t], Shown(t)') = Shown(t)'
    BY DEF Rest
  <2>5. Place(t)'
    <3>1. screen_x'[t] \in 0 .. NUM_COLS /\ screen_x'[t] # NUM_COLS
      BY <2>1, ScreenAssumption
    <3>2. screen_y'[t] \in 0 .. LastRow
      BY <1>3, <2>1
    <3>3. pc'[t] = "idle"
      BY <2>1
    <3> QED
      BY <3>1, <3>2, <3>3 DEF Place, InPutc
  <2> QED
    BY <2>1, <2>2, <2>3, <2>4, <2>5
<1> QED
  BY <1>6, <1>7, <1>8, <1>9, <1>10, <1>11, <1>12 DEF PutStepOf

\* A key that changes the terminal on display between two of its putc's, and
\* its history with it.
LEMMA DisplayKey ==
  ASSUME Typed, \A u \in Term : Place(u) /\ Right(u),
         ~InPutc(currentTerminal),
         UNCHANGED <<page, currentTerminal, numShells, putting>>,
         NEW cells, NEW x \in 0 .. NUM_COLS - 1, NEW y \in 0 .. LastRow,
         video' = cells,
         screen_x' = [screen_x EXCEPT ![currentTerminal] = x],
         screen_y' = [screen_y EXCEPT ![currentTerminal] = y],
         Expect(currentTerminal, [cells |-> cells, x |-> x, y |-> y])
  PROVE  \A u \in Term : Place(u)' /\ Right(u)'
<1> SUFFICES ASSUME NEW u \in Term PROVE Place(u)' /\ Right(u)'
  OBVIOUS
<1>1. UNCHANGED <<pc, ch, shown, page, currentTerminal, numShells>>
  BY DEF putting
<1>2. Place(u) /\ Right(u)
  OBVIOUS
<1>3. CASE u = currentTerminal
  <2>1. /\ screen_x'[u] = x /\ screen_y'[u] = y /\ pc[u] = "idle"
        /\ expected'[u] = [cells |-> cells, x |-> x, y |-> y]
    BY <1>3 DEF Typed, Expect, InPutc
  <2>2. x # NUM_COLS /\ x \in 0 .. NUM_COLS
    BY ScreenAssumption
  <2>3. Place(u)'
    BY <1>1, <1>2, <2>1, <2>2 DEF Place, InPutc
  <2>4. Shown(u)' = [cells |-> cells, x |-> x, y |-> y]
    BY <1>1, <1>3, <2>1 DEF Shown
  <2>5. Rest("idle", ch[u], Shown(u)') = Shown(u)'
    BY DEF Rest
  <2> QED
    BY <1>1, <2>1, <2>3, <2>4, <2>5 DEF Right
<1>4. CASE u # currentTerminal
  <2>1. /\ screen_x'[u] = screen_x[u] /\ screen_y'[u] = screen_y[u]
        /\ expected'[u] = expected[u]
    BY <1>4 DEF Typed, Expect
  <2>2. Place(u)'
    BY <1>1, <1>2, <2>1 DEF Place, InPutc
  <2>3. Shown(u)' = Shown(u)
    BY <1>1, <1>4, <2>1 DEF Shown
  <2> QED
    BY <1>1, <1>2, <2>1, <2>2, <2>3 DEF Right
<1> QED
  BY <1>3, <1>4

\* A key that replaces the terminal on display.
LEMMA SwitchKey ==
  ASSUME Typed, \A u \in Term : Place(u) /\ Right(u), ~disturbed',
         NEW t \in Term, Switch(t) \/ Launch(t)
  PROVE  \A u \in Term : Place(u)' /\ Right(u)'
<1> SUFFICES ASSUME NEW u \in Term PROVE Place(u)' /\ Right(u)'
  OBVIOUS
<1>1. /\ UNCHANGED <<pc, ch, shown>> /\ t # currentTerminal
      /\ page' = [page EXCEPT ![currentTerminal] = video]
      /\ currentTerminal' = t /\ currentTerminal \in Term
      /\ numShells \subseteq numShells' /\ ~PutsToVideo
  BY DEF Switch, Launch, putting, SaveDisplayed, Disturb, Typed
<1>2. Place(u) /\ Right(u)
  OBVIOUS
<1>3. ~(InPutc(u) /\ (shown[u] \/ pc[u] = "scroll video"))
  BY <1>1, <1>2 DEF Place, PutsToVideo
<1>4. CASE Launch(t) /\ u = t
  <2>1. pc[u] = "idle"
    BY <1>2, <1>4 DEF Launch, Place, InPutc
  <2>2. /\ screen_x'[u] = 0 /\ screen_y'[u] = 0 /\ video' = BlankPage
        /\ expected'[u] = [cells |-> BlankPage, x |-> 0, y |-> 0]
    BY <1>4 DEF Launch, SetCursor, Expect, Typed, BlankScreen
  <2>3. 0 \in 0 .. LastRow /\ 0 \in 0 .. NUM_COLS /\ 0 # NUM_COLS
    BY ScreenAssumption DEF LastRow
  <2>4. Place(u)'
    BY <1>1, <2>1, <2>2, <2>3 DEF Place, InPutc
  <2>5. Shown(u)' = [cells |-> BlankPage, x |-> 0, y |-> 0]
    BY <1>1, <1>4, <2>2 DEF Shown
  <2>6. Rest("idle", ch[u], Shown(u)') = Shown(u)'
    BY DEF Rest
  <2> QED
    BY <1>1, <2>1, <2>2, <2>4, <2>5, <2>6 DEF Right
<1>5. CASE ~(Launch(t) /\ u = t)
  <2>1. /\ screen_x'[u] = screen_x[u] /\ screen_y'[u] = screen_y[u]
        /\ expected'[u] = expected[u]
        /\ u \in numShells' <=> u \in numShells
    BY <1>5 DEF Switch, Launch, SetCursor, Expect, Typed
  <2>2. u = t => video' = page[u] /\ ~PutsToPage(u)
    BY <1>5 DEF Switch, Disturb, Typed
  <2>3. Shown(u)' = Shown(u)
    <3>1. (IF u = t THEN video' ELSE page'[u]) =
            IF u = currentTerminal THEN video ELSE page[u]
      BY <1>1, <2>2 DEF Typed
    <3> QED
      BY <1>1, <2>1, <3>1 DEF Shown
  <2>4. Place(u)'
    <3>1. pc[u] = "store" => u # t
      BY <2>2 DEF PutsToPage
    <3>2. pc[u] = "scroll page" => u # t
      BY <2>2 DEF PutsToPage
    <3> QED
      BY <1>1, <1>2, <1>3, <2>1, <3>1, <3>2 DEF Place, InPutc
  <2> QED
    BY <1>1, <1>2, <2>1, <2>3, <2>4 DEF Right
<1> QED
  BY <1>4, <1>5

\* What the keys put on the screen is what is asked of it.
LEMMA KeyRight ==
  ASSUME Typed, \A u \in Term : Place(u) /\ Right(u), ~disturbed', Key
  PROVE  \A u \in Term : Place(u)' /\ Right(u)'
<1> DEFINE t == currentTerminal
           s == Displayed
<1>1. t \in Term /\ t \in numShells
  BY DEF Typed
<1>2. s \in Screens /\ s = [cells |-> s.cells, x |-> s.x, y |-> s.y]
      /\ s.cells = video
  BY <1>1 DEF Displayed, Screens, Typed, Glyph
<1>3. ~InPutc(t) => /\ expected[t] = s
                    /\ s.x \in 0 .. NUM_COLS - 1 /\ s.y \in 0 .. LastRow
  <2> SUFFICES ASSUME ~InPutc(t)
               PROVE  /\ expected[t] = s
                      /\ s.x \in 0 .. NUM_COLS - 1 /\ s.y \in 0 .. LastRow
    OBVIOUS
  <2>1. Place(t) /\ Right(t) /\ pc[t] = "idle"
    BY <1>1 DEF InPutc
  <2>2. s.x = screen_x[t] /\ s.y = screen_y[t] /\ Shown(t) = s
    BY DEF Displayed, Shown
  <2>3. s.x # NUM_COLS /\ s.x \in 0 .. NUM_COLS /\ s.y \in 0 .. LastRow
    BY <2>1, <2>2 DEF Place
  <2>4. expected[t] = s
    BY <1>1, <2>1, <2>2 DEF Right, Rest
  <2> HIDE DEF s
  <2> QED
    BY <2>3, <2>4, ScreenAssumption
<1> HIDE DEF s
<1>4. ASSUME NEW r \in numShells, NEW c \in Char \cup {Newline}, Echo(r, c)
      PROVE  \A u \in Term : Place(u)' /\ Right(u)'
  <2> DEFINE p == Put(s, c)
  <2>1. /\ ~InPutc(t) /\ video' = p.cells
        /\ UNCHANGED <<page, currentTerminal, numShells, putting>>
        /\ SetCursor(t, PutUnscrolled(s, c))
        /\ Expect(t, Written(expected[t], c))
    BY <1>4 DEF Echo, Disturb, s
  <2>2. /\ p \in Screens /\ p.x \in 0 .. NUM_COLS - 1 /\ p.y \in 0 .. LastRow
        /\ p.x = PutUnscrolled(s, c).x /\ p.y = PutUnscrolled(s, c).y
    BY <1>2, <1>3, <2>1, PutTyped
  <2>3. Written(expected[t], c) = p
    BY <1>2, <1>3, <2>1, PutIsWritten
  <2> HIDE DEF p
  <2>4. p = [cells |-> p.cells, x |-> p.x, y |-> p.y]
    BY <2>2 DEF Screens
  <2> QED
    BY <2>1, <2>2, <2>3, <2>4, DisplayKey DEF SetCursor
<1>5. CASE Erase
  <2> DEFINE b == Back(s)
             cells == [s.cells EXCEPT ![NUM_COLS * b.y + b.x] = Blank]
  <2>1. /\ ~InPutc(t) /\ video' = cells
        /\ UNCHANGED <<page, currentTerminal, numShells, putting>>
        /\ SetCursor(t, b)
        /\ Expect(t, Erased(expected[t]))
    BY <1>2, <1>5 DEF Erase, Disturb, Back, s
  <2>2. /\ b.x \in 0 .. NUM_COLS - 1 /\ b.y \in 0 .. LastRow
        /\ Erased(expected[t]) = [cells |-> cells, x |-> b.x, y |-> b.y]
    BY <1>2, <1>3, <2>1, BackIsErased
  <2> HIDE DEF b, cells
  <2> QED
    BY <2>1, <2>2, DisplayKey DEF SetCursor
<1>6. CASE Clear
  <2>1. /\ ~InPutc(t) /\ video' = BlankPage
        /\ UNCHANGED <<page, currentTerminal, numShells, putting>>
        /\ screen_x' = [screen_x EXCEPT ![t] = 0]
        /\ screen_y' = [screen_y EXCEPT ![t] = 0]
        /\ Expect(t, [cells |-> BlankPage, x |-> 0, y |-> 0])
    BY <1>6 DEF Clear, Disturb, SetCursor, BlankScreen
  <2>2. 0 \in 0 .. NUM_COLS - 1 /\ 0 \in 0 .. LastRow
    BY ScreenAssumption DEF LastRow
  <2> QED
    BY <2>1, <2>2, DisplayKey
<1>7. ASSUME NEW r \in numShells, NEW c \in Char, AlreadyIn(r, c)
      PROVE  \A u \in Term : Place(u)' /\ Right(u)'
  <2> DEFINE n == Put(s, Newline)
             p == Put(n, c)
  <2>1. /\ ~InPutc(t) /\ video' = p.cells
        /\ UNCHANGED <<page, currentTerminal, numShells, putting>>
        /\ SetCursor(t, p)
        /\ Expect(t, Written(Written(expected[t], Newline), c))
    BY <1>7 DEF AlreadyIn, Disturb, s
  <2>2. n \in Screens /\ n.x \in 0 .. NUM_COLS - 1 /\ n.y \in 0 .. LastRow
    BY <1>2, <1>3, <2>1, PutTyped
  <2>3. Written(expected[t], Newline) = n
    BY <1>2, <1>3, <2>1, PutIsWritten
  <2> HIDE DEF n
  <2>4. p \in Screens /\ p.x \in 0 .. NUM_COLS - 1 /\ p.y \in 0 .. LastRow
    BY <2>2, PutTyped
  <2>5. Written(n, c) = p
    BY <2>2, PutIsWritten
  <2> HIDE DEF p
  <2>6. p = [cells |-> p.cells, x |-> p.x, y |-> p.y]
    BY <2>4 DEF Screens
  <2> QED
    BY <2>1, <2>3, <2>4, <2>5, <2>6, DisplayKey DEF SetCursor
<1>8. ASSUME NEW u \in Term, Switch(u) \/ Launch(u)
      PROVE  \A v \in Term : Place(v)' /\ Right(v)'
  BY <1>8, SwitchKey
<1>9. CASE LaunchRefused
  <2>1. ASSUME NEW u \in Term
        PROVE  Place(u)' /\ Right(u)'
    <3>1. /\ UNCHANGED <<video, screen_x, screen_y, currentTerminal,
                         numShells, pc, ch, shown, expected>>
          /\ page' = [page EXCEPT ![currentTerminal] = video]
      BY <1>9 DEF LaunchRefused, SaveDisplayed, putting
    <3>2. Shown(u)' = Shown(u)
      BY <3>1 DEF Shown, Typed
    <3>3. Place(u) /\ Right(u)
      OBVIOUS
    <3> QED
      BY <3>1, <3>2, <3>3 DEF Place, Right, InPutc
  <2> QED
    BY <2>1
<1> QED
  BY <1>4, <1>5, <1>6, <1>7, <1>8, <1>9 DEF Key

\* A character of a process begins with all of it left to do.
LEMMA PutcRight ==
  ASSUME Typed, \A u \in Term : Place(u) /\ Right(u),
         NEW t \in Term, NEW c \in Char \cup {Newline}, putc(t, c)
  PROVE  \A u \in Term : Place(u)' /\ Right(u)'
<1> SUFFICES ASSUME NEW u \in Term PROVE Place(u)' /\ Right(u)'
  OBVIOUS
<1>1. /\ UNCHANGED <<video, page, screen_x, screen_y, currentTerminal,
                     numShells>>
      /\ t \in numShells /\ pc[t] = "idle"
      /\ expected' = [expected EXCEPT ![t] = Written(expected[t], c)]
      /\ ch' = [ch EXCEPT ![t] = c]
      /\ pc' = [pc EXCEPT ![t] = IF c = Newline THEN "newline" ELSE "store"]
      /\ shown' = [shown EXCEPT ![t] = (t = currentTerminal)]
  BY DEF putc, Advance, Expect
<1>2. Shown(u)' = Shown(u)
  BY <1>1 DEF Shown
<1>3. Place(u) /\ Right(u)
  OBVIOUS
<1>4. CASE u = t
  <2>1. /\ pc'[t] \in {"newline", "store"} /\ ch'[t] = c
        /\ expected'[t] = Written(expected[t], c)
        /\ shown'[t] <=> t = currentTerminal
    BY <1>1 DEF Typed
  <2>2. Place(t)'
    BY <1>1, <1>3, <1>4, <2>1 DEF Place, InPutc
  <2>3. expected[t] = Shown(t)
    BY <1>1, <1>3, <1>4 DEF Right, Rest
  <2>4. Rest(pc'[t], c, Shown(t)) = Written(Shown(t), c)
    BY <2>1 DEF Rest
  <2> QED
    BY <1>2, <1>4, <2>1, <2>2, <2>3, <2>4 DEF Right
<1>5. CASE u # t
  <2>1. /\ pc'[u] = pc[u] /\ ch'[u] = ch[u] /\ shown'[u] = shown[u]
        /\ expected'[u] = expected[u]
    BY <1>1, <1>5 DEF Typed
  <2> QED
    BY <1>1, <1>2, <1>3, <2>1 DEF Place, Right, InPutc
<1> QED
  BY <1>4, <1>5

\* No step breaks the invariant.
LEMMA NextInv ==
  ASSUME ScreenInv, [Next]_vars
  PROVE  ScreenInv'
<1>1. Typed
  BY DEF ScreenInv
<1>2. ASSUME ~disturbed
      PROVE  \A u \in Term : Place(u) /\ Right(u)
  BY <1>2 DEF ScreenInv
<1>3. ASSUME NEW t \in Term, NEW c \in Char \cup {Newline}, putc(t, c)
      PROVE  ScreenInv'
  <2>1. Typed'
    BY <1>1, <1>3, PutcTyped
  <2>2. disturbed' = disturbed
    BY <1>3 DEF putc
  <2> QED
    BY <1>1, <1>2, <1>3, <2>1, <2>2, PutcRight DEF ScreenInv
<1>4. ASSUME NEW t \in Term, PutStepOf(t)
      PROVE  ScreenInv'
  <2>1. Typed'
    BY <1>1, <1>4, PutStepTyped
  <2>2. ASSUME ~disturbed', NEW u \in Term
        PROVE  Place(u)' /\ Right(u)'
    <3>1. ~disturbed
      BY <1>4, <2>2 DEF PutStepOf, PutStore, PutStep, PutRow, PutScroll,
         PutColumn, PutNewline, PutReturn
    <3>2. Place(t) /\ Right(t) /\ Place(u) /\ Right(u)
      BY <1>2, <3>1
    <3>3. /\ UNCHANGED <<currentTerminal, numShells, ch, shown, expected>>
          /\ \A v \in Term \ {t} : Shown(v)' = Shown(v) /\ pc'[v] = pc[v]
      BY <1>1, <1>4, <3>2, PutStepHome
    <3>4. CASE u = t
      BY <1>1, <1>4, <3>2, <3>3, <3>4, PutStepRight DEF Right
    <3>5. CASE u # t
      <4>1. Shown(u)' = Shown(u) /\ pc'[u] = pc[u]
        BY <3>3, <3>5
      <4>2. screen_x'[u] = screen_x[u] /\ screen_y'[u] = screen_y[u]
        BY <4>1 DEF Shown
      <4> QED
        BY <3>2, <3>3, <4>1, <4>2 DEF Place, Right, InPutc
    <3> QED
      BY <3>4, <3>5
  <2> QED
    BY <2>1, <2>2 DEF ScreenInv
<1>5. CASE Key
  <2>1. Typed'
    BY <1>1, <1>5, KeyTyped
  <2>2. ~disturbed' => ~disturbed
    BY <1>5 DEF Key, Echo, Erase, Clear, AlreadyIn, Switch, Launch,
       LaunchRefused, Disturb
  <2> QED
    BY <1>1, <1>2, <1>5, <2>1, <2>2, KeyRight DEF ScreenInv
<1>6. CASE UNCHANGED vars
  BY <1>6 DEF vars, putting, ScreenInv, Typed, Place, Right, Shown, InPutc
<1> QED
  BY <1>3, <1>4, <1>5, <1>6 DEF Next

-----------------------------------------------------------------------------
(***************************************************************************)
(* Theorems                                                                *)
(***************************************************************************)

\* The invariant holds of every state the screens can reach.
THEOREM ScreenInvariant == Spec => []ScreenInv
BY InitInv, NextInv, PTL DEF Spec

\* Until a key disturbs it, every cursor is on its screen and every character
\* is stored inside the page, whatever the size of the screen.
THEOREM ScreenTyped == Spec => []TypeOK
<1>1. ScreenInv => TypeOK
  BY DEF ScreenInv, Typed, Place, TypeOK, Glyph
<1> QED
  BY <1>1, ScreenInvariant, PTL

\* Unless a key disturbs it, a terminal between two putc's shows what its own
\* process and the keys typed at it have put there: the steps of putc, the
\* whole putc of the echo, backspace, clear, switch and launch together.
THEOREM AlwaysShowsItsOutput == Spec => []ShowsItsOutput
<1>1. ScreenInv => ShowsItsOutput
  <2> SUFFICES ASSUME ScreenInv, ~disturbed, NEW t \in numShells,
                      pc[t] = "idle"
               PROVE  Shown(t) = expected[t]
    BY DEF ShowsItsOutput
  <2>1. t \in Term /\ Right(t)
    BY DEF ScreenInv, Typed
  <2> QED
    BY <2>1 DEF Right, Rest
<1> QED
  BY <1>1, ScreenInvariant, PTL

\* No step of a process changes what another terminal shows, however many
\* terminals there are.
THEOREM OutputAlwaysStaysHome == Spec => OutputStaysHome
<1> DEFINE Home == \A t \in Term :
                     PutStepOf(t) /\ ~disturbed =>
                       \A u \in Term \ {t} : Shown(u)' = Shown(u)
<1>1. ScreenInv => Home
  BY PutStepHome DEF ScreenInv
<1> QED
  BY <1>1, ScreenInvariant, PTL DEF OutputStaysHome
=============================================================================

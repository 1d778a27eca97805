------------------------------ MODULE Keyboard ------------------------------
(***************************************************************************)
(* The keyboard, its controller and keyboard_handler.  A byte is a key     *)
(* pressed or released.  Reading the port takes the next byte, or repeats  *)
(* the last one when there is none.  Each byte asks for an interrupt; the  *)
(* handler reads some of them itself while Control, Alt or Shift is held,  *)
(* and their interrupts come afterwards and repeat the last byte.          *)
(***************************************************************************)
EXTENDS Pic, Sequences, Functions

CONSTANTS
  Chords,          \* what is done with the keys: [codes, off, on, locks]: the
                   \* bytes, what they mean with Caps Lock off and on, and
                   \* whether they toggle it
  KB_QUEUE         \* bytes the controller holds back

VARIABLES
  queue, port,     \* the controller: bytes not yet read, the last one read
  caps,            \* getChar[CAPS]
  kb,              \* where keyboard_handler is, Idle outside
  held,            \* the key it waits to see released
  typing,          \* the rest of the chord being typed
  text,            \* history: what the handler did with this chord
  expect,          \* history: what it means
  locked,          \* history: Caps Lock, by the chords
  hurried          \* history: a byte came while the handler was not waiting
                   \* (the other histories end then)

keys == <<queue, port, caps, kb, held, typing, text, expect, locked, hurried>>
typist == <<typing, expect, locked, hurried>>

KB_IR_LINE == 1
Idle == "idle"
\* one of each kind
Key == {"a", "l", ";", "bksp", "F1", "F2", "F3", "F5", "caps", "ctrl", "alt",
        "lshift", "rshift", "none"}
Byte(key, up) == [key |-> key, up |-> up]
Bytes == [key : Key, up : BOOLEAN]
NoByte == Byte("none", TRUE)

KeyboardInit ==
  /\ queue = <<>> /\ port = NoByte /\ caps = FALSE
  /\ kb = Idle /\ held = "none"
  /\ typing = <<>> /\ text = <<>> /\ expect = <<>>
  /\ locked = FALSE /\ hurried = FALSE

(***************************************************************************)
(* Somebody types                                                          *)
(***************************************************************************)

\* where the handler looks for the next byte, one at a time
Waiting == {"control", "clear", "alt", "shift"}

\* the previous byte has been dealt with
Settled ==
  /\ queue = <<>>
  /\ kb \in Waiting \/ (kb = Idle /\ KB_IR_LINE \notin irr)

Deliver(byte) ==
  /\ queue' = Append(queue, byte)
  /\ IF queue = <<>> THEN Raise({KB_IR_LINE}) ELSE UNCHANGED irr
  /\ hurried' = (hurried \/ ~Settled)

StartChord(c) ==
  /\ typing = <<>> /\ Len(queue) < KB_QUEUE
  /\ Deliver(Head(c.codes))
  /\ typing' = Tail(c.codes)
  /\ text' = <<>>
  /\ expect' = IF hurried' THEN <<>> ELSE IF locked THEN c.on ELSE c.off
  /\ locked' = (~hurried' /\ locked # c.locks)
  /\ UNCHANGED <<port, caps, kb, held, isr, imr, icw2>>

NextKey ==
  /\ typing # <<>> /\ Len(queue) < KB_QUEUE
  /\ Deliver(Head(typing))
  /\ typing' = Tail(typing)
  /\ IF hurried' THEN text' = <<>> /\ expect' = <<>> /\ locked' = FALSE
     ELSE UNCHANGED <<text, expect, locked>>
  /\ UNCHANGED <<port, caps, kb, held, isr, imr, icw2>>

(***************************************************************************)
(* Keys and characters                                                     *)
(***************************************************************************)

LowerCase == <<"a", "l">>
UpperCase == <<"A", "L">>
IsLetter(c) == \E i \in DOMAIN LowerCase : LowerCase[i] = c
CAPCHANGE(c) == UpperCase[CHOOSE i \in DOMAIN LowerCase : LowerCase[i] = c]

\* 0xFF: what the table holds for keys that are not implemented
Undefined == "0xFF"

scan2Let(key) == IF key \in {"a", "l", ";"} THEN key ELSE Undefined

\* (-1 in a byte is 0xFF again: Shift with Space or Enter has that inserted)
getShift(letter) == IF letter = ";" THEN ":" ELSE Undefined

Plain(c) == IF caps /\ IsLetter(c) THEN CAPCHANGE(c) ELSE c

\* (mutant: Caps Lock does not matter with Shift)
ShiftedAlways(c) == IF IsLetter(c) THEN CAPCHANGE(c) ELSE getShift(c)

Shifted(c) ==
  IF ~IsLetter(c) THEN getShift(c) ELSE IF caps THEN c ELSE CAPCHANGE(c)

(***************************************************************************)
(* keyboard_handler, in the steps between which a byte may arrive          *)
(***************************************************************************)

\* inb(KB_PORT): the value, and the next byte's interrupt
Inb == IF queue = <<>> THEN port ELSE Head(queue)

AfterInb ==
  /\ port' = Inb
  /\ queue' = IF queue = <<>> THEN queue ELSE Tail(queue)
  /\ irr' = IF Len(queue) > 1 THEN irr \cup {KB_IR_LINE} ELSE irr
  /\ UNCHANGED <<imr, icw2>>

\* insert, and what else is done to the line: `did' says what
Note(did) == text' = IF hurried THEN <<>> ELSE text \o did

Goes(to, did) ==
  /\ kb' = to /\ Note(did)
  /\ UNCHANGED isr

\* out of every branch: the end of the interrupt
Ends(did) ==
  /\ kb' = Idle /\ Note(did)
  /\ send_eoi(KB_IR_LINE)

\* (scan2Let of a release reads behind the table; whatever it finds there,
\* nothing is done with a release)
Scan ==
  LET b == Inb
  IN
  /\ kb = "scan"
  /\ AfterInb
  /\ caps' = IF b = Byte("caps", FALSE) THEN ~caps ELSE caps
  /\ held' = IF b.key \in {"lshift", "rshift"} THEN b.key ELSE "none"
  /\ CASE b.up \/ b.key = "caps" -> Ends(<<>>)
       [] b = Byte("ctrl", FALSE) -> Goes("control", <<>>)
       [] b = Byte("alt", FALSE) -> Goes("alt", <<>>)
       [] b = Byte("bksp", FALSE) -> Ends(<<"erase">>)
       [] b \in {Byte("lshift", FALSE), Byte("rshift", FALSE)} ->
            Goes("again", <<>>)
       [] OTHER -> Ends(IF scan2Let(b.key) = Undefined THEN <<>>
                        ELSE <<Plain(scan2Let(b.key))>>)
  /\ UNCHANGED typist

\* the status is polled until there is a byte
Polled(at) == kb = at /\ queue # <<>> /\ AfterInb

Control ==
  /\ Polled("control")
  /\ IF Inb = Byte("l", FALSE) THEN Goes("clear", <<>>) ELSE Ends(<<>>)
  /\ UNCHANGED <<caps, held, typist>>

\* the port is read over and over until Control is released
Clear ==
  /\ kb = "clear" /\ AfterInb
  /\ IF Inb = Byte("ctrl", TRUE) THEN Ends(<<"clear">>)
     ELSE Goes("clear", <<>>)
  /\ UNCHANGED <<caps, held, typist>>

\* Alt with F1, F2 or F3 changes the screen, see Interrupts
FKeys == <<"F1", "F2", "F3">>

Alt ==
  /\ Polled("alt")
  /\ IF ~Inb.up /\ Inb.key \in Range(FKeys)
       THEN Goes(Inb.key, <<Inb.key>>) ELSE Ends(<<>>)
  /\ UNCHANGED <<caps, held, typist>>

Released == Inb = Byte(held, TRUE)

\* the condition of the loop reads the port as well
ShiftCondition ==
  /\ kb = "again" /\ AfterInb
  /\ IF Released THEN Ends(<<>>) ELSE Goes("shift", <<>>)
  /\ UNCHANGED <<caps, held, typist>>

ShiftedKey(b) == IF b.up THEN <<>> ELSE <<Shifted(scan2Let(b.key))>>

\* with Caps Lock on, the byte is read once more before it is used
ShiftKey ==
  /\ Polled("shift")
  /\ IF Released THEN Ends(<<>>)
     ELSE IF caps THEN Goes("reread", <<>>)
     ELSE Goes("again", ShiftedKey(Inb))
  /\ UNCHANGED <<caps, held, typist>>

ShiftReread ==
  /\ kb = "reread" /\ AfterInb
  /\ Goes("again", ShiftedKey(Inb))
  /\ UNCHANGED <<caps, held, typist>>

keyboard_handler ==
  \/ Scan \/ Control \/ Clear \/ Alt
  \/ ShiftCondition \/ ShiftKey \/ ShiftReread

-----------------------------------------------------------------------------
(***************************************************************************)
(* The keyboard as it is meant: every byte has its effect at once, by the  *)
(* keys that are held and by Caps Lock.                                    *)
(***************************************************************************)

Shifts == {"lshift", "rshift"}

\* the character of a key; Shift and Caps Lock cancel out on letters
Character(key, shift, on) ==
  CASE IsLetter(key) -> IF shift # on THEN CAPCHANGE(key) ELSE key
    [] key = ";" -> IF shift THEN ":" ELSE ";"
    [] OTHER -> Undefined

\* s is [mode, caps, text]: a Shift key is held, Control or Alt was pressed,
\* Control-L waits for the release of Control, or none of these ("plain")
Does(s, mode, did) == [mode |-> mode, caps |-> s.caps, text |-> s.text \o did]

Toggles(s) == [mode |-> "plain", caps |-> ~s.caps, text |-> s.text]

PlainStrike(s, b) ==
  LET c == Character(b.key, FALSE, s.caps)
  IN CASE b.up -> Does(s, "plain", <<>>)
       [] ~b.up /\ b.key = "caps" -> Toggles(s)
       [] ~b.up /\ b.key = "ctrl" -> Does(s, "control", <<>>)
       [] ~b.up /\ b.key \in Shifts \cup {"alt"} -> Does(s, b.key, <<>>)
       [] ~b.up /\ b.key = "bksp" -> Does(s, "plain", <<"erase">>)
       [] OTHER -> Does(s, "plain", IF c = Undefined THEN <<>> ELSE <<c>>)

\* Control and Alt are forgotten at a key that means nothing with them; a
\* Shift key holds until its own release.
Strike(s, b) ==
  CASE s.mode \in Shifts ->
         IF b = Byte(s.mode, TRUE) THEN Does(s, "plain", <<>>)
         ELSE Does(s, s.mode, IF b.up THEN <<>>
                              ELSE <<Character(b.key, TRUE, s.caps)>>)
    [] s.mode = "clear" ->
         IF b = Byte("ctrl", TRUE) THEN Does(s, "plain", <<"clear">>)
         ELSE Does(s, "clear", <<>>)
    [] s.mode = "control" /\ b = Byte("l", FALSE) -> Does(s, "clear", <<>>)
    [] s.mode = "alt" /\ ~b.up /\ b.key \in Range(FKeys) ->
         Does(s, "plain", <<b.key>>)
    [] OTHER -> PlainStrike(s, b)

Struck(s, codes) ==
  LET After[n \in 0 .. Len(codes)] ==
        IF n = 0 THEN s ELSE Strike(After[n - 1], codes[n])
  IN After

Strikes(s, codes) == Struck(s, codes)[Len(codes)]

\* A chord is complete, no key held at its end, and has the meaning this
\* keyboard gives it.
ASSUME ChordsAssumption ==
  \A c \in Chords :
    /\ c.codes \in Seq(Bytes) /\ c.codes # <<>>
    /\ c.locks \in BOOLEAN
    /\ \A on \in BOOLEAN :
         Strikes([mode |-> "plain", caps |-> on, text |-> <<>>], c.codes)
           = [mode |-> "plain", caps |-> (on # c.locks),
              text |-> IF on THEN c.on ELSE c.off]

\* A chord does what it means: letters and symbols come out as Shift and
\* Caps Lock have it, Control-L clears, Alt-Fn changes the screen, Control
\* or Alt with another key types that key, and no key is lost or repeated,
\* although the handler takes bytes away from later interrupts, which then
\* see the last byte again.  (For bytes that come one at a time: one that
\* comes between two reads of a Shift loop can be lost, and so can one that
\* comes while tRead drops the keys of a full line.)
KeysTyped ==
  ~hurried /\ typing = <<>> /\ Settled /\ kb = Idle =>
    text = expect /\ caps = locked
=============================================================================

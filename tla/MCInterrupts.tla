---------------------------- MODULE MCInterrupts ----------------------------
(* Chords for the keyboard: two keys whose times overlap, Shift with two    *)
(* keys and both orders of release, Caps Lock, Control and Alt.             *)
EXTENDS Interrupts

Down(k) == Byte(k, FALSE)
Up(k) == Byte(k, TRUE)

Means(codes, off, on) ==
  [codes |-> codes, off |-> off, on |-> on, locks |-> FALSE]

Press(k) == <<Down(k), Up(k)>>
With(mod, k) == <<Down(mod)>> \o Press(k) \o <<Up(mod)>>

Typed ==
  { Means(<<Down("a"), Down("bksp"), Up("a"), Up("bksp")>>,
          <<"a", "erase">>, <<"A", "erase">>),
    [codes |-> Press("caps"), off |-> <<>>, on |-> <<>>, locks |-> TRUE],
    Means(<<Down("rshift")>> \o Press("l")
            \o <<Down(";"), Up("rshift"), Up(";")>>,
          <<"L", ":">>, <<"l", ":">>),
    Means(With("ctrl", "l"), <<"clear">>, <<"clear">>),
    Means(With("alt", "F2"), <<"F2">>, <<"F2">>) }
=============================================================================

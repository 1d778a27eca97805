------------------------------ MODULE MCFiles ------------------------------
(* Files and Programs on an image with blocks of six bytes: a text that     *)
(* fills a block and one that ends in its second block, the blocks out of   *)
(* order, next to the directory, the rtc and the programs.  grep and cat    *)
(* read five bytes at a time, so that lines are cut by the buffer.          *)
(* A name is a sequence of characters; where a program's name is never cut  *)
(* into characters it is one symbol.                                        *)
EXTENDS CommandTexts

F0 == <<"f", "0">>
F1 == <<"f", "1">>
Rtc == <<"r", "t", "c">>
Entry(n, t, i) == [name |-> n, type |-> t, inode |-> i]

Image ==
  << Entry(Dot, "dir", 0), Entry(F0, "file", 1), Entry(Rtc, "rtc", 0),
     Entry(F1, "file", 2), Entry(Cat, "file", 3), Entry(Ls, "file", 3),
     Entry(Grep, "file", 3), Entry(Hello, "file", 3),
     Entry(Testprint, "file", 3), Entry(Counter, "file", 3),
     Entry(Sigtest, "file", 3), Entry(Syserr, "file", 3),
     Entry(NoName, "rtc", 0) >>

Inodes ==
  0 :> [length |-> 0, data_block |-> <<0, 0, 0, 0, 0>>]
  @@ 1 :> [length |-> 6, data_block |-> <<4, 0, 0, 0, 0>>]
  @@ 2 :> [length |-> 11, data_block |-> <<5, 1, 0, 0, 0>>]
  @@ 3 :> [length |-> 5, data_block |-> <<2, 0, 0, 0, 0>>]

\* f0 is "a\nbcab", f1 "ab\ncab" and "c\ncab", with a line across the blocks;
\* programs begin as ELF files do and have a 0 in them
Blocks6 ==
  << <<"c", "\n", "c", "a", "b", "">>, <<"del", "E", "L", "F", "", "">>,
     <<"", "", "", "", "", "">>, <<"a", "\n", "b", "c", "a", "b">>,
     <<"a", "b", "\n", "c", "a", "b">> >>

\* zero, a byte, more than the rest of a block, the rest of any file
Requests == {-1, 0, 1, 4}
Opened3 == {Dot, F0, F1}

Typed(cmd, arg) == cmd \o <<" ">> \o arg \o <<"\n">>
Lines ==
  {<<"\n">>, Append(Exit, "\n"), <<"x", "\n">>, Append(F0, "\n")}
  \cup {Append(p, "\n") : p \in {Cat, Ls, Grep, Hello, Testprint, Counter,
                                 Sigtest, Syserr}}
  \cup {Typed(Cat, a) : a \in {F0, F1, Dot, Rtc, Ls, Grep, <<"f">>}}
  \cup {Typed(Grep, a) : a \in {<<"b">>, <<"a", "b">>, <<"c", "a", "b">>,
                                <<"b", "a", "b">>}}
  \cup {Typed(Append(Grep, "s"), <<"c", "a", "b">>)}
  \cup {Typed(Sigtest, <<a>>) : a \in {"0", "1"}}

Replies == {<<"0", "\n">>, <<"2", "\n">>, <<"3", "\n">>, <<"8", "\n">>,
            <<"\n">>, <<"a", "b", "\n">>}
Array(s) == [i \in 0 .. Len(s) - 1 |-> s[i + 1]]
Stale == {Array(<<"", "", "", "", "", "">>),
          Array(<<"x", "x", "x", "", "x", "x">>),
          Array(<<"x", "x", "x", "x", "x", "x">>),
          Array(<<"x", "", "\n", "", "\n", "\n">>)}
Counted == <<1, 10, 12>>
=============================================================================

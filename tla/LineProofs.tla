----------------------------- MODULE LineProofs -----------------------------
(***************************************************************************)
(* The line buffers, for any number of terminals, any size of the buffer   *)
(* and reads of any length.                                                *)
(***************************************************************************)
EXTENDS Line, TLAPS

\* Two bytes of the buffers at the same address are the same byte.
LEMMA AddressApart ==
  ASSUME NEW t \in Term, NEW u \in Term,
         NEW i \in 0 .. BUFSIZE - 1, NEW j \in 0 .. BUFSIZE - 1,
         t < u
  PROVE  Address(t, i) # Address(u, j)
<1>1. t \in Int /\ u \in Int /\ BUFSIZE \in Nat
  BY LineAssumption DEF Term
<1>2. (u - 1) * BUFSIZE = (t - 1) * BUFSIZE + (u - t) * BUFSIZE
  BY <1>1
<1>3. (u - t) * BUFSIZE >= BUFSIZE
  BY <1>1
<1>4. (u - 1) * BUFSIZE \in Int /\ (t - 1) * BUFSIZE \in Int
  BY <1>1
<1> QED
  BY <1>1, <1>2, <1>3, <1>4 DEF Address

\* Different places of the buffers have different addresses.
LEMMA AddressInjective ==
  ASSUME NEW t \in Term, NEW u \in Term,
         NEW i \in 0 .. BUFSIZE - 1, NEW j \in 0 .. BUFSIZE - 1,
         Address(t, i) = Address(u, j)
  PROVE  t = u /\ i = j
<1>1. t \in Int /\ u \in Int /\ BUFSIZE \in Nat
  BY LineAssumption DEF Term
<1>2. ~(t < u) /\ ~(u < t)
  BY AddressApart
<1>3. (t - 1) * BUFSIZE \in Int
  BY <1>1
<1> QED
  BY <1>1, <1>2, <1>3 DEF Address

\* The byte before a buffer is the last one of the buffer before it, or none.
LEMMA AddressBefore ==
  ASSUME NEW t \in Term, NEW u \in Term, NEW j \in 0 .. BUFSIZE - 1,
         Address(t, -1) = Address(u, j)
  PROVE  j = BUFSIZE - 1
<1>1. t \in Int /\ u \in Int /\ t >= 1 /\ u >= 1 /\ BUFSIZE \in Nat \ {0}
  BY LineAssumption DEF Term
<1>2. (t - 1) * BUFSIZE - 1 = (u - 1) * BUFSIZE + j
  BY DEF Address
<1>3. (t - 1) * BUFSIZE = (u - 1) * BUFSIZE + (t - u) * BUFSIZE
  BY <1>1
<1>4. (t - u) * BUFSIZE = j + 1
  BY <1>1, <1>2, <1>3
<1>5. CASE t - u >= 2
  <2>1. (t - u) * BUFSIZE >= 2 * BUFSIZE
    BY <1>1, <1>5
  <2> QED
    BY <1>1, <1>4, <2>1
<1>6. CASE t - u <= 0
  <2>1. (t - u) * BUFSIZE <= 0
    BY <1>1, <1>6
  <2> QED
    BY <1>1, <1>4, <2>1
<1>7. CASE t - u = 1
  BY <1>1, <1>4, <1>7
<1> QED
  BY <1>1, <1>5, <1>6, <1>7

\* Every place of a buffer has its address in the array.
LEMMA MemoryAddress ==
  ASSUME NEW t \in Term, NEW i \in 0 .. BUFSIZE - 1
  PROVE  Address(t, i) \in Memory
<1>1. t \in Int /\ t >= 1 /\ t <= NUM_TERM /\ BUFSIZE \in Nat /\ NUM_TERM \in Nat
  BY LineAssumption DEF Term
<1>2. NUM_TERM * BUFSIZE = (t - 1) * BUFSIZE + (NUM_TERM - t + 1) * BUFSIZE
  BY <1>1
<1>3. (NUM_TERM - t + 1) * BUFSIZE >= BUFSIZE
  BY <1>1
<1>4. (t - 1) * BUFSIZE \in Nat
  BY <1>1
<1> QED
  BY <1>1, <1>2, <1>3, <1>4 DEF Address, Memory

-----------------------------------------------------------------------------
Chars == Letter \cup {Newline, Nul}

\* The histories are lines; what they say is LineKept.
LineInv ==
  /\ TypeOK
  /\ line \in [Term -> Seq(Chars)]
  /\ LineKept

\* What a backspace leaves of a line.
LEMMA ShorterLine ==
  ASSUME NEW s \in Seq(Chars)
  PROVE  /\ Shorter(s) \in Seq(Chars)
         /\ Len(Shorter(s)) = IF Len(s) > 0 THEN Len(s) - 1 ELSE 0
         /\ \A i \in 1 .. Len(s) - 1 : Shorter(s)[i] = s[i]
<1>1. CASE Len(s) > 0
  <2>1. Shorter(s) = SubSeq(s, 1, Len(s) - 1) /\ Len(s) - 1 \in 0 .. Len(s)
    BY <1>1 DEF Shorter
  <2>2. Len(Shorter(s)) = Len(s) - 1
    <3>1. ASSUME NEW n \in 0 .. Len(s)
          PROVE  Len(SubSeq(s, 1, n)) = n
      OBVIOUS
    <3> QED
      BY <2>1, <3>1
  <2>3. \A i \in 1 .. Len(s) - 1 : Shorter(s)[i] = s[i]
    BY <2>1
  <2>4. Shorter(s) \in Seq(Chars)
    BY <2>1
  <2> QED
    BY <1>1, <2>2, <2>3, <2>4
<1>2. CASE ~(Len(s) > 0)
  BY <1>2 DEF Shorter
<1> QED
  BY <1>1, <1>2

\* character i of the line of t is in the buffer, or 0 where LineKept allows it
ByteKept(t, i) ==
  LET byte == tbuf[Address(t, i - 1)]
  IN byte = line[t][i]
     \/ (byte = Nul /\ (pc[t] = "reset" \/ i = BUFSIZE))

\* what LineKept says of one terminal
Holds(t) ==
  t \notin astray => /\ Len(line[t]) = idx[t]
                     /\ \A i \in 1 .. idx[t] : ByteKept(t, i)

\* The invariant, terminal by terminal.
LEMMA LineInvSplit ==
  LineInv <=> /\ TypeOK
              /\ line \in [Term -> Seq(Chars)]
              /\ \A t \in Term : Holds(t)
  BY DEF LineInv, LineKept, Holds, ByteKept

\* The same after a step.
LEMMA LineInvSplitNext ==
  LineInv' <=> /\ TypeOK'
               /\ line' \in [Term -> Seq(Chars)]
               /\ \A t \in Term : Holds(t)'
  BY DEF LineInv, LineKept, Holds, ByteKept

\* A byte and a character that do not change stay as they were.
LEMMA ByteStays ==
  ASSUME NEW t \in Term, NEW i \in 1 .. BUFSIZE, ByteKept(t, i),
         tbuf'[Address(t, i - 1)] = tbuf[Address(t, i - 1)],
         line'[t][i] = line[t][i], pc[t] = "reset" => pc'[t] = "reset"
  PROVE  ByteKept(t, i)'
  BY DEF ByteKept

\* insert adds the byte to the line of the terminal on display, or, when that
\* is full, to none.
LEMMA InsertKeeps ==
  ASSUME LineInv, NEW c \in Letter \cup {Newline}, insert(c)
  PROVE  LineInv'
<1> DEFINE k == currentTerminal
<1> USE LineAssumption
<1>1. /\ TypeOK /\ line \in [Term -> Seq(Chars)] /\ k \in Term
      /\ \A t \in Term : Holds(t)
  BY LineInvSplit DEF TypeOK
<1>2. /\ tbuf' = [tbuf EXCEPT ![Address(k, idx[k])] = c]
      /\ idx' = [idx EXCEPT ![k] = @ + 1] /\ idx[k] < BUFSIZE
      /\ line' = [line EXCEPT ![k] = IF k \in astray THEN @
                                     ELSE Append(line[k], c)]
      /\ UNCHANGED <<pc, nbytes, copied, set, currentTerminal, masked, astray>>
  BY DEF insert, reader, HasRoom, Edited
<1>3. TypeOK'
  <2>1. tbuf' \in [Memory -> Letter \cup {Newline, Nul}]
    BY <1>1, <1>2 DEF TypeOK
  <2>2. idx' \in [Term -> 0 .. BUFSIZE]
    BY <1>1, <1>2 DEF TypeOK
  <2> QED
    BY <1>1, <1>2, <2>1, <2>2 DEF TypeOK
<1>4. c \in Chars
  BY DEF Chars
<1>5. line' \in [Term -> Seq(Chars)]
  BY <1>1, <1>2, <1>4
<1>6. ASSUME NEW t \in Term, t \notin astray
      PROVE  Len(line'[t]) = idx'[t] /\ \A i \in 1 .. idx'[t] : ByteKept(t, i)'
  <2>1. Len(line[t]) = idx[t] /\ \A i \in 1 .. idx[t] : ByteKept(t, i)
    BY <1>1, <1>6 DEF Holds
  <2>2. Len(line'[t]) = idx'[t]
    BY <1>1, <1>2, <1>4, <1>6, <2>1 DEF TypeOK
  <2>3. ASSUME NEW i \in 1 .. idx'[t]
        PROVE  ByteKept(t, i)'
    <3>1. /\ idx[t] \in 0 .. BUFSIZE /\ idx[k] \in 0 .. BUFSIZE - 1
          /\ i - 1 \in 0 .. BUFSIZE - 1 /\ DOMAIN tbuf = Memory
          /\ idx'[t] \in 0 .. BUFSIZE /\ i \in 1 .. BUFSIZE
      BY <1>1, <1>2 DEF TypeOK
    <3>2. Address(t, i - 1) \in Memory
      BY <3>1, MemoryAddress
    <3>3. CASE t = k /\ i = idx[t] + 1
      <4>1. tbuf'[Address(t, i - 1)] = c
        BY <1>2, <3>1, <3>2, <3>3
      <4>2. line'[t] = Append(line[t], c) /\ line[t] \in Seq(Chars)
        BY <1>1, <1>2, <1>6, <3>3
      <4>3. line'[t][i] = c
        BY <1>4, <2>1, <3>3, <4>2
      <4> QED
        BY <4>1, <4>3 DEF ByteKept
    <3>4. CASE ~(t = k /\ i = idx[t] + 1)
      <4>1. i \in 1 .. idx[t]
        BY <1>1, <1>2, <3>1, <3>4 DEF TypeOK
      <4>2. line'[t][i] = line[t][i]
        <5>1. line[t] \in Seq(Chars)
          BY <1>1
        <5>2. line'[t] = line[t] \/ line'[t] = Append(line[t], c)
          BY <1>1, <1>2
        <5>3. i \in 1 .. Len(line[t])
          BY <2>1, <4>1
        <5> QED
          BY <1>4, <5>1, <5>2, <5>3
      <4>3. Address(t, i - 1) # Address(k, idx[k])
        BY <1>1, <3>1, <3>4, <4>1, AddressInjective
      <4>4. tbuf'[Address(t, i - 1)] = tbuf[Address(t, i - 1)]
        BY <1>2, <4>3
      <4> QED
        BY <1>2, <2>1, <3>1, <4>1, <4>2, <4>4, ByteStays
    <3> QED
      BY <3>3, <3>4
  <2> QED
    BY <2>2, <2>3
<1>7. ASSUME NEW t \in Term
      PROVE  Holds(t)'
  BY <1>2, <1>6 DEF Holds
<1> QED
  BY <1>3, <1>5, <1>7, LineInvSplitNext

\* backspacebuf shortens that line, and on an empty one clears only the byte
\* that LineKept leaves out.
LEMMA BackspaceKeeps ==
  ASSUME LineInv, backspacebuf
  PROVE  LineInv'
<1> DEFINE k == currentTerminal
<1> USE LineAssumption
<1>1. /\ TypeOK /\ line \in [Term -> Seq(Chars)] /\ k \in Term
      /\ \A t \in Term : Holds(t)
  BY LineInvSplit DEF TypeOK
<1>2. /\ tbuf' = [tbuf EXCEPT ![Address(k, idx[k] - 1)] = Nul]
      /\ idx' = [idx EXCEPT ![k] = IF @ > 0 THEN @ - 1 ELSE @]
      /\ line' = [line EXCEPT ![k] = IF k \in astray THEN @
                                     ELSE Shorter(line[k])]
      /\ UNCHANGED <<pc, nbytes, copied, set, currentTerminal, masked, astray>>
  BY DEF backspacebuf, reader, Edited
<1>3. TypeOK'
  <2>1. tbuf' \in [Memory -> Letter \cup {Newline, Nul}]
    BY <1>1, <1>2 DEF TypeOK
  <2>2. idx' \in [Term -> 0 .. BUFSIZE]
    BY <1>1, <1>2 DEF TypeOK
  <2> QED
    BY <1>1, <1>2, <2>1, <2>2 DEF TypeOK
<1>4. line' \in [Term -> Seq(Chars)]
  BY <1>1, <1>2, ShorterLine
<1>5. ASSUME NEW t \in Term, t \notin astray
      PROVE  Len(line'[t]) = idx'[t] /\ \A i \in 1 .. idx'[t] : ByteKept(t, i)'
  <2>1. Len(line[t]) = idx[t] /\ \A i \in 1 .. idx[t] : ByteKept(t, i)
    BY <1>1, <1>5 DEF Holds
  <2>2. Len(line'[t]) = idx'[t]
    <3>1. CASE t = k
      <4>1. line'[t] = Shorter(line[t]) /\ line[t] \in Seq(Chars)
        BY <1>1, <1>2, <1>5, <3>1
      <4>2. Len(Shorter(line[t])) = IF Len(line[t]) > 0 THEN Len(line[t]) - 1
                                    ELSE 0
        BY <4>1, ShorterLine
      <4>3. idx'[t] = (IF idx[t] > 0 THEN idx[t] - 1 ELSE idx[t])
            /\ idx[t] \in Nat
        BY <1>1, <1>2, <3>1 DEF TypeOK
      <4> QED
        BY <2>1, <4>1, <4>2, <4>3
    <3>2. CASE t # k
      BY <1>1, <1>2, <2>1, <3>2 DEF TypeOK
    <3> QED
      BY <3>1, <3>2
  <2>3. ASSUME NEW i \in 1 .. idx'[t]
        PROVE  ByteKept(t, i)'
    <3>1. /\ idx[t] \in 0 .. BUFSIZE /\ idx[k] \in 0 .. BUFSIZE
          /\ i - 1 \in 0 .. BUFSIZE - 1 /\ DOMAIN tbuf = Memory
          /\ i \in 1 .. idx[t] /\ i \in 1 .. BUFSIZE
      BY <1>1, <1>2 DEF TypeOK
    <3>2. Address(t, i - 1) \in Memory
      BY <3>1, MemoryAddress
    <3>3. line'[t][i] = line[t][i]
      <4>1. CASE t = k
        <5>1. line'[t] = Shorter(line[t]) /\ line[t] \in Seq(Chars)
          BY <1>1, <1>2, <1>5, <4>1
        <5>2. i \in 1 .. Len(line[t]) - 1
          BY <1>1, <1>2, <2>1, <3>1, <4>1 DEF TypeOK
        <5> QED
          BY <5>1, <5>2, ShorterLine
      <4>2. CASE t # k
        BY <1>1, <1>2, <4>2
      <4> QED
        BY <4>1, <4>2
    <3>4. CASE Address(t, i - 1) = Address(k, idx[k] - 1)
      <4>1. CASE idx[k] = 0
        <5>1. Address(k, -1) = Address(t, i - 1)
          BY <3>4, <4>1
        <5>2. i = BUFSIZE
          BY <1>1, <3>1, <5>1, AddressBefore
        <5>3. tbuf'[Address(t, i - 1)] = Nul
          BY <1>2, <3>1, <3>2, <3>4
        <5> QED
          BY <5>2, <5>3 DEF ByteKept
      <4>2. CASE idx[k] > 0
        <5>1. idx[k] - 1 \in 0 .. BUFSIZE - 1
          BY <3>1, <4>2
        <5>2. t = k /\ i - 1 = idx[k] - 1
          BY <1>1, <3>1, <3>4, <5>1, AddressInjective
        <5> QED
          BY <1>1, <1>2, <3>1, <4>2, <5>2 DEF TypeOK
      <4> QED
        BY <3>1, <4>1, <4>2
    <3>5. CASE Address(t, i - 1) # Address(k, idx[k] - 1)
      <4>1. tbuf'[Address(t, i - 1)] = tbuf[Address(t, i - 1)]
        BY <1>2, <3>5
      <4> QED
        BY <1>2, <2>1, <3>1, <3>3, <4>1, ByteStays
    <3> QED
      BY <3>4, <3>5
  <2> QED
    BY <2>2, <2>3
<1>6. ASSUME NEW t \in Term
      PROVE  Holds(t)'
  BY <1>2, <1>5 DEF Holds
<1> QED
  BY <1>3, <1>4, <1>6, LineInvSplitNext

\* Wiping the buffer of one terminal leaves the others as they are.
LEMMA WipedOthers ==
  ASSUME NEW r \in Term, TypeOK
  PROVE  /\ Wiped(r) \in [Memory -> Letter \cup {Newline, Nul}]
         /\ \A t \in Term, i \in 0 .. BUFSIZE - 1 :
              IF t = r THEN Wiped(r)[Address(t, i)] = Nul
              ELSE Wiped(r)[Address(t, i)] = tbuf[Address(t, i)]
<1>1. Wiped(r) \in [Memory -> Letter \cup {Newline, Nul}]
  BY DEF Wiped, TypeOK
<1>2. ASSUME NEW t \in Term, NEW i \in 0 .. BUFSIZE - 1, t # r
      PROVE  Wiped(r)[Address(t, i)] = tbuf[Address(t, i)]
  <2>1. Address(t, i) \in Memory
    BY MemoryAddress
  <2>2. Address(t, i) \notin Buffer(r)
    <3> SUFFICES ASSUME Address(t, i) \in Address(r, 0) .. Address(r, BUFSIZE - 1)
                 PROVE  FALSE
      BY DEF Buffer
    <3>1. BUFSIZE \in Nat /\ (r - 1) * BUFSIZE \in Int
          /\ (t - 1) * BUFSIZE \in Int
      BY LineAssumption DEF Term
    <3> DEFINE j == Address(t, i) - (r - 1) * BUFSIZE
    <3>2. j \in 0 .. BUFSIZE - 1 /\ Address(t, i) = Address(r, j)
      BY <3>1 DEF Address
    <3> HIDE DEF j
    <3> QED
      BY <1>2, <3>2, AddressInjective
  <2> QED
    BY <2>1, <2>2 DEF Wiped
<1>3. ASSUME NEW i \in 0 .. BUFSIZE - 1
      PROVE  Wiped(r)[Address(r, i)] = Nul
  <2>1. Address(r, i) \in Memory
    BY MemoryAddress
  <2>2. Address(r, i) \in Buffer(r)
    <3>1. BUFSIZE \in Nat /\ (r - 1) * BUFSIZE \in Int
      BY LineAssumption DEF Term
    <3> QED
      BY <3>1 DEF Address, Buffer
  <2> QED
    BY <2>1, <2>2 DEF Wiped
<1> QED
  BY <1>1, <1>2, <1>3

\* A terminal whose index, line and buffer stay keeps its line.
LEMMA OtherKeeps ==
  ASSUME TypeOK, NEW t \in Term, Holds(t), t \in astray => t \in astray',
         idx'[t] = idx[t], line'[t] = line[t],
         pc[t] = "reset" => pc'[t] = "reset",
         \A i \in 0 .. BUFSIZE - 1 :
           tbuf'[Address(t, i)] = tbuf[Address(t, i)]
  PROVE  Holds(t)'
<1> SUFFICES ASSUME t \notin astray'
             PROVE  /\ Len(line'[t]) = idx'[t]
                    /\ \A i \in 1 .. idx'[t] : ByteKept(t, i)'
  BY DEF Holds
<1>1. Len(line[t]) = idx[t] /\ \A i \in 1 .. idx[t] : ByteKept(t, i)
  BY DEF Holds
<1>2. ASSUME NEW i \in 1 .. idx[t]
      PROVE  ByteKept(t, i)'
  <2>1. i - 1 \in 0 .. BUFSIZE - 1 /\ i \in 1 .. BUFSIZE
    BY LineAssumption DEF TypeOK
  <2> QED
    BY <1>1, <2>1, ByteStays
<1> QED
  BY <1>1, <1>2

\* A line that is empty, in the buffer and for its user, is kept.
LEMMA EmptyKept ==
  ASSUME NEW t \in Term, idx'[t] = 0, line'[t] = <<>>
  PROVE  Holds(t)'
  BY DEF Holds

\* Ctrl-L and Alt-Fn: both terminals concerned are empty or astray.
LEMMA ClearKeeps ==
  ASSUME LineInv, NEW r \in Term, clearbuf(r)
  PROVE  LineInv'
<1> DEFINE k == currentTerminal
<1>1. /\ TypeOK /\ line \in [Term -> Seq(Chars)] /\ k \in Term
      /\ \A t \in Term : Holds(t)
  BY LineInvSplit DEF TypeOK
<1>2. /\ tbuf' = Wiped(r) /\ idx' = [idx EXCEPT ![r] = 0]
      /\ line' = [line EXCEPT ![r] = <<>>, ![k] = <<>>]
      /\ astray' = IF r = k THEN astray \ {k}
                   ELSE astray \cup {u \in {r, k} : idx[u] # 0}
      /\ UNCHANGED <<pc, nbytes, copied, set, currentTerminal, masked>>
  BY DEF clearbuf, reader
<1>3. TypeOK'
  <2>1. idx' \in [Term -> 0 .. BUFSIZE]
    BY <1>1, <1>2, LineAssumption DEF TypeOK
  <2>2. astray' \subseteq Term
    BY <1>1, <1>2 DEF TypeOK
  <2> QED
    BY <1>1, <1>2, <2>1, <2>2, WipedOthers DEF TypeOK
<1>4. line' \in [Term -> Seq(Chars)]
  <2>1. <<>> \in Seq(Chars)
    OBVIOUS
  <2> QED
    BY <1>1, <1>2, <2>1
<1>5. ASSUME NEW t \in Term
      PROVE  Holds(t)'
  <2>1. CASE t = r
    <3>1. idx'[t] = 0 /\ line'[t] = <<>>
      BY <1>1, <1>2, <2>1 DEF TypeOK
    <3> QED
      BY <3>1, EmptyKept
  <2>2. CASE t = k /\ t # r
    <3>1. CASE idx[t] # 0
      <4>1. t \in astray'
        BY <1>2, <2>2, <3>1
      <4> QED
        BY <4>1 DEF Holds
    <3>2. CASE idx[t] = 0
      <4>1. idx'[t] = 0 /\ line'[t] = <<>>
        BY <1>1, <1>2, <2>2, <3>2 DEF TypeOK
      <4> QED
        BY <4>1, EmptyKept
    <3> QED
      BY <3>1, <3>2
  <2>3. CASE t # k /\ t # r
    <3>1. /\ idx'[t] = idx[t] /\ line'[t] = line[t] /\ pc'[t] = pc[t]
          /\ t \in astray => t \in astray'
      BY <1>1, <1>2, <2>3 DEF TypeOK
    <3>2. \A i \in 0 .. BUFSIZE - 1 :
            tbuf'[Address(t, i)] = tbuf[Address(t, i)]
      BY <1>1, <1>2, <2>3, WipedOthers
    <3> QED
      BY <1>1, <3>1, <3>2, OtherKeeps
  <2> QED
    BY <2>1, <2>2, <2>3
<1> QED
  BY <1>3, <1>4, <1>5, LineInvSplitNext

\* A step of a reader that leaves the buffers alone.
LEMMA ReaderKeeps ==
  ASSUME LineInv, NEW t \in Term, pc[t] # "reset", NEW step,
         pc' = [pc EXCEPT ![t] = step], UNCHANGED buffers, TypeOK'
  PROVE  LineInv'
<1>1. /\ TypeOK /\ line \in [Term -> Seq(Chars)]
      /\ \A u \in Term : Holds(u)
  BY LineInvSplit
<1>2. ASSUME NEW u \in Term
      PROVE  Holds(u)'
  <2>1. pc[u] = "reset" => pc'[u] = "reset"
    BY <1>1 DEF TypeOK
  <2> QED
    BY <1>1, <2>1, OtherKeeps DEF buffers
<1> QED
  BY <1>1, <1>2, LineInvSplitNext DEF buffers

-----------------------------------------------------------------------------
\* Type correctness of the steps of tRead.
LEMMA ReaderTyped ==
  ASSUME TypeOK, NEW t \in Term, NEW step \in Steps,
         masked \in {Nobody, t}, pc' = [pc EXCEPT ![t] = step],
         masked' \in {masked, Nobody, t},
         masked' = t => step \in {"full", "key", "finish", "newline", "copy"},
         set' \in {0, 1}, currentTerminal' = currentTerminal,
         tbuf' \in [Memory -> Letter \cup {Newline, Nul}],
         idx' \in [Term -> 0 .. BUFSIZE], astray' \subseteq astray,
         nbytes' \in [Term -> Counts \cup {0}]
  PROVE  TypeOK'
<1>1. pc' \in [Term -> Steps] /\ pc'[t] = step
  BY DEF TypeOK
<1>2. masked' \in {Nobody, t}
  OBVIOUS
<1> QED
  BY <1>1, <1>2 DEF TypeOK

\* Every step of a tRead, the loop for a full buffer included, keeps the
\* lines as they were typed.
LEMMA ReadKeeps ==
  ASSUME LineInv, NEW t \in Term,
         \/ \E n \in Counts : tRead(t, n)
         \/ ReadStep(t) \/ FullKey(t) \/ FullSpecial(t)
  PROVE  LineInv'
<1> USE DEF Runs, GoTo, Steps
<1>0. /\ TypeOK /\ 0 \in 0 .. BUFSIZE
      /\ tbuf \in [Memory -> Letter \cup {Newline, Nul}]
      /\ idx \in [Term -> 0 .. BUFSIZE]
      /\ nbytes \in [Term -> Counts \cup {0}]
      /\ set \in {0, 1} /\ masked \in Term \cup {Nobody}
      /\ t # Nobody
      /\ masked = t =>
           pc[t] \in {"full", "key", "finish", "newline", "copy"}
  BY LineAssumption DEF LineInv, TypeOK, Term, Nobody
<1>a. line \in [Term -> Seq(Chars)] /\ \A u \in Term : Holds(u)
  BY LineInvSplit
<1>1. CASE \E n \in Counts : tRead(t, n)
  <2> PICK n \in Counts : tRead(t, n)
    BY <1>1
  <2>1. TypeOK'
    BY <1>0, ReaderTyped, WipedOthers DEF tRead
  <2>2. ASSUME NEW u \in Term
        PROVE  Holds(u)'
    <3>1. CASE u = t
      <4> SUFFICES ASSUME u \notin astray
                   PROVE  /\ Len(line[u]) = idx[u]
                          /\ \A i \in 1 .. idx[u] : ByteKept(u, i)'
        BY DEF tRead, Holds
      <4>1. Len(line[u]) = idx[u]
        BY <1>a DEF Holds
      <4>2. ASSUME NEW i \in 1 .. idx[u]
            PROVE  ByteKept(u, i)'
        <5>1. i - 1 \in 0 .. BUFSIZE - 1
          BY <1>0, LineAssumption
        <5>2. tbuf'[Address(u, i - 1)] = Nul
          BY <1>0, <3>1, <5>1, WipedOthers DEF tRead
        <5>3. pc'[u] = "reset"
          BY <1>0, <3>1 DEF tRead, TypeOK
        <5> QED
          BY <5>2, <5>3 DEF ByteKept
      <4> QED
        BY <4>1, <4>2
    <3>2. CASE u # t
      <4>1. /\ idx'[u] = idx[u] /\ line'[u] = line[u] /\ pc'[u] = pc[u]
            /\ astray' = astray
        BY <1>0, <3>2 DEF tRead, TypeOK
      <4>2. \A i \in 0 .. BUFSIZE - 1 :
              tbuf'[Address(u, i)] = tbuf[Address(u, i)]
        BY <1>0, <3>2, WipedOthers DEF tRead
      <4> QED
        BY <1>0, <1>a, <4>1, <4>2, OtherKeeps
    <3> QED
      BY <3>1, <3>2
  <2> QED
    BY <1>a, <2>1, <2>2, LineInvSplitNext DEF tRead
<1>3. CASE ReadReset(t)
  <2>1. idx' \in [Term -> 0 .. BUFSIZE]
    BY <1>0, <1>3 DEF ReadReset
  <2>2. TypeOK'
    BY <1>0, <1>3, <2>1, ReaderTyped DEF ReadReset
  <2>3. line' \in [Term -> Seq(Chars)]
    <3>1. <<>> \in Seq(Chars)
      OBVIOUS
    <3> QED
      BY <1>3, <1>a, <3>1 DEF ReadReset
  <2>4. ASSUME NEW u \in Term
        PROVE  Holds(u)'
    <3>1. CASE u = t
      BY <1>0, <1>3, <1>a, <3>1, EmptyKept DEF ReadReset
    <3>2. CASE u # t
      <4>1. /\ idx'[u] = idx[u] /\ line'[u] = line[u] /\ pc'[u] = pc[u]
            /\ u \in astray => u \in astray'
            /\ tbuf' = tbuf
        BY <1>0, <1>3, <1>a, <3>2 DEF ReadReset, TypeOK
      <4> QED
        BY <1>0, <1>a, <4>1, OtherKeeps
    <3> QED
      BY <3>1, <3>2
  <2> QED
    BY <2>2, <2>3, <2>4, LineInvSplitNext
<1>4. CASE ReadPoll(t) \/ ReadMask(t)
  <2>1. TypeOK'
    BY <1>0, <1>4, ReaderTyped DEF ReadPoll, ReadMask, buffers
  <2> QED
    BY <1>4, <2>1, ReaderKeeps DEF ReadPoll, ReadMask
<1>5. CASE FullEnds(t) \/ FullMask(t) \/ FullGoesOn(t) \/ FullFinish(t)
  <2>1. TypeOK'
    BY <1>0, <1>5, ReaderTyped
       DEF FullEnds, FullMask, FullGoesOn, FullFinish, buffers
  <2> QED
    BY <1>5, <2>1, ReaderKeeps
       DEF FullEnds, FullMask, FullGoesOn, FullFinish
<1>6. CASE FullKey(t) \/ FullSpecial(t)
  <2>1. TypeOK'
    BY <1>0, <1>6, ReaderTyped DEF FullKey, FullSpecial, buffers
  <2> QED
    BY <1>6, <2>1, ReaderKeeps DEF FullKey, FullSpecial
<1>7. CASE CopySome(t) \/ CopyLine(t) \/ ReturnCount(t)
  <2>1. nbytes' \in [Term -> Counts \cup {0}]
    BY <1>0, <1>7 DEF CopySome, CopyLine, ReturnCount
  <2>2. TypeOK'
    BY <1>0, <1>7, <2>1, ReaderTyped
       DEF CopySome, CopyLine, ReturnCount, buffers
  <2> QED
    BY <1>7, <2>2, ReaderKeeps DEF CopySome, CopyLine, ReturnCount
<1>9. CASE FullNewline(t)
  <2>2. TypeOK'
    BY <1>0, <1>9, ReaderTyped DEF FullNewline
  <2>3. Newline \in Chars
    BY DEF Chars
  <2>4. line' = [line EXCEPT ![t] =
                   IF Len(line[t]) = BUFSIZE
                     THEN [line[t] EXCEPT ![BUFSIZE] = Newline]
                     ELSE line[t]]
        /\ line[t] \in Seq(Chars)
    BY <1>9, <1>a DEF FullNewline
  <2>5. line' \in [Term -> Seq(Chars)]
    <3>1. ASSUME NEW s \in Seq(Chars)
          PROVE  [s EXCEPT ![BUFSIZE] = Newline] \in Seq(Chars)
      <4>1. s \in [1 .. Len(s) -> Chars] /\ Len(s) \in Nat
        OBVIOUS
      <4>2. [s EXCEPT ![BUFSIZE] = Newline] \in [1 .. Len(s) -> Chars]
        BY <2>3, <4>1
      <4> QED
        BY <4>1, <4>2
    <3> QED
      BY <1>a, <2>4, <3>1
  <2>6. ASSUME NEW u \in Term, u \notin astray
        PROVE  Len(line'[u]) = idx[u] /\ \A i \in 1 .. idx[u] : ByteKept(u, i)'
    <3>1. Len(line[u]) = idx[u] /\ \A i \in 1 .. idx[u] : ByteKept(u, i)
      BY <1>a, <2>6 DEF Holds
    <3>2. Len(line'[u]) = idx[u]
      BY <1>a, <2>3, <2>4, <3>1
    <3>3. ASSUME NEW i \in 1 .. idx[u]
          PROVE  ByteKept(u, i)'
      <4>1. /\ i \in 1 .. BUFSIZE /\ i - 1 \in 0 .. BUFSIZE - 1
            /\ BUFSIZE - 1 \in 0 .. BUFSIZE - 1 /\ BUFSIZE \in Nat
            /\ pc[u] = "reset" => pc'[u] = "reset"
            /\ tbuf' = [tbuf EXCEPT ![Address(t, BUFSIZE - 1)] = Newline]
        BY <1>0, <1>9, LineAssumption DEF FullNewline, TypeOK
      <4>2. CASE u = t /\ i = BUFSIZE
        <5>1. Len(line[t]) = BUFSIZE
          BY <1>0, <3>1, <4>1, <4>2
        <5>2. line'[u][i] = Newline
          BY <1>a, <2>4, <4>1, <4>2, <5>1
        <5>3. tbuf'[Address(u, i - 1)] = Newline
          BY <1>0, <4>1, <4>2, MemoryAddress
        <5> QED
          BY <5>2, <5>3 DEF ByteKept
      <4>3. CASE ~(u = t /\ i = BUFSIZE)
        <5>1. Address(u, i - 1) # Address(t, BUFSIZE - 1)
          BY <4>1, <4>3, AddressInjective
        <5>2. tbuf'[Address(u, i - 1)] = tbuf[Address(u, i - 1)]
          BY <4>1, <5>1
        <5>3. line'[u][i] = line[u][i]
          BY <1>a, <2>4, <4>1, <4>3
        <5> QED
          BY <3>1, <4>1, <5>2, <5>3, ByteStays
      <4> QED
        BY <4>2, <4>3
    <3> QED
      BY <3>2, <3>3
  <2>7. ASSUME NEW u \in Term
        PROVE  Holds(u)'
    BY <1>9, <2>6 DEF FullNewline, Holds
  <2> QED
    BY <2>2, <2>5, <2>7, LineInvSplitNext
<1> QED
  BY <1>1, <1>3, <1>4, <1>5, <1>6, <1>7, <1>9 DEF ReadStep

\* Every step keeps the lines.
LEMMA LineStep ==
  ASSUME LineInv, [Next]_vars
  PROVE  LineInv'
<1>1. CASE \E c \in Letter \cup {Newline} : insert(c)
  BY <1>1, InsertKeeps
<1>2. CASE backspacebuf
  BY <1>2, BackspaceKeeps
<1>3. CASE \E r \in Term : clearbuf(r)
  BY <1>3, ClearKeeps
<1>4. CASE \E t \in Term : screenChange(t)
  BY <1>4 DEF screenChange, buffers, reader, LineInv, TypeOK, LineKept
<1>5. CASE \E t \in Term : \/ \E n \in Counts : tRead(t, n)
                           \/ ReadStep(t) \/ FullKey(t) \/ FullSpecial(t)
  BY <1>5, ReadKeeps
<1>6. CASE UNCHANGED vars
  BY <1>6 DEF vars, buffers, reader, LineInv, TypeOK, LineKept
<1> QED
  BY <1>1, <1>2, <1>3, <1>4, <1>5, <1>6 DEF Next, Key

\* All lines are empty at the start.
LEMMA LineInit ==
  ASSUME Init
  PROVE  LineInv
<1>1. TypeOK
  BY LineAssumption DEF Init, TypeOK, Term, Steps, Nobody
<1>2. /\ line \in [Term -> Seq(Chars)]
      /\ \A t \in Term : Len(line[t]) = 0 /\ idx[t] = 0
  BY DEF Init
<1> QED
  BY <1>1, <1>2 DEF LineInv, LineKept

\* The line buffers keep the inductive invariant.
THEOREM LineInvariant == Spec => []LineInv
  BY LineInit, LineStep, PTL DEF Spec

\* Indices stay inside the buffers, and interrupts are off only inside the
\* part of tRead that switches them off.
THEOREM LineTyped == Spec => []TypeOK
<1>1. LineInv => TypeOK
  BY DEF LineInv
<1> QED
  BY <1>1, LineInvariant, PTL

\* The buffer of every terminal holds the line that its user typed there,
\* except while it has gone astray or is being wiped by tRead, and for a last
\* character that backspacebuf has set to 0 for the next terminal.
THEOREM LineAlwaysKept == Spec => []LineKept
<1>1. LineInv => LineKept
  BY DEF LineInv
<1> QED
  BY <1>1, LineInvariant, PTL
=============================================================================

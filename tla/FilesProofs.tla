---------------------------- MODULE FilesProofs ----------------------------
(***************************************************************************)
(* Proofs about Files, for any image that is made as ImageAssumption says, *)
(* any size of the blocks, any number of descriptors and any counts.       *)
(***************************************************************************)
EXTENDS Files, Arithmetic, TLAPS

Before == [buf |-> <<>>, returned |-> FALSE]

\* What the loop over the blocks has done after i of them, from what it had
\* done after i - 1: the recursive function that models it exists.
LEMMA Loop ==
  ASSUME NEW in, NEW offset, NEW length \in Nat
  PROVE  /\ Blocks(length) \in Nat \ {0}
         /\ Copied(in, offset, length)[0] = Before
         /\ \A i \in 1 .. Blocks(length) :
              Copied(in, offset, length)[i]
                = CopyBlock(in, offset, length,
                            Copied(in, offset, length)[i - 1], i)
<1> DEFINE C(b, i) == CopyBlock(in, offset, length, b, i)
           S == {n \in Nat :
                   \E g : g = [i \in 0 .. n |->
                                 IF i = 0 THEN Before ELSE C(g[i - 1], i)]}
           N == Blocks(length)
<1>0. N \in Nat \ {0}
  BY FilesAssumption DEF Blocks
<1> HIDE DEF C, N
<1>1. 0 \in S
  <2>1. [i \in 0 .. 0 |-> Before]
          = [i \in 0 .. 0 |->
               IF i = 0 THEN Before
               ELSE C([j \in 0 .. 0 |-> Before][i - 1], i)]
    OBVIOUS
  <2> QED
    BY <2>1
<1>2. ASSUME NEW n \in Nat, n \in S
      PROVE  n + 1 \in S
  <2>1. PICK g : g = [i \in 0 .. n |->
                        IF i = 0 THEN Before ELSE C(g[i - 1], i)]
    BY <1>2
  <2> DEFINE h == [i \in 0 .. n + 1 |->
                     IF i <= n THEN g[i] ELSE C(g[n], n + 1)]
  <2>2. h = [i \in 0 .. n + 1 |-> IF i = 0 THEN Before ELSE C(h[i - 1], i)]
    BY <2>1
  <2>3. n + 1 \in Nat
    OBVIOUS
  <2> HIDE DEF h
  <2> QED
    BY <2>2, <2>3
<1>3. N \in S
  <2> HIDE DEF S
  <2> QED
    BY <1>0, <1>1, <1>2, SetInduction
<1>4. \E g : g = [i \in 0 .. N |-> IF i = 0 THEN Before ELSE C(g[i - 1], i)]
  BY <1>3
<1> DEFINE f == Copied(in, offset, length)
<1>5. f = [i \in 0 .. N |-> IF i = 0 THEN Before ELSE C(f[i - 1], i)]
  BY <1>4 DEF Copied, C, N, Before
<1> HIDE DEF f
<1>6. f[0] = Before /\ \A i \in 1 .. N : f[i] = C(f[i - 1], i)
  BY <1>5, <1>0
<1> QED
  BY <1>0, <1>6 DEF f, C, N

B == BYTES_PER_BLOCK

\* how many bytes the first i blocks hold, from offset on
Capacity(offset, i) == IF i = 0 THEN 0 ELSE B * i - (offset % B)

\* What is true after i blocks of a read of n bytes: the buffer holds the m
\* bytes of the file that follow the offset, all n of them if the function
\* has returned, which it does only where the blocks hold as many, and all
\* that the blocks hold otherwise.
DoneWith(x, offset, n, i, b, m) ==
  /\ b.buf = [j \in 1 .. m |-> Content[x][offset + j]]
  /\ b.returned \in BOOLEAN
  /\ IF b.returned THEN m = n /\ n <= Capacity(offset, i)
                   ELSE m = Capacity(offset, i)

Done(x, offset, n, i, b) == \E m \in 0 .. n : DoneWith(x, offset, n, i, b, m)

\* The blocks that a read comes to are blocks of the file or the 0 after
\* them.
LEMMA InFile ==
  ASSUME NEW x \in DOMAIN Inode, NEW offset \in Nat, NEW n \in Nat \ {0},
         offset + n <= Inode[x].length, NEW i \in 1 .. Blocks(n)
  PROVE  LET k == (offset \div B) + i - 1
             block == Inode[x].data_block[(offset \div B) + i]
         IN /\ k \in Nat /\ B * k \in Nat
            /\ IF B * k < Inode[x].length
                 THEN /\ block \in DOMAIN Data \ {0}
                      /\ Data[block] = [j \in 1 .. B |-> Data[block][j]]
                 ELSE block = 0
<1> DEFINE q == offset \div B
           r == offset % B
           k == q + i - 1
           L == Inode[x].length
<1>1. B \in Nat \ {0} /\ L \in Nat
  BY FilesAssumption, ImageAssumption DEF B
<1>2. q \in Nat /\ r \in 0 .. B - 1 /\ offset = B * q + r
  BY <1>1
<1>3. i - 1 \in 0 .. n \div B /\ n \div B \in Nat
  BY <1>1 DEF Blocks, B
<1> HIDE DEF q, r, B, L
<1>4. k \in Nat /\ B * k \in Nat /\ B * k = B * q + B * (i - 1)
  BY <1>1, <1>2, <1>3
<1>5. B * (i - 1) <= n
  <2>1. n = B * (n \div B) + (n % B) /\ n % B >= 0
    BY <1>1
  <2>2. B * (n \div B) - B * (i - 1) = B * (n \div B - (i - 1))
    BY <1>1, <1>3
  <2>3. B * (n \div B - (i - 1)) >= 0
    BY <1>1, <1>3
  <2>4. n % B \in Int /\ B * (n \div B) \in Int /\ B * (i - 1) \in Int
    BY <1>1, <1>3
  <2> HIDE DEF k
  <2> QED
    BY <2>1, <2>2, <2>3, <2>4
<1>6. B * k <= L
  <2>1. B * q \in Int /\ B * (i - 1) \in Int
    BY <1>1, <1>2, <1>3
  <2> QED
    BY <1>1, <1>2, <1>4, <1>5, <2>1 DEF L
<1> HIDE DEF k
<1>7. k \in 0 .. L \div B
  <2> DEFINE Q == L \div B
             R == L % B
  <2>1. Q \in Nat /\ R \in 0 .. B - 1 /\ L = B * Q + R
    BY <1>1
  <2> HIDE DEF Q, R
  <2> SUFFICES ASSUME k > Q PROVE FALSE
    BY <1>4, <2>1 DEF Q
  <2>2. B * (k - Q) >= B
    <3>1. k - Q >= 1 /\ k - Q \in Int
      BY <1>4, <2>1
    <3>2. \A d \in Int : d >= 1 => B * d >= B
      BY <1>1
    <3> QED
      BY <3>1, <3>2
  <2>3. B * (k - Q) = B * k - B * Q /\ B * Q \in Int
    BY <1>1, <1>4, <2>1
  <2> QED
    BY <1>1, <1>4, <1>6, <2>1, <2>2, <2>3
<1>8. k * B = B * k /\ k + 1 = q + i
  BY <1>1, <1>2, <1>4 DEF k
<1>10. IF B * k < L THEN Inode[x].data_block[q + i] \in DOMAIN Data \ {0}
                   ELSE Inode[x].data_block[q + i] = 0
  BY <1>7, <1>8, ImageAssumption DEF L, B
<1> QED
  BY <1>4, <1>10, ImageAssumption DEF k, q, L, B

\* The bytes of a block are the bytes of the file.
LEMMA InBlock ==
  ASSUME NEW x \in DOMAIN Inode, NEW k \in Nat, NEW p \in 0 .. B - 1,
         B * k + p < Inode[x].length
  PROVE  Content[x][B * k + p + 1] = Data[Inode[x].data_block[k + 1]][p + 1]
<1>1. B \in Nat \ {0} /\ Inode[x].length \in Nat /\ B * k \in Nat
  BY FilesAssumption, ImageAssumption DEF B
<1>2. (B * k + p) % B = p /\ (B * k + p) \div B = k
  BY <1>1, DivMod
<1>3. B * k + p + 1 \in 1 .. Inode[x].length
      /\ (B * k + p + 1) - 1 = B * k + p
  BY <1>1
<1> QED
  BY <1>2, <1>3 DEF Content, B

\* One block of the loop keeps what is true of it.
LEMMA BlockCopied ==
  ASSUME NEW x \in DOMAIN Inode, NEW offset \in Nat, NEW n \in Nat \ {0},
         offset + n <= Inode[x].length, NEW i \in 1 .. Blocks(n),
         NEW b, Done(x, offset, n, i - 1, b)
  PROVE  Done(x, offset, n, i, CopyBlock(Inode[x], offset, n, b, i))
<1> DEFINE q == offset \div B
           r == offset % B
           k == q + i - 1
           L == Inode[x].length
           block == Inode[x].data_block[q + i]
           File(m) == [j \in 1 .. m |-> Content[x][offset + j]]
           start == IF i = 1 THEN r ELSE 0
           after == CopyBlock(Inode[x], offset, n, b, i)
<1>1. B \in Nat \ {0} /\ L \in Nat /\ i \in Nat \ {0}
  BY FilesAssumption, ImageAssumption DEF B
<1>2. q \in Nat /\ r \in 0 .. B - 1 /\ offset = B * q + r
  BY <1>1
<1>3. PICK m \in 0 .. n :
        /\ b.buf = File(m)
        /\ b.returned \in BOOLEAN
        /\ IF b.returned THEN m = n /\ n <= Capacity(offset, i - 1)
                         ELSE m = Capacity(offset, i - 1)
  BY DEF Done, DoneWith
<1>4. /\ k \in Nat /\ B * k \in Nat
      /\ IF B * k < L
           THEN /\ block \in DOMAIN Data \ {0}
                /\ Data[block] = [j \in 1 .. B |-> Data[block][j]]
           ELSE block = 0
  BY InFile DEF B
<1>5. b.buf = File(m) /\ Len(File(m)) = m
  <2>1. Elements(File(m), m)
    BY DEF Elements
  <2>2. m \in Nat
    OBVIOUS
  <2> HIDE DEF File
  <2> QED
    BY <1>3, <2>1, <2>2, Given
<1>6. start \in 0 .. B - 1 /\ FirstByte(offset, i) = start + 1
  BY <1>1, <1>2 DEF FirstByte, B
<1>7. B * k = B * q + B * (i - 1)
  BY <1>1, <1>2
<1>8. ~b.returned => offset + m = B * k + start
  <2> SUFFICES ASSUME ~b.returned
               PROVE  offset + m = B * k + start
    OBVIOUS
  <2>1. m = Capacity(offset, i - 1)
    BY <1>3
  <2>2. CASE i = 1
    BY <2>1, <2>2, <1>1, <1>2, <1>7 DEF Capacity
  <2>3. CASE i # 1
    <3>1. m = B * (i - 1) - r
      BY <2>1, <2>3 DEF Capacity
    <3>2. B * (i - 1) \in Int /\ B * q \in Int
      BY <1>1, <1>2
    <3> HIDE DEF r, q, k
    <3> QED
      BY <2>3, <3>1, <3>2, <1>2, <1>7
  <2> QED
    BY <2>2, <2>3
<1>9. Capacity(offset, i) = B * i - r
       /\ Capacity(offset, i) \in Int
       /\ Capacity(offset, i - 1) \in Int
       /\ Capacity(offset, i - 1) <= Capacity(offset, i)
  <2>1. B * i = B * (i - 1) + B /\ B * (i - 1) \in Int /\ B * i \in Int
    BY <1>1
  <2> HIDE DEF r, q, k
  <2>2. CASE i = 1
    <3>1. B * 1 = B
      BY <1>1
    <3> QED
      BY <2>2, <3>1, <1>1, <1>2 DEF Capacity, r
  <2>3. CASE i # 1
    BY <2>1, <2>3, <1>1, <1>2 DEF Capacity, r
  <2> QED
    BY <2>2, <2>3
<1> HIDE DEF q, r, k, L, block, start
<1>10. CASE b.returned
  <2>1. after = [buf |-> b.buf, returned |-> TRUE]
    BY <1>10 DEF CopyBlock
  <2> HIDE DEF File, after
  <2>2. after = [buf |-> File(m), returned |-> TRUE]
    BY <2>1, <1>5
  <2>3. n \in 0 .. n /\ after.returned = TRUE /\ m = n
        /\ n <= Capacity(offset, i)
    BY <2>2, <1>3, <1>9, <1>10
  <2>4. DoneWith(x, offset, n, i, after, n)
    BY <2>2, <2>3 DEF DoneWith, File
  <2> QED
    BY <2>3, <2>4 DEF Done, after
<1>11. CASE ~b.returned /\ block = 0
  <2>1. after = [buf |-> b.buf, returned |-> TRUE]
    BY <1>11 DEF CopyBlock, block, q, B
  <2> HIDE DEF File, after
  <2>2. after = [buf |-> File(m), returned |-> TRUE]
    BY <2>1, <1>5
  <2>3. B * k >= L
    BY <1>1, <1>4, <1>11
  <2>4. m = n
    BY <1>1, <1>4, <1>6, <1>8, <1>11, <2>3 DEF L
  <2>5. n \in 0 .. n /\ after.returned = TRUE /\ n <= Capacity(offset, i)
    BY <2>2, <2>4, <1>3, <1>9, <1>11
  <2>6. DoneWith(x, offset, n, i, after, n)
    BY <2>2, <2>4, <2>5 DEF DoneWith, File
  <2> QED
    BY <2>5, <2>6 DEF Done, after
<1>12. CASE ~b.returned /\ block # 0
  <2> DEFINE bytes == SubSeq(Data[block], FirstByte(offset, i), B)
             room == n - m
             p == B - start
             c == IF room <= p THEN room ELSE p
             D == Data[block]
  <2>1. Elements(D, B)
    BY <1>4, <1>12 DEF Elements
  <2>2. bytes = [j \in 1 .. p |-> D[start + j]]
    <3>1. SubSeq(D, start + 1, B)
            = [j \in 1 .. B - (start + 1) + 1 |-> D[start + 1 + j - 1]]
      <4> DEFINE a == start + 1
      <4>1. a \in Int /\ B \in Int /\ B \in Nat /\ 1 <= a /\ B <= B
        BY <1>1, <1>6
      <4> HIDE DEF D, a
      <4>2. SubSeq(D, a, B) = [j \in 1 .. B - a + 1 |-> D[a + j - 1]]
        BY <2>1, <4>1, Part
      <4> QED
        BY <4>2 DEF a
    <3>2. B - (start + 1) + 1 = p
          /\ \A j \in 1 .. p : start + 1 + j - 1 = start + j
      BY <1>1, <1>6
    <3> QED
      BY <3>1, <3>2, <1>6
  <2>3. p \in Nat \ {0} /\ room \in Nat /\ c \in Nat
    BY <1>1, <1>6
  <2>4. Elements(bytes, p)
    BY <2>2 DEF Elements
  <2> HIDE DEF bytes, p, room
  <2>5. Len(bytes) = p
    BY <2>3, <2>4, Given
  <2>6. First(bytes, room) = [j \in 1 .. c |-> D[start + j]]
    <3>1. Min({room, p}) = c
      BY <2>3, MinPair
    <3>2. First(bytes, room) = SubSeq(bytes, 1, c)
      BY <2>5, <3>1 DEF First
    <3>3. c <= p /\ c \in Int /\ p \in Nat
      BY <2>3
    <3> HIDE DEF c
    <3>4. SubSeq(bytes, 1, c) = [j \in 1 .. c - 1 + 1 |-> bytes[1 + j - 1]]
      BY <3>3, <2>4, Part
    <3>5. c - 1 + 1 = c /\ \A j \in 1 .. c : 1 + j - 1 = j /\ j \in 1 .. p
      BY <3>3
    <3> QED
      BY <3>2, <3>4, <3>5, <2>2
  <2>7. \A j \in 1 .. c : Content[x][offset + m + j] = D[start + j]
    <3> SUFFICES ASSUME NEW j \in 1 .. c
                 PROVE  Content[x][offset + m + j] = D[start + j]
      OBVIOUS
    <3> DEFINE a == start + j - 1
    <3>1. a \in 0 .. B - 1 /\ a + 1 = start + j
      BY <1>1, <1>6, <2>3 DEF p
    <3>2. B * k + a < L /\ offset + m + j = B * k + a + 1
      BY <1>1, <1>4, <1>6, <1>8, <1>12, <2>3 DEF L, room
    <3>3. Content[x][B * k + a + 1] = Data[Inode[x].data_block[k + 1]][a + 1]
      <4> HIDE DEF a
      <4> QED
        BY <3>1, <3>2, <1>4, InBlock DEF L
    <3>4. k + 1 = q + i
      BY <1>1, <1>2 DEF k
    <3> QED
      BY <3>1, <3>2, <3>3, <3>4 DEF block
  <2>8. File(m) \o First(bytes, room) = File(m + c)
    <3> DEFINE s == File(m)
               t == First(bytes, room)
               u == File(m + c)
    <3>1. m \in Nat /\ c \in Nat
      BY <2>3
    <3>2. Elements(s, m) /\ Elements(t, c) /\ Elements(u, m + c)
      BY <2>6 DEF Elements
    <3>3. \A j \in 1 .. m : u[j] = s[j]
      BY <3>1
    <3>4. ASSUME NEW j \in 1 .. c
          PROVE  u[m + j] = t[j]
      <4>1. m + j \in 1 .. m + c /\ offset + (m + j) = offset + m + j
        BY <1>1, <3>1
      <4>2. u[m + j] = Content[x][offset + m + j]
        BY <4>1
      <4>3. t[j] = D[start + j]
        BY <2>6
      <4> QED
        BY <4>2, <4>3, <2>7
    <3> HIDE DEF s, t, u, c
    <3>5. Join(s, t) = u
      BY <3>1, <3>2, <3>3, <3>4, IsJoin
    <3> QED
      BY <3>5 DEF Join, s, t, u
  <2>9. after = [buf |-> File(m + c), returned |-> p > room]
    <3>1. after = [buf |-> b.buf \o First(bytes, n - Len(b.buf)),
                   returned |-> Len(bytes) > n - Len(b.buf)]
      BY <1>12 DEF CopyBlock, bytes, block, q, B
    <3> QED
      BY <3>1, <1>5, <2>5, <2>8 DEF room
  <2>10. m + c \in 0 .. n
    BY <2>3 DEF room
  <2>11. m + p = Capacity(offset, i)
    <3>1. offset + m + p = B * k + B
      BY <1>1, <1>4, <1>6, <1>8, <1>12, <2>3 DEF p
    <3>2. B * k + B = B * q + B * i /\ B * i \in Int /\ B * q \in Int
      BY <1>1, <1>2 DEF k
    <3> HIDE DEF c
    <3> QED
      BY <3>1, <3>2, <1>2, <1>9, <2>3
  <2>12. (p > room) \in BOOLEAN
    OBVIOUS
  <2> HIDE DEF after, c
  <2>13. IF p > room THEN m + c = n /\ n <= Capacity(offset, i)
                     ELSE m + c = Capacity(offset, i)
    BY <2>3, <2>11 DEF c, room
  <2>14. DoneWith(x, offset, n, i, after, m + c)
    BY <2>9, <2>12, <2>13 DEF DoneWith
  <2> QED
    BY <2>10, <2>14 DEF Done, after
<1> QED
  BY <1>3, <1>10, <1>11, <1>12

\* What read_data delivers, exactly: the bytes that follow the offset, as
\* many as are asked for and left, n, or as the n / BYTES_PER_BLOCK + 1
\* blocks hold that the loop visits, if that is less.
LEMMA Delivers ==
  ASSUME NEW x \in DOMAIN Inode, NEW offset \in 0 .. Inode[x].length,
         NEW length \in Nat
  PROVE  LET left == Inode[x].length - offset
             n == IF left <= length THEN left ELSE length
             c == Capacity(offset, Blocks(n))
         IN /\ n \in Nat /\ c \in Int
            /\ read_data(x, offset, length)
                 = [j \in 1 .. IF n <= c THEN n ELSE c |->
                      Content[x][offset + j]]
            /\ c >= 1
            /\ offset % B = 0 => n <= c
<1> DEFINE L == Inode[x].length
           left == L - offset
           n == IF left <= length THEN left ELSE length
           N == Blocks(n)
           c == Capacity(offset, N)
           r == offset % B
           C == Copied(Inode[x], offset, n)
<1>1. B \in Nat \ {0} /\ L \in Nat /\ offset \in Nat
  BY FilesAssumption, ImageAssumption DEF B
<1>2. r \in 0 .. B - 1 /\ left \in Nat /\ n \in Nat /\ offset + n <= L
  BY <1>1
<1> HIDE DEF n
<1>3. N \in Nat \ {0} /\ N = n \div B + 1
  BY <1>1, <1>2 DEF Blocks, B
<1>4. c \in Int /\ c = B * N - r /\ B * N \in Int
  BY <1>1, <1>2, <1>3 DEF Capacity
<1> HIDE DEF L, r, N, c
<1>5. B * N >= B /\ B * N > n
  <2>1. n = B * (n \div B) + (n % B) /\ n % B \in 0 .. B - 1
        /\ n \div B \in Nat
    BY <1>1, <1>2
  <2>2. B * N = B * (n \div B) + B /\ B * (n \div B) \in Nat
    BY <1>1, <1>3, <2>1
  <2> QED
    BY <1>1, <1>2, <1>4, <2>1, <2>2
<1>6. c >= 1 /\ (r = 0 => n <= c)
  BY <1>1, <1>2, <1>4, <1>5
<1>7. read_data(x, offset, length)
        = [j \in 1 .. IF n <= c THEN n ELSE c |-> Content[x][offset + j]]
  <2>1. CASE n = 0
    <3>1. left = 0 \/ length = 0
      BY <2>1, <1>2 DEF n
    <3>2. read_data(x, offset, length) = <<>>
      BY <3>1 DEF read_data, L
    <3>3. (IF n <= c THEN n ELSE c) = 0
      BY <2>1, <1>4, <1>6
    <3> QED
      BY <3>2, <3>3
  <2>2. CASE n # 0
    <3> DEFINE S == {i \in Nat : i <= N => Done(x, offset, n, i, C[i])}
    <3>1. /\ C[0] = Before
          /\ \A i \in 1 .. N : C[i] = CopyBlock(Inode[x], offset, n, C[i - 1], i)
      BY <1>2, Loop DEF N
    <3> HIDE DEF C
    <3>2. 0 \in S
      <4>1. DoneWith(x, offset, n, 0, Before, 0)
        BY DEF DoneWith, Before, Capacity
      <4> QED
        BY <3>1, <4>1, <1>2 DEF Done
    <3>3. ASSUME NEW i \in Nat, i \in S
          PROVE  i + 1 \in S
      <4> SUFFICES ASSUME i + 1 <= N
                   PROVE  Done(x, offset, n, i + 1, C[i + 1])
        OBVIOUS
      <4>1. Done(x, offset, n, i, C[i])
        BY <3>3, <1>3
      <4>2. i + 1 \in 1 .. N /\ (i + 1) - 1 = i
        BY <1>3
      <4>3. Done(x, offset, n, i + 1,
                 CopyBlock(Inode[x], offset, n, C[i], i + 1))
        BY <1>1, <1>2, <2>2, <4>1, <4>2, BlockCopied DEF N, L
      <4> QED
        BY <3>1, <4>2, <4>3
    <3>4. Done(x, offset, n, N, C[N])
      <4>1. N \in S
        <5> HIDE DEF S
        <5> QED
          BY <1>3, <3>2, <3>3, SetInduction
      <4> QED
        BY <4>1, <1>3
    <3>5. PICK m \in 0 .. n : DoneWith(x, offset, n, N, C[N], m)
      BY <3>4 DEF Done
    <3>6. m = IF n <= c THEN n ELSE c
      BY <3>5, <1>2, <1>4 DEF DoneWith, c
    <3>7. read_data(x, offset, length) = C[N].buf
      <4>1. left # 0 /\ length # 0 /\ Min({left, length}) = n
        BY <2>2, <1>2, MinPair DEF n
      <4> QED
        BY <4>1 DEF read_data, CopyBlocks, C, N, L
    <3> QED
      BY <3>5, <3>6, <3>7 DEF DoneWith
  <2> QED
    BY <2>1, <2>2
<1> QED
  BY <1>2, <1>4, <1>6, <1>7 DEF n, c, N, L, r

-----------------------------------------------------------------------------
(***************************************************************************)
(* The invariant                                                           *)
(***************************************************************************)

Types == {"close", "term", "rtc", "file", "dir"}
Descriptors == [type : Types, inode : DOMAIN Inode, file_position : Nat]

\* what a descriptor is to deliver, and how much that is
Source(f) == IF f.type = "file" THEN Content[f.inode] ELSE Listing
Size(f) == IF f.type = "file" THEN Inode[f.inode].length ELSE Named

Upto(s, n) == [k \in 1 .. n |-> s[k]]

\* A descriptor has delivered its source up to its position.
InStep(f, g) ==
  IF f.type \in {"file", "dir"}
    THEN f.file_position <= Size(f) /\ g = Upto(Source(f), f.file_position)
    ELSE g = <<>>

FilesInv ==
  /\ file_array \in [Fd -> Descriptors]
  /\ got = [fd \in Fd |-> got[fd]]
  /\ \A fd \in Fd : InStep(file_array[fd], got[fd])
  /\ \A fd \in Fd \ Opened : file_array[fd].type \in {"close", "term"}
  /\ EmptyMeansEnd

\* sys_halt and sys_execute, as far as the descriptors see them
Halted ==
  /\ file_array' = [fd \in Fd |-> [file_array[fd] EXCEPT !.type = "close"]]
  /\ got' = [fd \in Fd |-> <<>>] /\ last' = NoRead

Entered ==
  /\ file_array' = [fd \in Fd |->
       IF fd < 2 THEN [file_array[fd] EXCEPT !.type = "term"]
       ELSE file_array[fd]]
  /\ UNCHANGED <<got, last>>

\* whatever programs do to the descriptors of a process
Served ==
  \/ \E name : sys_open(name)
  \/ \E fd \in Opened : sys_close(fd)
  \/ \E fd \in Opened, nbytes \in Int :
       /\ Unsigned(nbytes) \in Nat
       /\ reg_file_read(fd, nbytes) \/ dir_read(fd, nbytes)
  \/ Halted
  \/ Entered
  \/ UNCHANGED vars

\* The empty names begin where Listing ends.
LEMMA NamedRange ==
  /\ Named \in 0 .. Len(Dentry) - 1
  /\ DOMAIN Dentry = 1 .. Len(Dentry)
  /\ Len(Dentry) \in Nat
  /\ \A d \in DOMAIN Dentry : Dentry[d].name = NoName <=> d > Named
BY ImageAssumption DEF Named

\* The descriptors that open hands out are descriptors.
LEMMA OpenedInFd == Opened \subseteq Fd
BY FilesAssumption DEF Opened, Fd

\* Initially nothing is open but the terminal.
LEMMA FilesInit == Init => FilesInv
<1> SUFFICES ASSUME Init PROVE FilesInv
  OBVIOUS
<1>1. \A fd \in Fd :
        [type |-> IF fd < 2 THEN "term" ELSE "close", inode |-> 0,
         file_position |-> 0] \in Descriptors
  BY ImageAssumption DEF Descriptors, Types
<1>2. file_array \in [Fd -> Descriptors]
  BY <1>1 DEF Init
<1>3. \A fd \in Fd : InStep(file_array[fd], got[fd])
  BY DEF Init, InStep
<1>4. \A fd \in Fd : file_array[fd].type \in {"close", "term"}
  BY DEF Init
<1> QED
  BY <1>2, <1>3, <1>4 DEF Init, FilesInv, EmptyMeansEnd, NoRead

\* What it takes to change one descriptor.
LEMMA OneDescriptor ==
  ASSUME FilesInv, NEW fd \in Opened, NEW f \in Descriptors, NEW g,
         InStep(f, g),
         file_array' = [file_array EXCEPT ![fd] = f],
         got' = [got EXCEPT ![fd] = g],
         EmptyMeansEnd'
  PROVE  FilesInv'
<1>1. fd \in Fd
  BY OpenedInFd
<1>2. file_array' \in [Fd -> Descriptors]
      /\ \A e \in Fd : file_array'[e] = IF e = fd THEN f ELSE file_array[e]
  BY <1>1 DEF FilesInv
<1>3. got' = [e \in Fd |-> got'[e]]
      /\ \A e \in Fd : got'[e] = IF e = fd THEN g ELSE got[e]
  BY <1>1 DEF FilesInv
<1>4. \A e \in Fd : InStep(file_array'[e], got'[e])
  BY <1>2, <1>3 DEF FilesInv
<1>5. \A e \in Fd \ Opened : file_array'[e].type \in {"close", "term"}
  BY <1>2 DEF FilesInv
<1> QED
  BY <1>2, <1>3, <1>4, <1>5 DEF FilesInv

\* A descriptor that is opened is at the start of what it delivers.
LEMMA OpenKeeps ==
  ASSUME FilesInv, NEW name, sys_open(name)
  PROVE  FilesInv'
<1>1. PICK fd \in Opened, d \in read_dentry_by_name(name) :
        LET type == IF First(name, Len(Terminal)) = Terminal THEN "term"
                    ELSE Dentry[d].type
        IN
        /\ file_array' = [file_array EXCEPT ![fd] =
             [type |-> type,
              inode |-> IF type = "file" THEN Dentry[d].inode ELSE 0,
              file_position |-> 0]]
        /\ got' = [got EXCEPT ![fd] = <<>>]
        /\ UNCHANGED last
  BY DEF sys_open
<1> DEFINE type == IF First(name, Len(Terminal)) = Terminal THEN "term"
                   ELSE Dentry[d].type
           f == [type |-> type,
                 inode |-> IF type = "file" THEN Dentry[d].inode ELSE 0,
                 file_position |-> 0]
<1>2. d \in DOMAIN Dentry /\ fd \in Fd
  BY OpenedInFd DEF read_dentry_by_name
<1>3. type \in Types /\ f \in Descriptors
  BY <1>2, ImageAssumption DEF Types, Descriptors
<1>4. InStep(f, <<>>)
  <2>1. f.file_position = 0 /\ 0 <= Size(f)
    BY <1>3, ImageAssumption, NamedRange DEF Size, Descriptors
  <2>2. Upto(Source(f), 0) = <<>>
    BY DEF Upto
  <2> QED
    BY <2>1, <2>2 DEF InStep
<1> HIDE DEF f
<1>5. file_array' = [file_array EXCEPT ![fd] = f] /\ last' = last
      /\ got' = [got EXCEPT ![fd] = <<>>]
  BY <1>1 DEF f
<1>6. EmptyMeansEnd'
  BY <1>5 DEF FilesInv, EmptyMeansEnd
<1> QED
  BY <1>3, <1>4, <1>5, <1>6, OneDescriptor

\* A closed descriptor delivers nothing.
LEMMA CloseKeeps ==
  ASSUME FilesInv, NEW fd \in Opened, sys_close(fd)
  PROVE  FilesInv'
<1> DEFINE f == [file_array[fd] EXCEPT !.type = "close"]
<1>1. file_array' = [file_array EXCEPT ![fd] = f] /\ last' = last
      /\ got' = [got EXCEPT ![fd] = <<>>]
  BY DEF sys_close
<1>2. fd \in Fd /\ file_array[fd] \in Descriptors
  BY OpenedInFd DEF FilesInv
<1>3. f \in Descriptors /\ f.type = "close"
  BY <1>2 DEF Descriptors, Types
<1>4. InStep(f, <<>>)
  BY <1>3 DEF InStep
<1> HIDE DEF f
<1>5. EmptyMeansEnd'
  BY <1>1 DEF FilesInv, EmptyMeansEnd
<1> QED
  BY <1>1, <1>3, <1>4, <1>5, OneDescriptor

\* A read moves the position by what it delivers, and comes back with
\* nothing only at the end.
LEMMA FileReadKeeps ==
  ASSUME FilesInv, NEW fd \in Opened, NEW nbytes, Unsigned(nbytes) \in Nat,
         reg_file_read(fd, nbytes)
  PROVE  /\ FilesInv'
         /\ \E n \in Nat :
              /\ n <= Inode[file_array[fd].inode].length
              /\ file_array[fd].file_position <= n
              /\ got' = [got EXCEPT ![fd] =
                           Upto(Content[file_array[fd].inode], n)]
              /\ file_array' = [file_array EXCEPT ![fd] =
                           [file_array[fd] EXCEPT !.file_position = n]]
<1> DEFINE f == file_array[fd]
           x == f.inode
           at == f.file_position
           asked == Unsigned(nbytes)
           bytes == read_data(x, at, asked)
           L == Inode[x].length
           left == L - at
           n == IF left <= asked THEN left ELSE asked
           c == Capacity(at, Blocks(n))
           m == IF n <= c THEN n ELSE c
<1>1. /\ f.type = "file"
      /\ file_array' = [file_array EXCEPT ![fd].file_position = @ + Len(bytes)]
      /\ got' = [got EXCEPT ![fd] = @ \o bytes]
      /\ last' = [inode |-> x, at |-> at, asked |-> asked, bytes |-> bytes]
  BY DEF reg_file_read, AdvancePosition
<1>2. fd \in Fd /\ f \in Descriptors /\ InStep(f, got[fd])
  BY OpenedInFd DEF FilesInv
<1>3. x \in DOMAIN Inode /\ at \in Nat /\ L \in Nat /\ at <= L
      /\ got[fd] = Upto(Content[x], at)
  BY <1>1, <1>2, ImageAssumption DEF InStep, Descriptors, Size, Source
<1>4. n \in Nat /\ c \in Int /\ c >= 1
      /\ bytes = [j \in 1 .. m |-> Content[x][at + j]]
  <2> HIDE DEF x, at, asked
  <2>1. at \in 0 .. Inode[x].length
    BY <1>3
  <2>2. asked \in Nat
    BY DEF asked
  <2> QED
    BY <2>1, <2>2, <1>3, Delivers
<1> HIDE DEF c, x, at, asked, L
<1>5. m \in Nat /\ m <= left /\ (n # 0 => m # 0)
  BY <1>3, <1>4
<1> HIDE DEF m, n, bytes
<1>6. Elements(bytes, m) /\ Elements(Upto(Content[x], at), at)
  BY <1>4 DEF Elements, Upto
<1>7. Len(bytes) = m
  BY <1>5, <1>6, Given
<1>8. Upto(Content[x], at) \o bytes = Upto(Content[x], at + m)
  <2> DEFINE s == Upto(Content[x], at)
             u == Upto(Content[x], at + m)
  <2>1. Elements(s, at) /\ Elements(u, at + m) /\ Elements(bytes, m)
    BY <1>6 DEF Elements, Upto
  <2>2. \A k \in 1 .. at : u[k] = s[k]
    BY <1>3, <1>5 DEF Upto
  <2>3. ASSUME NEW k \in 1 .. m
        PROVE  u[at + k] = bytes[k]
    <3>1. at + k \in 1 .. at + m
      BY <1>3, <1>5
    <3> QED
      BY <1>4, <3>1 DEF Upto
  <2> HIDE DEF s, u
  <2>4. Join(s, bytes) = u
    BY <1>3, <1>5, <2>1, <2>2, <2>3, IsJoin
  <2> QED
    BY <2>4 DEF Join, s, u
<1> DEFINE h == [f EXCEPT !.file_position = at + m]
           g == Upto(Content[x], at + m)
<1>9. file_array' = [file_array EXCEPT ![fd] = h]
      /\ got' = [got EXCEPT ![fd] = g]
  <2>1. got' = [got EXCEPT ![fd] = got[fd] \o bytes]
    BY <1>1
  <2>2. file_array' = [file_array EXCEPT ![fd] =
                         [f EXCEPT !.file_position = f.file_position + Len(bytes)]]
    BY <1>1
  <2> QED
    BY <2>1, <2>2, <1>3, <1>7, <1>8 DEF at
<1>10. at + m \in Nat /\ at + m <= L /\ at <= at + m
  BY <1>3, <1>5
<1>11. h \in Descriptors /\ h.type = "file" /\ h.inode = x
       /\ h.file_position = at + m
  BY <1>1, <1>2, <1>10 DEF Descriptors, x
<1>12. InStep(h, g)
  BY <1>10, <1>11 DEF InStep, Size, Source, L
<1>13. EmptyMeansEnd'
  <2> SUFFICES ASSUME asked # 0, bytes = <<>>
               PROVE  at = L
    BY <1>1 DEF EmptyMeansEnd, L
  <2>1. Len(bytes) = 0
    OBVIOUS
  <2>2. n = 0
    BY <2>1, <1>5, <1>7
  <2>3. asked \in Nat
    BY DEF asked
  <2> QED
    BY <2>2, <2>3, <1>3 DEF n
<1>14. FilesInv'
  <2> HIDE DEF h, g
  <2> QED
    BY <1>9, <1>11, <1>12, <1>13, OneDescriptor
<1> QED
  BY <1>9, <1>10, <1>14 DEF x, at, L

\* The directory delivers its names one by one.
LEMMA DirReadKeeps ==
  ASSUME FilesInv, NEW fd \in Opened, NEW nbytes, dir_read(fd, nbytes)
  PROVE  /\ FilesInv'
         /\ \E n \in Nat :
              /\ n <= Named
              /\ file_array[fd].file_position <= n
              /\ got' = [got EXCEPT ![fd] = Upto(Listing, n)]
              /\ file_array' = [file_array EXCEPT ![fd] =
                           [file_array[fd] EXCEPT !.file_position = n]]
<1> DEFINE f == file_array[fd]
           at == f.file_position
           name == Dentry[at + 1].name
           h == [f EXCEPT !.file_position = at + 1]
           g == Upto(Listing, at + 1)
<1>1. /\ f.type = "dir" /\ name # NoName
      /\ file_array' = [file_array EXCEPT ![fd] = h]
      /\ got' = [got EXCEPT ![fd] = Append(got[fd], name)]
      /\ last' = last
  BY DEF dir_read
<1>2. fd \in Fd /\ f \in Descriptors /\ InStep(f, got[fd])
  BY OpenedInFd DEF FilesInv
<1>3. at \in Nat /\ at <= Named /\ got[fd] = Upto(Listing, at)
  BY <1>1, <1>2 DEF InStep, Descriptors, Size, Source
<1>4. at + 1 \in Nat /\ at + 1 <= Named /\ Named \in Nat
  <2>1. at + 1 \in DOMAIN Dentry /\ Named \in Nat
    BY <1>3, NamedRange
  <2> QED
    BY <1>1, <1>3, <2>1, NamedRange
<1> HIDE DEF at
<1>5. Append(Upto(Listing, at), name) = g
  <2> DEFINE s == Upto(Listing, at)
  <2>1. Elements(s, at)
    BY DEF Elements, Upto
  <2>2. Listing[at + 1] = name
    BY <1>3, <1>4 DEF Listing
  <2> HIDE DEF s, name
  <2>3. Append(s, name)
          = [k \in 1 .. at + 1 |-> IF k <= at THEN s[k] ELSE name]
    <3>1. at \in Nat
      BY <1>3
    <3> QED
      BY <2>1, <3>1, Appended
  <2>4. ASSUME NEW k \in 1 .. at + 1
        PROVE  (IF k <= at THEN s[k] ELSE name) = Listing[k]
    BY <1>3, <2>2 DEF s, Upto
  <2> QED
    BY <2>3, <2>4 DEF s, Upto
<1>6. got' = [got EXCEPT ![fd] = g]
  BY <1>1, <1>3, <1>5
<1>7. h \in Descriptors /\ h.type = "dir" /\ h.file_position = at + 1
  BY <1>1, <1>2, <1>4 DEF Descriptors
<1>8. InStep(h, g)
  BY <1>4, <1>7 DEF InStep, Size, Source
<1>9. EmptyMeansEnd'
  BY <1>1 DEF FilesInv, EmptyMeansEnd
<1>10. FilesInv'
  <2> HIDE DEF h, g
  <2> QED
    BY <1>1, <1>6, <1>7, <1>8, <1>9, OneDescriptor
<1>11. at <= at + 1
  BY <1>3
<1> QED
  BY <1>1, <1>4, <1>6, <1>10, <1>11 DEF at

\* sys_halt closes every descriptor.
LEMMA HaltedKeeps ==
  ASSUME FilesInv, Halted
  PROVE  FilesInv'
<1>1. \A fd \in Fd : [file_array[fd] EXCEPT !.type = "close"] \in Descriptors
                     /\ [file_array[fd] EXCEPT !.type = "close"].type = "close"
  BY DEF FilesInv, Descriptors, Types
<1>2. file_array' \in [Fd -> Descriptors]
      /\ \A fd \in Fd : file_array'[fd].type = "close" /\ got'[fd] = <<>>
  BY <1>1 DEF Halted
<1>3. \A fd \in Fd : InStep(file_array'[fd], got'[fd])
  BY <1>2 DEF InStep
<1>4. EmptyMeansEnd'
  BY DEF Halted, EmptyMeansEnd, NoRead
<1>5. got' = [fd \in Fd |-> got'[fd]]
  BY DEF Halted
<1> QED
  BY <1>2, <1>3, <1>4, <1>5 DEF FilesInv

\* sys_execute opens stdin and stdout.
LEMMA EnteredKeeps ==
  ASSUME FilesInv, Entered
  PROVE  FilesInv'
<1>1. \A fd \in Fd : [file_array[fd] EXCEPT !.type = "term"] \in Descriptors
                     /\ [file_array[fd] EXCEPT !.type = "term"].type = "term"
  BY DEF FilesInv, Descriptors, Types
<1>2. /\ file_array' \in [Fd -> Descriptors]
      /\ \A fd \in Fd :
           IF fd < 2 THEN file_array'[fd].type = "term"
                     ELSE file_array'[fd] = file_array[fd]
  BY <1>1 DEF Entered, FilesInv
<1>3. \A fd \in Fd : fd < 2 <=> fd \notin Opened
  BY FilesAssumption DEF Fd, Opened
<1>4. \A fd \in Fd \ Opened : got[fd] = <<>>
  BY DEF FilesInv, InStep
<1>5. \A fd \in Fd : InStep(file_array'[fd], got'[fd])
  BY <1>2, <1>3, <1>4 DEF InStep, FilesInv, Entered
<1>6. EmptyMeansEnd' /\ got' = [fd \in Fd |-> got'[fd]]
  BY DEF Entered, EmptyMeansEnd, FilesInv
<1>7. \A fd \in Fd \ Opened : file_array'[fd].type \in {"close", "term"}
  BY <1>2, <1>3
<1> QED
  BY <1>2, <1>5, <1>6, <1>7 DEF FilesInv

\* Whatever programs do, FilesInv is kept.
LEMMA ServedKeeps ==
  ASSUME FilesInv, Served
  PROVE  FilesInv'
<1>1. CASE UNCHANGED vars
  BY <1>1 DEF vars, FilesInv, EmptyMeansEnd
<1> QED
  BY <1>1, OpenKeeps, CloseKeeps, FileReadKeeps, DirReadKeeps, HaltedKeeps,
     EnteredKeeps DEF Served

\* An arbitrary process does nothing else.
LEMMA NextServed == [Next]_vars => Served
<1> SUFFICES ASSUME [Next]_vars PROVE Served
  OBVIOUS
<1>1. \A n \in Counts : n \in Int /\ Unsigned(n) \in Nat
  BY FilesAssumption DEF Unsigned
<1> QED
  BY <1>1 DEF Next, Served

\* There are as many names as Listing has.
LEMMA ListingLength == Len(Listing) = Named /\ Elements(Listing, Named)
<1>1. Elements(Listing, Named)
  BY DEF Elements, Listing
<1>2. Named \in Nat
  BY NamedRange
<1> QED
  BY <1>1, <1>2, Given

\* The invariant says that positions are in range.
LEMMA InvTypeOK == FilesInv => TypeOK
<1> SUFFICES ASSUME FilesInv, NEW fd \in Fd
             PROVE  LET f == file_array[fd]
                    IN /\ f.type \in Types
                       /\ f.inode \in DOMAIN Inode
                       /\ f.file_position \in Nat
                       /\ f.type = "file" =>
                            f.file_position <= Inode[f.inode].length
                       /\ f.type = "dir" => f.file_position <= Len(Listing)
  BY DEF TypeOK, FilesInv, Types
<1>1. file_array[fd] \in Descriptors /\ InStep(file_array[fd], got[fd])
  BY DEF FilesInv
<1> QED
  BY <1>1, ListingLength DEF Descriptors, InStep, Size

-----------------------------------------------------------------------------
(***************************************************************************)
(* Theorems                                                                *)
(***************************************************************************)

\* One call of read_data from the start of any file of the image, with a
\* buffer at least as long as the file, delivers the file: the read of
\* sys_execute, whatever the program.
THEOREM WholeFile ==
  ASSUME NEW x \in DOMAIN Inode, NEW length \in Nat,
         Inode[x].length <= length
  PROVE  read_data(x, 0, length) = Content[x]
<1> DEFINE L == Inode[x].length
<1>1. L \in Nat /\ 0 \in 0 .. L /\ 0 % B = 0
  BY ImageAssumption, FilesAssumption DEF B
<1>2. PICK o \in 0 .. L : o = 0
  BY <1>1
<1> DEFINE n == IF L - o <= length THEN L - o ELSE length
           c == Capacity(o, Blocks(n))
<1>3. /\ read_data(x, o, length)
           = [j \in 1 .. IF n <= c THEN n ELSE c |-> Content[x][o + j]]
      /\ o % B = 0 => n <= c
  BY <1>2, Delivers
<1>4. n = L /\ o % B = 0
  BY <1>1, <1>2
<1> HIDE DEF n, c
<1>5. read_data(x, o, length) = [j \in 1 .. L |-> Content[x][o + j]]
  BY <1>3, <1>4
<1>6. \A j \in 1 .. L : o + j = j
  BY <1>1, <1>2
<1>7. Content[x] = [j \in 1 .. L |-> Content[x][j]]
  BY DEF Content
<1> QED
  BY <1>2, <1>5, <1>6, <1>7

\* read_data comes up short (see ReadsLength) by exactly what the blocks it
\* visits do not hold: it delivers the bytes that follow the offset, and as
\* many as are asked for and left unless (n / BYTES_PER_BLOCK + 1) blocks,
\* counted from the one the offset is in, hold fewer.
THEOREM ShortReads ==
  ASSUME NEW x \in DOMAIN Inode, NEW offset \in 0 .. Inode[x].length,
         NEW length \in Nat
  PROVE  LET left == Inode[x].length - offset
             n == Min({left, length})
             hold == BYTES_PER_BLOCK * ((n \div BYTES_PER_BLOCK) + 1)
                       - (offset % BYTES_PER_BLOCK)
         IN read_data(x, offset, length)
              = SubSeq(Content[x], offset + 1, offset + Min({n, hold}))
<1> DEFINE L == Inode[x].length
           left == L - offset
           n == IF left <= length THEN left ELSE length
           c == Capacity(offset, Blocks(n))
           m == IF n <= c THEN n ELSE c
           hold == BYTES_PER_BLOCK * ((n \div BYTES_PER_BLOCK) + 1)
                     - (offset % BYTES_PER_BLOCK)
<1>1. L \in Nat /\ left \in Int /\ offset \in Nat
  BY ImageAssumption
<1>2. n \in Nat /\ c \in Int /\ c >= 1
      /\ read_data(x, offset, length)
           = [j \in 1 .. m |-> Content[x][offset + j]]
  BY Delivers
<1>3. n = Min({left, length})
  BY <1>1, MinPair
<1>4. n <= left
  BY <1>1
<1> HIDE DEF L, n
<1>5. c = hold
  <2>1. Blocks(n) # 0
    BY <1>2, FilesAssumption DEF Blocks
  <2> QED
    BY <2>1 DEF Capacity, Blocks, B
<1> HIDE DEF c, hold
<1>6. m = Min({n, hold})
  BY <1>2, <1>5, MinPair
<1>7. m \in Nat /\ m <= left
  BY <1>2, <1>4, <1>1
<1> HIDE DEF m
<1>8. Elements(Content[x], L)
  BY DEF Elements, Content, L
<1>9. SubSeq(Content[x], offset + 1, offset + m)
        = [j \in 1 .. m |-> Content[x][offset + j]]
  <2> DEFINE s == Content[x]
             a == offset + 1
             b == offset + m
  <2>1. a \in Int /\ b \in Int /\ 1 <= a /\ b <= L /\ b - a + 1 = m
        /\ \A j \in 1 .. m : a + j - 1 = offset + j
    BY <1>1, <1>7
  <2> HIDE DEF s, a, b
  <2>2. Elements(s, L)
    BY <1>8 DEF s
  <2>3. SubSeq(s, a, b) = [j \in 1 .. b - a + 1 |-> s[a + j - 1]]
    BY <1>1, <2>1, <2>2, Part
  <2>4. SubSeq(s, a, b) = [j \in 1 .. m |-> s[offset + j]]
    BY <2>1, <2>3
  <2> QED
    BY <2>4 DEF s, a, b
<1> QED
  BY <1>2, <1>3, <1>6, <1>9 DEF L, hold, m

\* The invariant holds always.
THEOREM FilesInvariance == Spec => []FilesInv
<1>1. FilesInv /\ [Next]_vars => FilesInv'
  BY ServedKeeps, NextServed
<1> QED
  BY FilesInit, <1>1, PTL DEF Spec

\* Positions stay in the file and in the directory, for any calls.
THEOREM FilesTyped == Spec => []TypeOK
BY FilesInvariance, InvTypeOK, PTL

\* A read that asks for something and delivers nothing is at the end.
THEOREM EmptyAtEnd == Spec => []EmptyMeansEnd
<1>1. FilesInv => EmptyMeansEnd
  BY DEF FilesInv
<1> QED
  BY FilesInvariance, <1>1, PTL

\* Every file that is open can be read whole by one call.
LEMMA InvWhole == FilesInv => WholeImageAtOnce
<1> SUFFICES ASSUME FilesInv, NEW fd \in Opened, NEW more \in {0, BYTES_PER_BLOCK}
             PROVE  LET i == file_array[fd].inode
                    IN read_data(i, 0, Inode[i].length + more) = Content[i]
  BY DEF WholeImageAtOnce
<1> DEFINE i == file_array[fd].inode
<1>1. i \in DOMAIN Inode
  BY OpenedInFd DEF FilesInv, Descriptors
<1>2. Inode[i].length + more \in Nat /\ Inode[i].length <= Inode[i].length + more
  BY <1>1, ImageAssumption, FilesAssumption
<1> HIDE DEF i
<1>3. read_data(i, 0, Inode[i].length + more) = Content[i]
  BY <1>1, <1>2, WholeFile
<1> QED
  BY <1>3 DEF i

\* Read from its start, an open file is delivered whole.
THEOREM WholeImages == Spec => []WholeImageAtOnce
BY FilesInvariance, InvWhole, PTL

-----------------------------------------------------------------------------
(***************************************************************************)
(* Files implements Streams                                                *)
(***************************************************************************)

\* the refinement mapping
MappedSource == [fd \in Opened |-> SourceOf(file_array[fd])]
MappedDelivered == [fd \in Opened |-> got[fd]]

\* The source of a descriptor by its type.
LEMMA SourceCases ==
  ASSUME NEW f \in Descriptors
  PROVE  SourceOf(f) = IF f.type = "close" THEN <<>>
                       ELSE IF f.type = "file" THEN <<Content[f.inode]>>
                       ELSE IF f.type = "dir" THEN <<Listing>>
                       ELSE << <<>> >>
BY DEF SourceOf

\* A change of one descriptor is a change of one stream.
LEMMA OneStream ==
  ASSUME FilesInv, NEW fd \in Opened, NEW f, NEW g,
         file_array' = [file_array EXCEPT ![fd] = f],
         got' = [got EXCEPT ![fd] = g]
  PROVE  /\ MappedSource' = [MappedSource EXCEPT ![fd] = SourceOf(f)]
         /\ MappedDelivered' = [MappedDelivered EXCEPT ![fd] = g]
<1>1. \A e \in Opened : e \in Fd
  BY OpenedInFd
<1>2. \A e \in Opened :
        /\ file_array'[e] = IF e = fd THEN f ELSE file_array[e]
        /\ got'[e] = IF e = fd THEN g ELSE got[e]
  BY <1>1 DEF FilesInv
<1>3. \A e \in Opened : SourceOf(file_array'[e])
                          = IF e = fd THEN SourceOf(f)
                            ELSE SourceOf(file_array[e])
  BY <1>2
<1>4. MappedSource' = [e \in Opened |-> SourceOf(file_array'[e])]
  BY DEF MappedSource, SourceOf
<1>5. MappedDelivered' = [e \in Opened |-> got'[e]]
  BY DEF MappedDelivered
<1> QED
  BY <1>2, <1>3, <1>4, <1>5 DEF MappedSource, MappedDelivered

\* Initially every stream is closed.
LEMMA InitImplements == Init => Streamed!Init
<1> SUFFICES ASSUME Init PROVE Streamed!Init
  OBVIOUS
<1>1. FilesInv
  BY FilesInit
<1>2. \A fd \in Opened : fd \in Fd /\ ~(fd < 2)
  BY FilesAssumption DEF Opened, Fd
<1>3. \A fd \in Opened : file_array[fd] \in Descriptors
                         /\ file_array[fd].type = "close"
                         /\ got[fd] = <<>>
  BY <1>1, <1>2 DEF Init, FilesInv
<1>4. \A fd \in Opened : SourceOf(file_array[fd]) = <<>>
  BY <1>3, SourceCases
<1> QED
  BY <1>3, <1>4 DEF Streamed!Init, Streamed!Closed

\* sys_open opens a stream on a closed descriptor.
LEMMA OpenImplements ==
  ASSUME FilesInv, NEW name, sys_open(name)
  PROVE  \E fd \in Opened : Streamed!Open(fd)
<1>1. PICK fd \in Opened, d \in read_dentry_by_name(name) :
        LET type == IF First(name, Len(Terminal)) = Terminal THEN "term"
                    ELSE Dentry[d].type
        IN
        /\ FreeDescriptor(fd)
        /\ file_array' = [file_array EXCEPT ![fd] =
             [type |-> type,
              inode |-> IF type = "file" THEN Dentry[d].inode ELSE 0,
              file_position |-> 0]]
        /\ got' = [got EXCEPT ![fd] = <<>>]
  BY DEF sys_open
<1> DEFINE type == IF First(name, Len(Terminal)) = Terminal THEN "term"
                   ELSE Dentry[d].type
           f == [type |-> type,
                 inode |-> IF type = "file" THEN Dentry[d].inode ELSE 0,
                 file_position |-> 0]
<1>2. d \in DOMAIN Dentry /\ fd \in Fd
  BY OpenedInFd DEF read_dentry_by_name
<1>3. f \in Descriptors /\ f.type \in {"term", "rtc", "dir", "file"}
  BY <1>2, ImageAssumption DEF Types, Descriptors
<1>4. PICK s \in AllSources : SourceOf(f) = <<s>>
  BY <1>3, SourceCases DEF AllSources, Descriptors
<1> HIDE DEF f
<1>5. MappedSource[fd] = <<>>
  <2>1. file_array[fd] \in Descriptors /\ file_array[fd].type = "close"
    BY <1>1, <1>2 DEF FilesInv, FreeDescriptor
  <2> QED
    BY <2>1, SourceCases DEF MappedSource
<1>6. file_array' = [file_array EXCEPT ![fd] = f]
      /\ got' = [got EXCEPT ![fd] = <<>>]
  BY <1>1 DEF f
<1>7. MappedSource' = [MappedSource EXCEPT ![fd] = <<s>>]
      /\ MappedDelivered' = [MappedDelivered EXCEPT ![fd] = <<>>]
  BY <1>4, <1>6, OneStream
<1>8. Streamed!Open(fd)
  BY <1>5, <1>7
  DEF Streamed!Open, Streamed!Closed, MappedSource, MappedDelivered
<1> QED
  BY <1>8

\* sys_close closes one.
LEMMA CloseImplements ==
  ASSUME FilesInv, NEW fd \in Opened, sys_close(fd)
  PROVE  Streamed!Close({fd})
<1> DEFINE f == [file_array[fd] EXCEPT !.type = "close"]
<1>1. file_array' = [file_array EXCEPT ![fd] = f]
      /\ got' = [got EXCEPT ![fd] = <<>>]
  BY DEF sys_close
<1>2. f \in Descriptors /\ f.type = "close"
  BY OpenedInFd DEF Descriptors, Types, FilesInv
<1>3. SourceOf(f) = <<>>
  BY <1>2, SourceCases
<1> HIDE DEF f
<1>4. MappedSource' = [MappedSource EXCEPT ![fd] = <<>>]
      /\ MappedDelivered' = [MappedDelivered EXCEPT ![fd] = <<>>]
  BY <1>1, <1>3, OneStream
<1>5. MappedSource' = [e \in Opened |-> IF e \in {fd} THEN <<>>
                                        ELSE MappedSource[e]]
      /\ MappedDelivered' = [e \in Opened |-> IF e \in {fd} THEN <<>>
                                              ELSE MappedDelivered[e]]
  BY <1>4 DEF MappedSource, MappedDelivered
<1> QED
  BY <1>5 DEF Streamed!Close, Streamed!Closed, MappedSource, MappedDelivered

\* A read up to position n of a source of L elements is a read of the stream.
LEMMA ReadImplements ==
  ASSUME FilesInv, NEW fd \in Opened, NEW s, NEW L \in Nat, Elements(s, L),
         SourceOf(file_array[fd]) = <<s>>,
         NEW at \in Nat, got[fd] = Upto(s, at),
         NEW n \in Nat, at <= n, n <= L,
         NEW f, SourceOf(f) = <<s>>,
         file_array' = [file_array EXCEPT ![fd] = f],
         got' = [got EXCEPT ![fd] = Upto(s, n)]
  PROVE  Streamed!Read(fd)
<1>1. MappedSource' = [MappedSource EXCEPT ![fd] = <<s>>]
      /\ MappedDelivered' = [MappedDelivered EXCEPT ![fd] = Upto(s, n)]
  <2> DEFINE g == Upto(s, n)
             t == <<s>>
  <2>1. got' = [got EXCEPT ![fd] = g] /\ SourceOf(f) = t
    OBVIOUS
  <2> HIDE DEF g, t
  <2>2. MappedSource' = [MappedSource EXCEPT ![fd] = SourceOf(f)]
        /\ MappedDelivered' = [MappedDelivered EXCEPT ![fd] = g]
    BY <2>1, OneStream
  <2> QED
    BY <2>1, <2>2 DEF g, t
<1>2. MappedSource[fd] = <<s>> /\ MappedDelivered[fd] = Upto(s, at)
  BY DEF MappedSource, MappedDelivered
<1>3. MappedSource' = MappedSource
  BY <1>1, <1>2 DEF MappedSource
<1>4. Len(s) = L
  BY Given
<1>5. Len(Upto(s, at)) = at
  <2>1. Elements(Upto(s, at), at)
    BY DEF Upto, Elements
  <2> QED
    BY <2>1, Given
<1>6. SubSeq(s, 1, n) = Upto(s, n)
  <2>1. 1 \in Int /\ n \in Int /\ 1 <= 1
    OBVIOUS
  <2>2. SubSeq(s, 1, n) = [k \in 1 .. n - 1 + 1 |-> s[1 + k - 1]]
    BY <2>1, Part
  <2>3. n - 1 + 1 = n /\ \A k \in 1 .. n : 1 + k - 1 = k
    OBVIOUS
  <2> QED
    BY <2>2, <2>3 DEF Upto
<1>7. <<s>> # <<>> /\ <<s>>[1] = s
  OBVIOUS
<1>8. n \in Len(MappedDelivered[fd]) .. Len(MappedSource[fd][1])
  BY <1>2, <1>4, <1>5, <1>7
<1>9. MappedSource[fd] # <<>>
      /\ MappedDelivered'
           = [MappedDelivered EXCEPT ![fd] = SubSeq(MappedSource[fd][1], 1, n)]
  BY <1>1, <1>2, <1>6, <1>7
<1> QED
  BY <1>3, <1>8, <1>9
  DEF Streamed!Read, Streamed!Closed, MappedSource, MappedDelivered

\* So is a read of a regular file.
LEMMA FileReadImplements ==
  ASSUME FilesInv, NEW fd \in Opened, NEW nbytes, Unsigned(nbytes) \in Nat,
         reg_file_read(fd, nbytes)
  PROVE  Streamed!Read(fd)
<1> DEFINE f == file_array[fd]
           s == Content[f.inode]
           L == Inode[f.inode].length
<1>1. f \in Descriptors /\ f.type = "file" /\ InStep(f, got[fd])
  BY OpenedInFd DEF FilesInv, reg_file_read
<1>2. PICK n \in Nat :
        /\ n <= L
        /\ f.file_position <= n
        /\ got' = [got EXCEPT ![fd] = Upto(s, n)]
        /\ file_array' = [file_array EXCEPT ![fd] =
                            [f EXCEPT !.file_position = n]]
  BY FileReadKeeps
<1> DEFINE h == [f EXCEPT !.file_position = n]
<1>3. h \in Descriptors /\ h.type = "file" /\ h.inode = f.inode
  BY <1>1 DEF Descriptors
<1>4. SourceOf(f) = <<s>> /\ SourceOf(h) = <<s>>
  BY <1>1, <1>3, SourceCases
<1>5. L \in Nat /\ Elements(s, L)
  BY <1>1, ImageAssumption DEF Elements, Content, Descriptors
<1>6. f.file_position \in Nat /\ got[fd] = Upto(s, f.file_position)
  BY <1>1 DEF Descriptors, InStep, Source
<1> HIDE DEF h, s, L
<1> QED
  BY <1>2, <1>4, <1>5, <1>6, ReadImplements DEF h

\* And a read of the directory.
LEMMA DirReadImplements ==
  ASSUME FilesInv, NEW fd \in Opened, NEW nbytes, dir_read(fd, nbytes)
  PROVE  Streamed!Read(fd)
<1> DEFINE f == file_array[fd]
<1>1. f \in Descriptors /\ f.type = "dir" /\ InStep(f, got[fd])
  BY OpenedInFd DEF FilesInv, dir_read
<1>2. PICK n \in Nat :
        /\ n <= Named
        /\ f.file_position <= n
        /\ got' = [got EXCEPT ![fd] = Upto(Listing, n)]
        /\ file_array' = [file_array EXCEPT ![fd] =
                            [f EXCEPT !.file_position = n]]
  BY DirReadKeeps
<1> DEFINE h == [f EXCEPT !.file_position = n]
<1>3. h \in Descriptors /\ h.type = "dir"
  BY <1>1 DEF Descriptors
<1>4. SourceOf(f) = <<Listing>> /\ SourceOf(h) = <<Listing>>
  BY <1>1, <1>3, SourceCases
<1>5. Named \in Nat /\ Elements(Listing, Named)
  BY ListingLength, NamedRange
<1>6. f.file_position \in Nat /\ got[fd] = Upto(Listing, f.file_position)
  BY <1>1 DEF Descriptors, InStep, Source
<1> HIDE DEF h
<1> QED
  BY <1>2, <1>4, <1>5, <1>6, ReadImplements DEF h

\* sys_halt closes all streams.
LEMMA HaltedImplements ==
  ASSUME FilesInv, Halted
  PROVE  Streamed!Close(Opened)
<1>1. \A fd \in Opened : /\ file_array'[fd] \in Descriptors
                         /\ file_array'[fd].type = "close"
                         /\ got'[fd] = <<>>
  BY OpenedInFd DEF FilesInv, Halted, Descriptors, Types
<1>2. \A fd \in Opened : SourceOf(file_array'[fd]) = <<>>
  BY <1>1, SourceCases
<1>3. MappedSource' = [fd \in Opened |-> SourceOf(file_array'[fd])]
  BY DEF MappedSource, SourceOf
<1>4. MappedSource' = [fd \in Opened |-> <<>>]
      /\ MappedDelivered' = [fd \in Opened |-> <<>>]
  BY <1>1, <1>2, <1>3 DEF MappedDelivered
<1> QED
  BY <1>4 DEF Streamed!Close, Streamed!Closed, MappedSource, MappedDelivered

\* sys_execute touches no stream.
LEMMA EnteredImplements ==
  ASSUME FilesInv, Entered
  PROVE  UNCHANGED Streamed!vars
<1>1. \A fd \in Opened : fd \in Fd /\ ~(fd < 2)
  BY FilesAssumption DEF Opened, Fd
<1>2. \A fd \in Opened : file_array'[fd] = file_array[fd] /\ got'[fd] = got[fd]
  BY <1>1 DEF Entered
<1>3. MappedSource' = [fd \in Opened |-> SourceOf(file_array'[fd])]
  BY DEF MappedSource, SourceOf
<1>4. MappedSource' = MappedSource /\ MappedDelivered' = MappedDelivered
  BY <1>2, <1>3 DEF MappedSource, MappedDelivered
<1> QED
  BY <1>4 DEF Streamed!vars, MappedSource, MappedDelivered

\* Whatever programs do is a step of the streams, or none.
LEMMA ServedImplements ==
  ASSUME FilesInv, Served
  PROVE  [Streamed!Next]_Streamed!vars
<1>1. CASE \E name : sys_open(name)
  BY <1>1, OpenImplements DEF Streamed!Next
<1>2. CASE \E fd \in Opened : sys_close(fd)
  BY <1>2, CloseImplements DEF Streamed!Next
<1>3. CASE \E fd \in Opened, nbytes \in Int :
             /\ Unsigned(nbytes) \in Nat
             /\ reg_file_read(fd, nbytes) \/ dir_read(fd, nbytes)
  BY <1>3, FileReadImplements, DirReadImplements DEF Streamed!Next
<1>4. CASE Halted
  BY <1>4, HaltedImplements DEF Streamed!Next
<1>5. CASE Entered
  BY <1>5, EnteredImplements
<1>6. CASE UNCHANGED vars
  <2>1. MappedSource' = MappedSource /\ MappedDelivered' = MappedDelivered
    BY <1>6 DEF vars, MappedSource, MappedDelivered, SourceOf
  <2> QED
    BY <2>1 DEF Streamed!vars, MappedSource, MappedDelivered
<1> QED
  BY <1>1, <1>2, <1>3, <1>4, <1>5, <1>6 DEF Served

\* The file system implements the streams, whatever calls are made on the
\* descriptors and however the reads are cut.
THEOREM FilesImplementStreams == Spec => ImplementsStreams
<1>1. FilesInv /\ [Next]_vars => [Streamed!Next]_Streamed!vars
  BY ServedImplements, NextServed
<1> QED
  BY InitImplements, <1>1, FilesInvariance, PTL
  DEF Spec, ImplementsStreams, Streamed!Spec
=============================================================================

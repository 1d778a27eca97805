----------------------------- MODULE RtcProofs -----------------------------
(***************************************************************************)
(* Proofs about Rtc, for any number of processes and any frequencies.      *)
(***************************************************************************)
EXTENDS Rtc, Arithmetic, TLAPS

\* A write to register A of the upper half that was read and an accepted
\* rate leaves the upper half as it is and the rate in the lower one.
LEMMA Nibbles ==
  ASSUME NEW byte \in Int, HighNibble(byte) = HighNibble(BootA),
         NEW rate \in RTC_RATE_LOW .. RTC_RATE_HIGH
  PROVE  /\ HighNibble(HighNibble(byte) + rate) = HighNibble(BootA)
         /\ LowNibble(HighNibble(byte) + rate) = rate
         /\ HighNibble(byte) + rate \in Int
<1>1. HighNibble(byte) = 32
  BY DEF HighNibble, BootA
<1> QED BY <1>1 DEF HighNibble, LowNibble, BootA, RTC_RATE_LOW, RTC_RATE_HIGH

\* What rtc_init leaves behind satisfies the invariant.
LEMMA RtcInit ==
  ASSUME Init
  PROVE  RtcInv
<1>1. TypeOK
  <2>1. reg \in [Register -> Int]
    <3>1. \A r \in Register : (CASE r = "A" -> BootA [] r = "B" -> BootB
                                [] OTHER -> 0) \in Int
      BY DEF Register, BootA, BootB
    <3> QED BY <3>1 DEF Init
  <2> QED BY <2>1 DEF Init, TypeOK, Step, Register
<1>2. OnlyRateChanges
  BY DEF Init, OnlyRateChanges, Register, BootA, BootB, HighNibble, LowNibble,
     RTC_RATE_LOW, RTC_RATE_HIGH
<1> QED BY <1>1, <1>2, RtcAssumption DEF Init, RtcInv, ReadsWait, Section

\* No step of rtc_write breaks the invariant; the one that matters is the
\* write of register A, where the cli section has kept the index port and
\* the value read from the register valid.
LEMMA RtcWriteStep ==
  ASSUME RtcInv, NEW p \in Proc, WriteStep(p)
  PROVE  RtcInv'
<1> USE RtcAssumption DEF RtcInv, TypeOK, ReadsWait, Runs, GoTo, driver, chip,
        Section
<1>1. CASE WriteFreq(p)
  BY <1>1 DEF WriteFreq, OnlyRateChanges, Step
<1>2. CASE WriteMask(p)
  BY <1>2 DEF WriteMask, OnlyRateChanges, Step, Register
<1>3. CASE WriteSelect(p)
  BY <1>3 DEF WriteSelect, OnlyRateChanges, Step, Register
<1>4. CASE WriteGet(p)
  BY <1>4 DEF WriteGet, OnlyRateChanges, Step, Register
<1>5. CASE WritePut(p)
  <2>1. /\ index = "A" /\ reg_prev[p] = reg["A"] /\ masked = p
        /\ Rate(freq[p]) \in RTC_RATE_LOW .. RTC_RATE_HIGH
        /\ reg["A"] \in Int
    BY <1>5 DEF WritePut, Register, Accepts
  <2>2. /\ reg'["B"] = reg["B"]
        /\ reg'["A"] = HighNibble(reg["A"]) + Rate(freq[p])
    BY <1>5, <2>1 DEF WritePut, Register
  <2>3. OnlyRateChanges' /\ reg'["A"] \in Int
    BY <2>1, <2>2, Nibbles DEF OnlyRateChanges
  <2>4. reg' \in [Register -> Int]
    BY <1>5, <2>1, <2>2, <2>3 DEF WritePut
  <2>5. LowNibble(reg'["A"]) = Rate(freq[p])
    BY <2>1, <2>2, Nibbles DEF OnlyRateChanges
  <2> QED BY <1>5, <2>1, <2>3, <2>4, <2>5 DEF WritePut, Step
<1>6. CASE WriteUnmask(p)
  BY <1>6 DEF WriteUnmask, OnlyRateChanges, Step, Register
<1> QED BY <1>1, <1>2, <1>3, <1>4, <1>5, <1>6 DEF WriteStep

\* Neither does any other step, of rtc_read, of the handler or of the chip.
LEMMA RtcNext ==
  ASSUME RtcInv, [Next]_vars
  PROVE  RtcInv'
<1> USE RtcAssumption DEF RtcInv, TypeOK, ReadsWait, OnlyRateChanges, Runs,
        GoTo, driver, chip, Section
<1>1. ASSUME NEW p \in Proc, Read(p) PROVE RtcInv'
  BY <1>1 DEF Read, Step
<1>2. ASSUME NEW p \in Proc, ReadReturn(p) PROVE RtcInv'
  BY <1>2 DEF ReadReturn, Step
<1>3. ASSUME NEW p \in Proc, NEW f \in Freqs, Write(p, f) PROVE RtcInv'
  BY <1>3 DEF Write, Step
<1>4. CASE ChipTick
  BY <1>4 DEF ChipTick
<1>5. CASE rtc_handler
  BY <1>5 DEF rtc_handler, Register
<1>6. CASE UNCHANGED vars
  BY <1>6 DEF vars
<1> QED BY <1>1, <1>2, <1>3, <1>4, <1>5, <1>6, RtcWriteStep DEF Next

\* RtcInv is an invariant: the flag of rtc_read and the register file that
\* rtc_write updates stay consistent with the steps of all the processes.
THEOREM RtcInvariance == Spec => []RtcInv
BY RtcInit, RtcNext, PTL DEF Spec

\* rtc_read never returns on a flag that an earlier interrupt left set.
THEOREM ReadSafety == Spec => []ReadsWait
<1>1. RtcInv => ReadsWait
  BY DEF RtcInv
<1> QED BY <1>1, RtcInvariance, PTL

\* rtc_write changes nothing in the chip but the rate.
THEOREM RateSafety == Spec => []OnlyRateChanges
<1>1. RtcInv => OnlyRateChanges
  BY DEF RtcInv
<1> QED BY <1>1, RtcInvariance, PTL

-----------------------------------------------------------------------------
(***************************************************************************)
(* The arithmetic of rtc_write                                             *)
(***************************************************************************)

\* one turn of the loop that halves, and the loop up to a number
Halving(g, n) == IF n > 1 /\ n % 2 = 0 THEN g[n \div 2] ELSE n
HalvingUpto(g, N) == g = [n \in 0 .. N |-> Halving(g, n)]

\* The loop that halves ends from every number: there is such a function.
LEMMA HalvingExists == \A N \in Nat : \E g : HalvingUpto(g, N)
<1> DEFINE S == {N \in Nat : \E g : HalvingUpto(g, N)}
<1>1. 0 \in S
  <2> DEFINE g == [n \in 0 .. 0 |-> 0]
  <2>1. \A n \in 0 .. 0 : Halving(g, n) = 0
    BY DEF Halving
  <2>2. HalvingUpto(g, 0)
    BY <2>1 DEF HalvingUpto
  <2> QED
    BY <2>2
<1>2. ASSUME NEW N \in Nat, N \in S
      PROVE  N + 1 \in S
  <2>1. PICK g : HalvingUpto(g, N)
    BY <1>2
  <2> DEFINE h == [n \in 0 .. N + 1 |->
                     IF n <= N THEN g[n] ELSE Halving(g, N + 1)]
  <2>2. ASSUME NEW n \in 0 .. N + 1
        PROVE  h[n] = Halving(h, n)
    <3>1. n > 1 => n \div 2 \in 0 .. N
      OBVIOUS
    <3>2. n > 1 => h[n \div 2] = g[n \div 2]
      BY <3>1
    <3>3. Halving(h, n) = Halving(g, n)
      BY <3>2 DEF Halving
    <3>4. n \in 0 .. N => g[n] = Halving(g, n)
      BY <2>1 DEF HalvingUpto
    <3>5. n \in 0 .. N \/ n = N + 1
      OBVIOUS
    <3> QED
      BY <3>3, <3>4, <3>5
  <2>3. h = [n \in 0 .. N + 1 |-> h[n]]
    OBVIOUS
  <2> HIDE DEF h
  <2>4. HalvingUpto(h, N + 1)
    BY <2>2, <2>3 DEF HalvingUpto
  <2> QED
    BY <2>4
<1> HIDE DEF S
<1>3. \A N \in Nat : N \in S
  BY <1>1, <1>2, SetInduction
<1> QED
  BY <1>3 DEF S

\* It has one result.
LEMMA HalvingUnique ==
  ASSUME NEW N \in Nat, NEW M \in Nat, NEW g, NEW h,
         HalvingUpto(g, N), HalvingUpto(h, M), N <= M
  PROVE  \A n \in 0 .. N : g[n] = h[n]
<1> DEFINE T == {n \in 0 .. N : g[n] # h[n]}
<1> SUFFICES ASSUME T # {} PROVE FALSE
  OBVIOUS
<1>1. PICK x \in T : \A y \in T : x <= y
  <2>1. T \in SUBSET Nat
    OBVIOUS
  <2> HIDE DEF T
  <2> QED
    BY <2>1, LeastNatural
<1>2. x \in 0 .. N /\ x \in 0 .. M
  OBVIOUS
<1>3. g[x] = Halving(g, x) /\ h[x] = Halving(h, x)
  BY <1>2 DEF HalvingUpto
<1>4. x > 1 => x \div 2 \in 0 .. N /\ x \div 2 < x
  BY <1>2
<1>5. x > 1 => g[x \div 2] = h[x \div 2]
  BY <1>1, <1>4
<1> QED
  BY <1>3, <1>5 DEF Halving

\* OddPart is what its definition says.
LEMMA OddPartTurn ==
  \A n \in Int : OddPart[n] = Halving(OddPart, n)
<1> DEFINE G(N) == CHOOSE g : HalvingUpto(g, N)
           F == [n \in Int |-> IF n < 0 THEN n ELSE G(n)[n]]
<1>1. \A N \in Nat : HalvingUpto(G(N), N)
  BY HalvingExists
<1> HIDE DEF G
<1>2. ASSUME NEW n \in Int
      PROVE  F[n] = Halving(F, n)
  <2>1. CASE n < 0
    BY <2>1 DEF Halving
  <2>2. CASE n >= 0
    <3>1. n \in Nat /\ F[n] = G(n)[n]
      BY <2>2
    <3>2. G(n)[n] = Halving(G(n), n)
      BY <1>1, <3>1 DEF HalvingUpto
    <3>3. ASSUME n > 1
          PROVE  G(n)[n \div 2] = F[n \div 2]
      <4>1. n \div 2 \in Nat /\ n \div 2 <= n /\ n \div 2 \in 0 .. n \div 2
        BY <3>3, <3>1
      <4>2. HalvingUpto(G(n), n) /\ HalvingUpto(G(n \div 2), n \div 2)
        BY <4>1, <3>1, <1>1
      <4>3. G(n \div 2)[n \div 2] = G(n)[n \div 2]
        BY <4>1, <4>2, <3>1, HalvingUnique
      <4> QED
        BY <4>1, <4>3
    <3> QED
      BY <3>1, <3>2, <3>3 DEF Halving
  <2> QED
    BY <2>1, <2>2
<1>3. \E g : g = [n \in Int |-> Halving(g, n)]
  <2>1. F = [n \in Int |-> F[n]]
    OBVIOUS
  <2> HIDE DEF F
  <2>2. F = [n \in Int |-> Halving(F, n)]
    BY <1>2, <2>1
  <2> QED
    BY <2>2
<1>4. \E g : g = [n \in Int |-> IF n > 1 /\ n % 2 = 0 THEN g[n \div 2] ELSE n]
  BY <1>3 DEF Halving
<1>5. OddPart = [n \in Int |-> IF n > 1 /\ n % 2 = 0 THEN OddPart[n \div 2]
                               ELSE n]
  BY <1>4 DEF OddPart
<1> HIDE DEF F
<1> QED
  BY <1>5 DEF Halving

\* the powers of two that matter
LEMMA Powers ==
  /\ 2^0 = 1 /\ 2^1 = 2 /\ 2^2 = 4 /\ 2^3 = 8 /\ 2^4 = 16 /\ 2^5 = 32
  /\ 2^6 = 64 /\ 2^7 = 128 /\ 2^8 = 256 /\ 2^9 = 512 /\ 2^10 = 1024
  /\ 2^11 = 2048 /\ 2^12 = 4096 /\ 2^13 = 8192 /\ 2^14 = 16384
  /\ 2^15 = 32768
OBVIOUS

UptoMax == {1, 2, 4, 8, 16, 32, 64, 128, 256, 512, 1024}

\* If D are the numbers up to b from which the loop gets to 1, those up to
\* 2 * b + 1 are 1 and the doubles of D.
LEMMA Doubles ==
  ASSUME NEW b \in Nat, NEW D \in SUBSET (1 .. b),
         \A n \in 1 .. b : OddPart[n] = 1 <=> n \in D
  PROVE  \A n \in 1 .. 2 * b + 1 :
           OddPart[n] = 1 <=> n \in {1} \cup {2 * d : d \in D}
<1> SUFFICES ASSUME NEW n \in 1 .. 2 * b + 1
             PROVE  OddPart[n] = 1 <=> n \in {1} \cup {2 * d : d \in D}
  OBVIOUS
<1>1. OddPart[n] = Halving(OddPart, n)
  BY OddPartTurn
<1>2. \A d \in D : d \in 1 .. b
  OBVIOUS
<1>3. CASE n = 1
  BY <1>1, <1>3 DEF Halving
<1>4. CASE n # 1 /\ n % 2 = 0
  <2>1. n \div 2 \in 1 .. b /\ n = 2 * (n \div 2)
    BY <1>4
  <2>2. OddPart[n] = OddPart[n \div 2]
    BY <1>1, <1>4 DEF Halving
  <2>3. n \div 2 \in D <=> n \in {2 * d : d \in D}
    <3>1. \A d \in D : n = 2 * d => n \div 2 = d
      BY <1>2, <2>1
    <3> QED
      BY <2>1, <3>1
  <2> QED
    BY <1>4, <2>1, <2>2, <2>3
<1>5. CASE n # 1 /\ n % 2 # 0
  <2>1. OddPart[n] = n
    BY <1>1, <1>5 DEF Halving
  <2>2. \A d \in D : n # 2 * d
    BY <1>2, <1>5
  <2> QED
    BY <1>5, <2>1, <2>2
<1> QED
  BY <1>3, <1>4, <1>5

\* The loop that halves gets to 1 from the powers of two and, within the
\* range of the chip, from no other number.
LEMMA OddPartOne ==
  ASSUME NEW f \in 1 .. RTC_PRGM_MAX_FREQ
  PROVE  OddPart[f] = 1 <=> f \in UptoMax
<1> DEFINE Ones(b, D) == /\ D \in SUBSET (1 .. b)
                         /\ \A n \in 1 .. b : OddPart[n] = 1 <=> n \in D
           Twice(D) == {1} \cup {2 * d : d \in D}
<1>1. ASSUME NEW b \in Nat, NEW D, Ones(b, D)
      PROVE  Ones(2 * b + 1, Twice(D))
  <2>1. \A d \in D : d \in 1 .. b
    BY <1>1
  <2>2. \A d \in D : 2 * d \in 1 .. 2 * b + 1
    BY <2>1
  <2>3. Twice(D) \in SUBSET (1 .. 2 * b + 1)
    BY <2>2
  <2> QED
    BY <1>1, <2>3, Doubles
<1> HIDE DEF Ones, Twice
<1>2. Ones(0, {})
  BY DEF Ones
<1>3. Ones(1, {1})
  <2>1. Twice({}) = {1}
    BY DEF Twice
  <2> QED
    BY <1>2, <1>1, <2>1
<1>4. Ones(3, {1, 2})
  <2>1. Twice({1}) = {1, 2}
    BY DEF Twice
  <2> QED
    BY <1>3, <1>1, <2>1
<1>5. Ones(7, {1, 2, 4})
  <2>1. Twice({1, 2}) = {1, 2, 4}
    BY DEF Twice
  <2> QED
    BY <1>4, <1>1, <2>1
<1>6. Ones(15, {1, 2, 4, 8})
  <2>1. Twice({1, 2, 4}) = {1, 2, 4, 8}
    BY DEF Twice
  <2> QED
    BY <1>5, <1>1, <2>1
<1>7. Ones(31, {1, 2, 4, 8, 16})
  <2>1. Twice({1, 2, 4, 8}) = {1, 2, 4, 8, 16}
    BY DEF Twice
  <2> QED
    BY <1>6, <1>1, <2>1
<1>8. Ones(63, {1, 2, 4, 8, 16, 32})
  <2>1. Twice({1, 2, 4, 8, 16}) = {1, 2, 4, 8, 16, 32}
    BY DEF Twice
  <2> QED
    BY <1>7, <1>1, <2>1
<1>9. Ones(127, {1, 2, 4, 8, 16, 32, 64})
  <2>1. Twice({1, 2, 4, 8, 16, 32}) = {1, 2, 4, 8, 16, 32, 64}
    BY DEF Twice
  <2> QED
    BY <1>8, <1>1, <2>1
<1>10. Ones(255, {1, 2, 4, 8, 16, 32, 64, 128})
  <2>1. Twice({1, 2, 4, 8, 16, 32, 64}) = {1, 2, 4, 8, 16, 32, 64, 128}
    BY DEF Twice
  <2> QED
    BY <1>9, <1>1, <2>1
<1>11. Ones(511, {1, 2, 4, 8, 16, 32, 64, 128, 256})
  <2>1. Twice({1, 2, 4, 8, 16, 32, 64, 128}) = {1, 2, 4, 8, 16, 32, 64, 128, 256}
    BY DEF Twice
  <2> QED
    BY <1>10, <1>1, <2>1
<1>12. Ones(1023, {1, 2, 4, 8, 16, 32, 64, 128, 256, 512})
  <2>1. Twice({1, 2, 4, 8, 16, 32, 64, 128, 256}) = {1, 2, 4, 8, 16, 32, 64, 128, 256, 512}
    BY DEF Twice
  <2> QED
    BY <1>11, <1>1, <2>1
<1>13. Ones(2047, {1, 2, 4, 8, 16, 32, 64, 128, 256, 512, 1024})
  <2>1. Twice({1, 2, 4, 8, 16, 32, 64, 128, 256, 512}) = {1, 2, 4, 8, 16, 32, 64, 128, 256, 512, 1024}
    BY DEF Twice
  <2> QED
    BY <1>12, <1>1, <2>1
<1> DEFINE top == 2047
<1>14. f \in 1 .. top
  BY DEF RTC_PRGM_MAX_FREQ
<1>15. {1, 2, 4, 8, 16, 32, 64, 128, 256, 512, 1024} = UptoMax
  BY DEF UptoMax
<1>16. Ones(top, UptoMax)
  BY <1>13, <1>15
<1> HIDE DEF top
<1> QED
  BY <1>14, <1>16 DEF Ones

\* The loop that counts finds the rate of every power of two.
LEMMA RateOf ==
  ASSUME NEW f \in UptoMax
  PROVE  /\ Hz(Rate(f)) = f
         /\ Rate(f) \in 1 .. RTC_RATE_HIGH + 1
         /\ Rate(f) >= RTC_RATE_LOW
         /\ Rate(f) <= RTC_RATE_HIGH <=> f # 1
<1> DEFINE P(r) == RTC_DEFAULT_FREQ \div 2^(r - 1)
<1>1. /\ P(1) = 32768 /\ P(2) = 16384 /\ P(3) = 8192 /\ P(4) = 4096
      /\ P(5) = 2048 /\ P(6) = 1024 /\ P(7) = 512 /\ P(8) = 256
      /\ P(9) = 128 /\ P(10) = 64 /\ P(11) = 32 /\ P(12) = 16
      /\ P(13) = 8 /\ P(14) = 4 /\ P(15) = 2 /\ P(16) = 1
  BY Powers DEF RTC_DEFAULT_FREQ
<1> HIDE DEF P
<1>2. \E r \in 1 .. 16 : P(r) = f
  BY <1>1 DEF UptoMax
<1>3. Rate(f) \in 1 .. 16 /\ P(Rate(f)) = f
  <2>1. Rate(f) = CHOOSE r \in 1 .. 16 : P(r) = f
    BY DEF Rate, P, RTC_RATE_HIGH
  <2> QED
    BY <1>2, <2>1
<1>4. \A r \in 1 .. 16 :
        P(r) <= 1024 => r >= 6 /\ (r <= 15 <=> P(r) # 1)
  BY <1>1
<1>5. f <= 1024
  BY DEF UptoMax
<1>6. Rate(f) >= 6 /\ (Rate(f) <= 15 <=> f # 1)
  BY <1>3, <1>4, <1>5
<1>7. Hz(Rate(f)) = f
  BY <1>3 DEF Hz, P
<1> QED
  BY <1>3, <1>6, <1>7 DEF RTC_RATE_LOW, RTC_RATE_HIGH

\* rtc_write accepts a frequency if and only if it is one of the ten powers
\* of two the chip can run at (out of all integers, whatever Freqs is).
THEOREM AcceptedFrequencies ==
  \A f \in Int : Accepts(f) <=> \E k \in 1 .. 10 : f = 2^k
<1> SUFFICES ASSUME NEW f \in Int
             PROVE  Accepts(f) <=> \E k \in 1 .. 10 : f = 2^k
  OBVIOUS
<1>1. (\E k \in 1 .. 10 : f = 2^k) <=> f \in UptoMax \ {1}
  <2>1. ASSUME NEW k \in 1 .. 10
        PROVE  2^k \in UptoMax \ {1}
    <3>1. \/ k = 1 \/ k = 2 \/ k = 3 \/ k = 4 \/ k = 5
          \/ k = 6 \/ k = 7 \/ k = 8 \/ k = 9 \/ k = 10
      OBVIOUS
    <3>2. \/ 2^k = 2^1 \/ 2^k = 2^2 \/ 2^k = 2^3 \/ 2^k = 2^4
          \/ 2^k = 2^5 \/ 2^k = 2^6 \/ 2^k = 2^7 \/ 2^k = 2^8
          \/ 2^k = 2^9 \/ 2^k = 2^10
      BY <3>1, Zenon
    <3> DEFINE n == 2^k
    <3>3. \/ n = 2 \/ n = 4 \/ n = 8 \/ n = 16 \/ n = 32 \/ n = 64
          \/ n = 128 \/ n = 256 \/ n = 512 \/ n = 1024
      BY <3>2, Powers
    <3> HIDE DEF n
    <3>4. n \in UptoMax \ {1}
      BY <3>3 DEF UptoMax
    <3> QED
      BY <3>4 DEF n
  <2>2. ASSUME f \in UptoMax \ {1}
        PROVE  \E k \in 1 .. 10 : f = 2^k
    BY <2>2, Powers DEF UptoMax
  <2> QED
    BY <2>1, <2>2
<1>2. ASSUME Accepts(f)
      PROVE  f \in UptoMax \ {1}
  <2>1. f \in 1 .. RTC_PRGM_MAX_FREQ /\ OddPart[f] = 1
        /\ Rate(f) <= RTC_RATE_HIGH
    BY <1>2 DEF Accepts, RTC_PRGM_MAX_FREQ, RTC_RATE_LOW, RTC_RATE_HIGH
  <2>2. f \in UptoMax
    BY <2>1, OddPartOne
  <2> QED
    BY <2>1, <2>2, RateOf
<1>3. ASSUME f \in UptoMax \ {1}
      PROVE  Accepts(f)
  <2>1. f \in 1 .. RTC_PRGM_MAX_FREQ
    BY <1>3 DEF UptoMax, RTC_PRGM_MAX_FREQ
  <2>2. OddPart[f] = 1
    BY <1>3, <2>1, OddPartOne
  <2>3. Rate(f) \in RTC_RATE_LOW .. RTC_RATE_HIGH
    BY <1>3, RateOf DEF RTC_RATE_LOW, RTC_RATE_HIGH
  <2> QED
    BY <2>1, <2>2, <2>3 DEF Accepts, RTC_PRGM_MAX_FREQ
<1> QED
  BY <1>1, <1>2, <1>3

\* In every state every process is answered so.
THEOREM AcceptanceExact == Spec => []AcceptsPowersOfTwo
<1>1. AcceptsPowersOfTwo
  BY AcceptedFrequencies, RtcAssumption DEF AcceptsPowersOfTwo
<1> QED
  BY <1>1, PTL

\* When rtc_write has programmed the chip, and whatever other processes and
\* the handler did meanwhile, the chip runs at the requested frequency.
THEOREM RequestedRate == Spec => []RunsAtRequested
<1>1. RtcInv => RunsAtRequested
  <2> SUFFICES ASSUME RtcInv, NEW p \in Proc, pc[p] = "unmask"
               PROVE  Hz(LowNibble(reg["A"])) = freq[p]
    BY DEF RunsAtRequested
  <2>1. Accepts(freq[p]) /\ LowNibble(reg["A"]) = Rate(freq[p])
        /\ freq[p] \in Int
    BY DEF RtcInv, Section, TypeOK
  <2>2. freq[p] \in UptoMax
    <3>1. freq[p] \in 1 .. RTC_PRGM_MAX_FREQ /\ OddPart[freq[p]] = 1
      BY <2>1 DEF Accepts, RTC_PRGM_MAX_FREQ
    <3> QED
      BY <3>1, OddPartOne
  <2> QED
    BY <2>1, <2>2, RateOf
<1> QED
  BY <1>1, RtcInvariance, PTL
=============================================================================

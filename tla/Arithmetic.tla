----------------------------- MODULE Arithmetic -----------------------------
(***************************************************************************)
(* Facts about numbers and sequences that the proofs share: induction, in  *)
(* the form of a set that holds the numbers of which something is true;    *)
(* division; and sequences given by their elements.                        *)
(***************************************************************************)
EXTENDS Integers, Sequences, FiniteSetsExt, WellFoundedInduction, TLAPS

\* Every set of naturals that is not empty has a least element.
LEMMA LeastNatural ==
  ASSUME NEW T \in SUBSET Nat, T # {}
  PROVE  \E x \in T : \A y \in T : x <= y
<1> DEFINE R == OpToRel(<, Nat)
<1>1. PICK x \in T : \A y \in T : ~(<<y, x>> \in R)
  BY NatLessThanWellFounded, WFMin, Zenon
<1>2. \A y \in T : ~(y < x)
  BY <1>1 DEF OpToRel
<1> QED
  BY <1>2

\* Induction: a set with 0 and the successors of its elements has them all.
LEMMA SetInduction ==
  ASSUME NEW S, 0 \in S, \A n \in Nat : n \in S => n + 1 \in S
  PROVE  \A n \in Nat : n \in S
<1> DEFINE T == Nat \ S
<1> SUFFICES ASSUME T # {} PROVE FALSE
  OBVIOUS
<1>1. PICK x \in T : \A y \in T : x <= y
  BY LeastNatural
<1>2. x # 0 /\ x - 1 \in Nat /\ x - 1 \notin T
  BY <1>1
<1>3. (x - 1) + 1 \in S
  BY <1>2
<1> QED
  BY <1>1, <1>3

\* A position is its row and its column: column x of row y comes back from
\* c * y + x by remainder and quotient.
LEMMA DivMod ==
  ASSUME NEW c \in Nat \ {0}, NEW y \in Nat, NEW x \in 0 .. c - 1
  PROVE  (c * y + x) % c = x /\ (c * y + x) \div c = y
<1> DEFINE n == c * y + x
           q == n \div c
           r == n % c
<1>1. c * y \in Nat /\ n \in Nat
  OBVIOUS
<1>2. q \in Int /\ r \in 0 .. c - 1 /\ n = c * q + r
  BY <1>1
<1>3. c * (q - y) = x - r
  BY <1>1, <1>2
<1>4. \A d \in Int : d >= 1 => c * d >= c
  OBVIOUS
<1>5. \A d \in Int : d <= -1 => c * d <= -c
  OBVIOUS
<1>6. q = y
  <2>1. ~(q - y >= 1)
    BY <1>2, <1>3, <1>4
  <2>2. ~(q - y <= -1)
    BY <1>2, <1>3, <1>5
  <2> QED
    BY <2>1, <2>2, <1>2
<1> QED
  BY <1>2, <1>3, <1>6

\* Min of a set of naturals is its least element.
LEMMA MinIsLeast ==
  ASSUME NEW T \in SUBSET Nat, T # {}
  PROVE  Min(T) \in T /\ \A y \in T : Min(T) <= y
BY LeastNatural DEF Min

\* The lesser of two numbers.
LEMMA MinPair ==
  ASSUME NEW a \in Int, NEW b \in Int
  PROVE  Min({a, b}) = IF a <= b THEN a ELSE b
BY DEF Min

\* s is a sequence of n elements, whatever they are
Elements(s, n) == s = [k \in 1 .. n |-> s[k]]

\* The length of such a sequence.
LEMMA Given ==
  ASSUME NEW n \in Nat, NEW s, Elements(s, n)
  PROVE  /\ s \in Seq({s[k] : k \in 1 .. n})
         /\ Len(s) = n
<1>1. s \in [1 .. n -> {s[k] : k \in 1 .. n}]
  BY DEF Elements
<1> QED
  BY <1>1

\* A sequence is what its elements say.
LEMMA IsElements ==
  ASSUME NEW S, NEW s \in Seq(S)
  PROVE  Elements(s, Len(s))
BY DEF Elements

\* s \o t under a name that the provers take as it is
Join(s, t) == s \o t

\* One sequence after another, by its elements.
LEMMA Joined ==
  ASSUME NEW n \in Nat, NEW m \in Nat, NEW s, NEW t,
         Elements(s, n), Elements(t, m)
  PROVE  /\ Elements(Join(s, t), n + m)
         /\ \A k \in 1 .. n : Join(s, t)[k] = s[k]
         /\ \A k \in 1 .. m : Join(s, t)[n + k] = t[k]
<1> DEFINE S == {s[k] : k \in 1 .. n} \cup {t[k] : k \in 1 .. m}
<1>1. s \in [1 .. n -> S] /\ t \in [1 .. m -> S]
  BY DEF Elements
<1> HIDE DEF S
<1>2. s \in Seq(S) /\ t \in Seq(S) /\ Len(s) = n /\ Len(t) = m
  BY <1>1
<1>3. s \o t \in Seq(S) /\ Len(s \o t) = n + m
  BY <1>2
<1>4. Elements(s \o t, Len(s \o t))
  BY <1>3, IsElements
<1>5. \A k \in 1 .. n : (s \o t)[k] = s[k]
  BY <1>2
<1>6. \A k \in 1 .. m : (s \o t)[n + k] = t[k]
  BY <1>2
<1> QED
  BY <1>3, <1>4, <1>5, <1>6 DEF Join

\* What has the elements of both is one after the other.
LEMMA IsJoin ==
  ASSUME NEW n \in Nat, NEW m \in Nat, NEW s, NEW t, NEW u,
         Elements(s, n), Elements(t, m), Elements(u, n + m),
         \A k \in 1 .. n : u[k] = s[k], \A k \in 1 .. m : u[n + k] = t[k]
  PROVE  Join(s, t) = u
<1> DEFINE v == Join(s, t)
<1>1. /\ Elements(v, n + m)
      /\ \A k \in 1 .. n : v[k] = s[k]
      /\ \A k \in 1 .. m : v[n + k] = t[k]
  BY Joined
<1> HIDE DEF v
<1>2. ASSUME NEW k \in 1 .. n + m
      PROVE  u[k] = v[k]
  <2>1. CASE k <= n
    BY <1>1, <2>1
  <2>2. CASE ~(k <= n)
    <3>1. k - n \in 1 .. m /\ n + (k - n) = k
      BY <2>2
    <3> QED
      BY <1>1, <3>1
  <2> QED
    BY <2>1, <2>2
<1> QED
  BY <1>1, <1>2 DEF Elements, v

\* A sequence with one more element.
LEMMA Appended ==
  ASSUME NEW n \in Nat, NEW s, NEW e, Elements(s, n)
  PROVE  Append(s, e) = [k \in 1 .. n + 1 |-> IF k <= n THEN s[k] ELSE e]
<1> DEFINE S == {s[k] : k \in 1 .. n} \cup {e}
<1>1. s \in [1 .. n -> S] /\ e \in S
  BY DEF Elements
<1> HIDE DEF S
<1>2. s \in Seq(S) /\ Len(s) = n
  BY <1>1
<1> DEFINE u == Append(s, e)
<1>3. u \in Seq(S) /\ Len(u) = n + 1
  BY <1>1, <1>2
<1>4. \A k \in 1 .. n + 1 : u[k] = IF k <= n THEN s[k] ELSE e
  BY <1>1, <1>2
<1> HIDE DEF u
<1>5. Elements(u, n + 1)
  BY <1>3, IsElements
<1> QED
  BY <1>4, <1>5 DEF Elements, u

\* A part of a sequence, by its elements.
LEMMA Part ==
  ASSUME NEW n \in Nat, NEW s, Elements(s, n),
         NEW a \in Int, NEW b \in Int, 1 <= a, b <= n
  PROVE  SubSeq(s, a, b) = [k \in 1 .. b - a + 1 |-> s[a + k - 1]]
<1> DEFINE S == {s[k] : k \in 1 .. n}
<1>1. s \in [1 .. n -> S]
  BY DEF Elements
<1> HIDE DEF S
<1>2. s \in Seq(S) /\ Len(s) = n
  BY <1>1
<1> QED
  BY <1>2
=============================================================================

------------------------------ MODULE NatFacts ------------------------------
(***************************************************************************)
(* Induction over the natural numbers in a form that the provers can use:  *)
(* about sets of numbers instead of predicates.  It follows from the       *)
(* well-foundedness of <, and gives running sums of sequences of integers, *)
(* which the counters of the models are compared with.                     *)
(***************************************************************************)
EXTENDS Integers, Sequences, WellFoundedInduction, TLAPS

\* The order of the natural numbers, as a relation that is a set.
LEMMA NatOrder ==
    \E R : IsWellFoundedOn(R, Nat) /\ \A y, x \in Nat : y < x => <<y, x>> \in R
<1>1. \A y, x \in Nat : y < x => <<y, x>> \in OpToRel(<, Nat)
  BY Zenon DEF OpToRel
<1> QED BY <1>1, NatLessThanWellFounded, Zenon

\* A set of natural numbers that is not empty has a least element.
LEMMA LeastNat ==
    ASSUME NEW T \in SUBSET Nat, T # {}
    PROVE  \E n \in T : \A m \in T : n <= m
<1>1. PICK R : IsWellFoundedOn(R, Nat) /\ \A y, x \in Nat : y < x => <<y, x>> \in R
  BY NatOrder
<1>2. T \subseteq Nat
  OBVIOUS
<1>3. \E x \in T : \A y \in T : ~ (<<y, x>> \in R)
  <2>1. IsWellFoundedOn(R, Nat)
    BY <1>1
  <2> QED BY <1>2, <2>1, WFMin, Zenon
<1>4. PICK x \in T : \A y \in T : ~ (<<y, x>> \in R)
  BY <1>3
<1>5. ASSUME NEW y \in T PROVE x <= y
  <2>1. y \in Nat /\ x \in Nat
    BY <1>2
  <2>2. ~(y < x)
    BY <1>1, <1>4, <2>1, Zenon
  <2> QED BY <2>1, <2>2
<1> QED BY <1>5

\* Induction: a set that has 0 and the successors of its elements is Nat.
LEMMA NatSetInduction ==
    ASSUME NEW S \in SUBSET Nat, 0 \in S, \A n \in S : n + 1 \in S
    PROVE  S = Nat
<1> DEFINE T == Nat \ S
<1>1. ASSUME T # {} PROVE FALSE
  <2>1. PICK n \in T : \A m \in T : n <= m
    BY <1>1, LeastNat
  <2>2. n - 1 \in Nat /\ n - 1 \in S
    BY <2>1
  <2>3. (n - 1) + 1 \in S
     BY <2>2
  <2> QED BY <2>1, <2>3
<1> QED BY <1>1

\* A set of integers that is bounded from below has a least element, one that
\* is bounded from above a greatest.
LEMMA LeastInt ==
    ASSUME NEW T \in SUBSET Int, T # {}, NEW b \in Int, \A n \in T : b <= n
    PROVE  \E n \in T : \A m \in T : n <= m
<1> DEFINE U == {k \in Nat : \E n \in T : k = n - b}
<1>1. \A n \in T : n \in Int
  OBVIOUS
<1>2. U \in SUBSET Nat /\ U # {}
  <2>1. PICK n \in T : TRUE
    OBVIOUS
  <2>2. n - b \in U
    BY <1>1
  <2> QED BY <2>2
<1>3. PICK u \in U : \A v \in U : u <= v
  BY <1>2, LeastNat
<1>4. PICK n \in T : u = n - b
  BY <1>3
<1>5. ASSUME NEW m \in T PROVE n <= m
  <2>1. m - b \in U /\ m \in Int /\ n \in Int
    BY <1>1
  <2>2. u <= m - b
    BY <1>3, <2>1
  <2> QED BY <1>4, <2>1, <2>2
<1> QED BY <1>5

\* A nonempty set of integers with an upper bound has a greatest element.
LEMMA GreatestInt ==
    ASSUME NEW T \in SUBSET Int, T # {}, NEW b \in Int, \A n \in T : n <= b
    PROVE  \E n \in T : \A m \in T : m <= n
<1> DEFINE U == {k \in Nat : \E n \in T : k = b - n}
<1>1. \A n \in T : n \in Int
  OBVIOUS
<1>2. U \in SUBSET Nat /\ U # {}
  <2>1. PICK n \in T : TRUE
    OBVIOUS
  <2>2. b - n \in U
    BY <1>1
  <2> QED BY <2>2
<1>3. PICK u \in U : \A v \in U : u <= v
  BY <1>2, LeastNat
<1>4. PICK n \in T : u = b - n
  BY <1>3
<1>5. ASSUME NEW m \in T PROVE m <= n
  <2>1. b - m \in U /\ m \in Int /\ n \in Int
    BY <1>1
  <2>2. u <= b - m
    BY <1>3, <2>1
  <2> QED BY <1>4, <2>1, <2>2
<1> QED BY <1>5

-----------------------------------------------------------------------------

\* f has the running sums of the first n elements of s.
Sums(f, n, s) ==
    /\ f \in [0 .. n -> Int]
    /\ f[0] = 0
    /\ \A i \in 1 .. n : f[i] = f[i - 1] + s[i]

\* Running sums exist.
LEMMA SumsExist ==
    \A n \in Nat : \A s \in [1 .. n -> Int] : \E f : Sums(f, n, s)
<1> DEFINE S == {n \in Nat : \A s \in [1 .. n -> Int] : \E f : Sums(f, n, s)}
<1>1. 0 \in S
  <2>1. ASSUME NEW s PROVE Sums([i \in 0 .. 0 |-> 0], 0, s)
    BY DEF Sums
  <2> QED BY <2>1
<1>2. ASSUME NEW n \in S PROVE n + 1 \in S
  <2>1. ASSUME NEW s \in [1 .. n + 1 -> Int] PROVE \E f : Sums(f, n + 1, s)
    <3> DEFINE r == [i \in 1 .. n |-> s[i]]
    <3>1. r \in [1 .. n -> Int]
      OBVIOUS
    <3>2. PICK f : Sums(f, n, r)
      BY <3>1
    <3> DEFINE g == [i \in 0 .. n + 1 |-> IF i = n + 1 THEN f[n] + s[n + 1] ELSE f[i]]
    <3>3. g \in [0 .. n + 1 -> Int] /\ g[0] = 0
      BY <3>2 DEF Sums
    <3>4. ASSUME NEW i \in 1 .. n + 1 PROVE g[i] = g[i - 1] + s[i]
      BY <3>2 DEF Sums
    <3>5. Sums(g, n + 1, s)
      <4> HIDE DEF g
      <4> QED BY <3>3, <3>4 DEF Sums
    <3> QED BY <3>5
  <2> QED BY <2>1
<1> HIDE DEF S
<1>3. S = Nat
  <2>1. S \in SUBSET Nat
    BY DEF S
  <2> QED BY <1>1, <1>2, <2>1, NatSetInduction
<1> QED BY <1>3 DEF S

\* There is only one function of running sums.
LEMMA SumsUnique ==
    ASSUME NEW n \in Nat, NEW s, NEW f, NEW g, Sums(f, n, s), Sums(g, n, s)
    PROVE  f = g
<1> DEFINE S == {i \in Nat : i <= n => f[i] = g[i]}
<1>1. 0 \in S
  BY DEF Sums
<1>2. ASSUME NEW i \in S PROVE i + 1 \in S
  <2>1. CASE i + 1 <= n
    <3>1. i + 1 \in 1 .. n /\ (i + 1) - 1 = i
      BY <2>1
    <3>2. f[i + 1] = f[i] + s[i + 1] /\ g[i + 1] = g[i] + s[i + 1]
      BY <3>1 DEF Sums
    <3> QED BY <2>1, <3>2
  <2>2. CASE ~(i + 1 <= n)
    BY <2>2
  <2> QED BY <2>1, <2>2
<1> HIDE DEF S
<1>3. S = Nat
  <2>1. S \in SUBSET Nat
    BY DEF S
  <2> QED BY <1>1, <1>2, <2>1, NatSetInduction
<1>4. \A i \in 0 .. n : f[i] = g[i]
  BY <1>3 DEF S
<1> QED BY <1>4 DEF Sums

\* Sums of numbers that are not negative are not negative.
LEMMA SumsNat ==
    ASSUME NEW n \in Nat, NEW s \in [1 .. n -> Nat], NEW f, Sums(f, n, s)
    PROVE  \A i \in 0 .. n : f[i] \in Nat
<1> DEFINE S == {i \in Nat : i <= n => f[i] \in Nat}
<1>1. 0 \in S
  BY DEF Sums
<1>2. ASSUME NEW i \in S PROVE i + 1 \in S
  <2>1. CASE i + 1 <= n
    <3>1. i + 1 \in 1 .. n /\ (i + 1) - 1 = i
      BY <2>1
    <3>2. f[i + 1] = f[i] + s[i + 1] /\ s[i + 1] \in Nat
      BY <3>1 DEF Sums
    <3> QED BY <2>1, <3>2
  <2>2. CASE ~(i + 1 <= n)
    BY <2>2
  <2> QED BY <2>1, <2>2
<1> HIDE DEF S
<1>3. S = Nat
  <2>1. S \in SUBSET Nat
    BY DEF S
  <2> QED BY <1>1, <1>2, <2>1, NatSetInduction
<1> QED BY <1>3 DEF S
=============================================================================

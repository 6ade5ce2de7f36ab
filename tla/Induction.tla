----------------------------- MODULE Induction -----------------------------
(***************************************************************************)
(* Induction on the natural numbers, stated for sets of numbers, and the   *)
(* functions that are defined by it.  The proofs need both where a model   *)
(* has a recursive function or follows a chain.                            *)
(***************************************************************************)
EXTENDS Integers, WellFoundedInduction, TLAPS

\* A nonempty set of numbers has a least element.
LEMMA LeastNumber ==
  ASSUME NEW S, S \subseteq Nat, S # {}
  PROVE  \E n \in S : \A m \in S : n <= m
<1> DEFINE R == {ss \in Nat \X Nat : ss[1] < ss[2]}
<1>1. OpToRel(<, Nat) = R
  BY Zenon DEF OpToRel
<1>2. IsWellFoundedOn(R, Nat)
  BY <1>1, NatLessThanWellFounded, Zenon
<1>3. \A m, n \in Nat : m < n => <<m, n>> \in R
  OBVIOUS
<1> HIDE DEF R
<1>4. \E n \in S : \A m \in S : ~ (<<m, n>> \in R)
  BY <1>2, WFMin
<1>5. PICK n \in S : \A m \in S : ~ (<<m, n>> \in R)
  BY <1>4
<1>6. \A m \in S : m \in Nat /\ ~(m < n)
  BY <1>3, <1>5
<1> QED
  BY <1>5, <1>6

\* A set of numbers that contains 0 and is closed under successor up to K
\* contains the numbers up to K.
LEMMA InductionUpTo ==
  ASSUME NEW K \in Nat, NEW S, 0 \in S,
         \A n \in 0..(K - 1) : n \in S => n + 1 \in S
  PROVE  0..K \subseteq S
<1> DEFINE Missing == {n \in 0..K : n \notin S}
<1> SUFFICES ASSUME Missing # {}
             PROVE  FALSE
  OBVIOUS
<1>1. PICK n \in Missing : \A m \in Missing : n <= m
  <2>1. Missing \subseteq Nat
    OBVIOUS
  <2> QED
    BY <2>1, LeastNumber
<1>2. n \in Nat /\ n # 0 /\ n <= K
  OBVIOUS
<1>3. n - 1 \in S
  BY <1>1, <1>2
<1> QED
  BY <1>2, <1>3

\* f has the first value a, and every further value is a step from the one before.
Iterates(f, K, a, step) == f[0] = a /\ \A n \in 1..K : f[n] = step[n][f[n - 1]]

\* A function on 0..K that is defined by its first value and a step exists.
LEMMA RecursionUpTo ==
  ASSUME NEW K \in Nat, NEW A, NEW a \in A, NEW step \in [Nat -> [A -> A]]
  PROVE  \E f \in [0..K -> A] : Iterates(f, K, a, step)
<1> DEFINE Defined(n, f) == f[0] = a /\ \A i \in 1..n : f[i] = step[i][f[i - 1]]
           S == {n \in Nat : \E f \in [0..n -> A] : Defined(n, f)}
<1>1. 0 \in S
  <2> DEFINE f == [i \in 0..0 |-> a]
  <2>1. f \in [0..0 -> A] /\ Defined(0, f)
    OBVIOUS
  <2> QED
    BY <2>1
<1>2. ASSUME NEW n \in Nat, n \in S PROVE n + 1 \in S
  <2>1. PICK f \in [0..n -> A] : Defined(n, f)
    BY <1>2
  <2> DEFINE g == [i \in 0..(n + 1) |-> IF i = n + 1 THEN step[i][f[n]] ELSE f[i]]
  <2>a. f[0] = a /\ \A i \in 1..n : f[i] = step[i][f[i - 1]]
    BY <2>1
  <2>b. g \in [0..(n + 1) -> A]
    OBVIOUS
  <2>c. g[n + 1] = step[n + 1][g[n]] /\ g[0] = a
    BY <2>a
  <2>d. \A i \in 1..n : g[i] = f[i] /\ g[i - 1] = f[i - 1]
    OBVIOUS
  <2>2. \A i \in 1..n : g[i] = step[i][g[i - 1]]
    BY <2>a, <2>d
  <2>3. Defined(n + 1, g)
    <3> HIDE DEF g
    <3>1. \A i \in 1..(n + 1) : i = n + 1 \/ i \in 1..n
      OBVIOUS
    <3> QED
      BY <2>c, <2>2, <3>1
  <2> HIDE DEF g, Defined
  <2> QED
    BY <2>b, <2>3
<1>3. K \in S
  <2> HIDE DEF S
  <2>1. 0..K \subseteq S
    BY <1>1, <1>2, InductionUpTo
  <2> QED
    BY <2>1
<1> QED
  BY <1>3 DEF Iterates
=============================================================================

------------------------- MODULE RecursiveFunctions -------------------------
(***************************************************************************)
(* Facts about functions that are defined by recursion over the positions  *)
(* of a sequence, as the loops of the program are in the models.           *)
(***************************************************************************)
EXTENDS Integers, WellFoundedInduction, TLAPS

-----------------------------------------------------------------------------
(* Sets of numbers.                                                        *)

\* A set of natural numbers has a smallest element.
LEMMA MinExists ==
    ASSUME NEW S, S \subseteq Nat, S # {}
    PROVE  \E m \in S : \A j \in S : m <= j
  <1> DEFINE R == {ss \in Nat \X Nat : ss[1] < ss[2]}
  <1>1. IsWellFoundedOn(R, Nat)
    BY NatLessThanWellFounded, Zenon DEF OpToRel
  <1> HIDE DEF R
  <1>2. PICK x \in S : \A y \in S : <<y, x>> \notin R
    BY <1>1, WFMin
  <1>3. \A y \in S : ~(y < x)
    BY <1>2 DEF R
  <1> QED
    BY <1>3

\* A set of the numbers up to n that holds 0 and the successor of each of its
\* elements below n holds them all.
LEMMA InductionUpTo ==
    ASSUME NEW n \in Nat, NEW S, 0 \in S, \A k \in 0 .. n - 1 : k \in S => k + 1 \in S
    PROVE  \A k \in 0 .. n : k \in S
  <1>1. SUFFICES ASSUME NEW b \in 0 .. n, b \notin S PROVE FALSE
    OBVIOUS
  <1> DEFINE B == {k \in 0 .. n : k \notin S}
  <1>2. b \in B /\ B \subseteq Nat
    BY <1>1
  <1>3. PICK m \in B : \A j \in B : m <= j
    BY <1>2, MinExists, Zenon
  <1>4. m \in 0 .. n /\ m \notin S /\ m # 0
    BY <1>3
  <1>5. m - 1 \in 0 .. n - 1 /\ m - 1 \notin B
    BY <1>3, <1>4
  <1>6. m - 1 \in S
    BY <1>4, <1>5
  <1> QED
    BY <1>4, <1>5, <1>6

-----------------------------------------------------------------------------
(* Recursive functions over the positions of a sequence.                   *)

\* f starts at base and takes step[i] from f[i - 1] to f[i].
Unfolds(f, n, base, step) ==
    f = [i \in 0 .. n |-> IF i = 0 THEN base ELSE step[<<i, f[i - 1]>>]]

\* There is one.
LEMMA RecursionExists ==
    ASSUME NEW n \in Nat, NEW V, NEW base \in V, NEW step \in [(1 .. n) \X V -> V]
    PROVE  \E f \in [0 .. n -> V] : Unfolds(f, n, base, step)
  <1> DEFINE S == {k \in 0 .. n : \E f \in [0 .. k -> V] : Unfolds(f, k, base, step)}
  <1>1. 0 \in S
    <2>1. [i \in 0 .. 0 |-> base] \in [0 .. 0 -> V]
      OBVIOUS
    <2>2. Unfolds([i \in 0 .. 0 |-> base], 0, base, step)
      BY DEF Unfolds
    <2> QED
      BY <2>1, <2>2
  <1>2. ASSUME NEW k \in 0 .. n - 1, k \in S
        PROVE  k + 1 \in S
    <2>1. PICK f \in [0 .. k -> V] : Unfolds(f, k, base, step)
      BY <1>2
    <2> DEFINE g == [i \in 0 .. k + 1 |-> IF i = k + 1 THEN step[<<k + 1, f[k]>>] ELSE f[i]]
    <2>2. step[<<k + 1, f[k]>>] \in V
      <3>1. <<k + 1, f[k]>> \in (1 .. n) \X V
        OBVIOUS
      <3> QED
        BY <3>1
    <2>3. g \in [0 .. k + 1 -> V]
      BY <2>2
    <2>4. ASSUME NEW i \in 0 .. k + 1
          PROVE  g[i] = IF i = 0 THEN base ELSE step[<<i, g[i - 1]>>]
      <3>1. CASE i = k + 1
        <4>1. i # 0 /\ i - 1 = k /\ k \in 0 .. k + 1 /\ k # k + 1
          BY <3>1
        <4>2. g[k] = f[k] /\ g[i] = step[<<k + 1, f[k]>>]
          BY <3>1, <4>1
        <4> HIDE DEF g
        <4> QED
          BY <3>1, <4>1, <4>2
      <3>2. CASE i # k + 1
        <4>1. i \in 0 .. k /\ g[i] = f[i] /\ (i # 0 => g[i - 1] = f[i - 1])
          BY <3>2
        <4>2. f[i] = IF i = 0 THEN base ELSE step[<<i, f[i - 1]>>]
          BY <2>1, <4>1 DEF Unfolds
        <4> QED
          BY <4>1, <4>2
      <3> QED
        BY <3>1, <3>2
    <2>5. Unfolds(g, k + 1, base, step)
      <3> HIDE DEF g
      <3> QED
        BY <2>3, <2>4 DEF Unfolds
    <2>6. k + 1 \in 0 .. n
      OBVIOUS
    <2> HIDE DEF g
    <2> QED
      BY <2>3, <2>5, <2>6
  <1> HIDE DEF S
  <1>3. n \in S
    BY <1>1, <1>2, InductionUpTo
  <1> QED
    BY <1>3 DEF S

=============================================================================

----------------------------- MODULE Induction ------------------------------
(***************************************************************************)
(* Induction over the natural numbers, and functions defined by recursion, *)
(* in terms of sets: a property is the set of the numbers that have it.    *)
(***************************************************************************)
EXTENDS Integers, WellFoundedInduction, TLAPS

(* A set of natural numbers has a least element.                           *)
LEMMA Least ==
  ASSUME NEW T, T \subseteq Nat, T # {}
  PROVE  \E x \in T : \A y \in T : x <= y
<1> DEFINE R == OpToRel(<, Nat)
<1>1. IsWellFoundedOn(R, Nat)
  BY NatLessThanWellFounded
<1>2. \A x, y \in Nat : y < x => <<y, x>> \in R
  BY DEF OpToRel
<1> HIDE DEF R
<1>3. PICK x \in T : \A y \in T : <<y, x>> \notin R
  BY <1>1, WFMin
<1>4. ASSUME NEW y \in T PROVE x <= y
  <2>1. x \in Nat /\ y \in Nat /\ ~(y < x)
    BY <1>2, <1>3
  <2> QED BY <2>1
<1> QED BY <1>4

(* What holds of 0, and of n + 1 whenever of n, holds of every number.     *)
LEMMA Induction ==
  ASSUME NEW T, 0 \in T, \A n \in Nat : n \in T => n + 1 \in T
  PROVE  \A n \in Nat : n \in T
<1> SUFFICES ASSUME NEW m \in Nat, m \notin T PROVE FALSE
  OBVIOUS
<1>1. PICK x \in Nat \ T : \A y \in Nat \ T : x <= y
  BY Least
<1>2. x # 0 /\ x - 1 \in Nat
  OBVIOUS
<1>3. x - 1 \in T
  BY <1>1, <1>2
<1> QED BY <1>2, <1>3

(* What holds of a number whenever of all smaller ones, holds of every one.  *)
LEMMA StrongInduction ==
  ASSUME NEW T, \A n \in Nat : (\A m \in 0 .. n - 1 : m \in T) => n \in T
  PROVE  \A n \in Nat : n \in T
<1> SUFFICES ASSUME NEW m \in Nat, m \notin T PROVE FALSE
  OBVIOUS
<1>1. PICK x \in Nat \ T : \A y \in Nat \ T : x <= y
  BY Least
<1>2. \A y \in 0 .. x - 1 : y \in T
  BY <1>1
<1> QED BY <1>1, <1>2

(* A recursive definition on 0 .. n: the value for v is first[v] below b,  *)
(* and from b on step[v] of the value for a smaller number, below[v].      *)
Scheme(S, n, b, first, below, step) ==
  /\ n \in Nat
  /\ b \in Nat \ {0}
  /\ first \in [0 .. n -> S]
  /\ below \in [b .. n -> Nat]
  /\ \A v \in b .. n : below[v] < v
  /\ step \in [b .. n -> [S -> S]]

Solves(f, S, n, b, first, below, step) ==
  /\ f \in [0 .. n -> S]
  /\ \A v \in 0 .. n : f[v] = IF v < b THEN first[v] ELSE step[v][f[below[v]]]

(* Such a definition defines a function.                                   *)
LEMMA Recursion ==
  ASSUME NEW S, NEW n, NEW b, NEW first, NEW below, NEW step,
         Scheme(S, n, b, first, below, step)
  PROVE  \E f : Solves(f, S, n, b, first, below, step)
<1> USE DEF Scheme
<1> DEFINE Obeys(f, m) == \A v \in 0 .. m : f[v] = IF v < b THEN first[v] ELSE step[v][f[below[v]]]
           T == {m \in Nat : m <= n => \E f \in [0 .. m -> S] : Obeys(f, m)}
<1>1. 0 \in T
  <2>1. [v \in 0 .. 0 |-> first[v]] \in [0 .. 0 -> S]
    OBVIOUS
  <2>2. Obeys([v \in 0 .. 0 |-> first[v]], 0)
    OBVIOUS
  <2> QED BY <2>1, <2>2
<1>2. ASSUME NEW m \in Nat, m \in T PROVE m + 1 \in T
  <2> SUFFICES ASSUME m + 1 <= n PROVE \E f \in [0 .. m + 1 -> S] : Obeys(f, m + 1)
    OBVIOUS
  <2>1. PICK f \in [0 .. m -> S] : Obeys(f, m)
    <3>1. m <= n
      OBVIOUS
    <3> HIDE DEF Obeys
    <3> QED BY <1>2, <3>1
  <2> DEFINE last == IF m + 1 < b THEN first[m + 1] ELSE step[m + 1][f[below[m + 1]]]
             g == [v \in 0 .. m + 1 |-> IF v = m + 1 THEN last ELSE f[v]]
  <2>2. \A v \in 0 .. m + 1 : v = m + 1 \/ v \in 0 .. m
    OBVIOUS
  <2>3. \A v \in 0 .. m + 1 : v >= b => v \in b .. n /\ below[v] \in 0 .. m
    OBVIOUS
  <2>4. last \in S
    <3>1. CASE m + 1 < b
      <4>1. first[m + 1] \in S
        OBVIOUS
      <4> QED BY <3>1, <4>1
    <3>2. CASE ~(m + 1 < b)
      <4>1. m + 1 \in b .. n /\ f[below[m + 1]] \in S
        BY <2>3, <3>2
      <4>2. step[m + 1] \in [S -> S]
        BY <4>1
      <4> QED BY <3>2, <4>1, <4>2
    <3> QED BY <3>1, <3>2
  <2>5. g \in [0 .. m + 1 -> S]
    BY <2>2, <2>4
  <2>6. (\A v \in 0 .. m : g[v] = f[v]) /\ g[m + 1] = last
    OBVIOUS
  <2>7. Obeys(g, m + 1)
    <3> SUFFICES ASSUME NEW v \in 0 .. m + 1
                 PROVE  g[v] = IF v < b THEN first[v] ELSE step[v][g[below[v]]]
      OBVIOUS
    <3> HIDE DEF g
    <3>1. v >= b => g[below[v]] = f[below[v]]
      BY <2>3, <2>6
    <3>2. CASE v = m + 1
      BY <2>6, <3>1, <3>2
    <3>3. CASE v \in 0 .. m
      BY <2>1, <2>6, <3>1, <3>3
    <3> QED BY <2>2, <3>2, <3>3
  <2> QED BY <2>5, <2>7
<1>3. n \in T
  <2> HIDE DEF T
  <2> QED BY <1>1, <1>2, Induction
<1> QED BY <1>3 DEF Solves

(* A loop: n steps, each from the state the last one left.                 *)
Iterates(f, S, n, first, step) ==
  /\ f \in [0 .. n -> S]
  /\ f[0] = first
  /\ \A k \in 1 .. n : f[k] = step[k][f[k - 1]]

LEMMA Iteration ==
  ASSUME NEW S, NEW n \in Nat, NEW first \in S, NEW step \in [1 .. n -> [S -> S]]
  PROVE  \E f : Iterates(f, S, n, first, step)
<1> DEFINE constant == [k \in 0 .. n |-> first]
           below == [k \in 1 .. n |-> k - 1]
<1>1. constant \in [0 .. n -> S]
  OBVIOUS
<1>2. below \in [1 .. n -> Nat] /\ \A k \in 1 .. n : below[k] < k
  OBVIOUS
<1>3. 1 \in Nat \ {0}
  OBVIOUS
<1>4. Scheme(S, n, 1, constant, below, step)
  <2> HIDE DEF constant, below
  <2> QED BY <1>1, <1>2, <1>3 DEF Scheme
<1>5. PICK f : Solves(f, S, n, 1, constant, below, step)
  <2> HIDE DEF constant, below
  <2> QED BY <1>4, Recursion
<1>6. f \in [0 .. n -> S]
  BY <1>5 DEF Solves
<1>7. f[0] = first
  <2>1. 0 \in 0 .. n /\ 0 < 1 /\ constant[0] = first
    OBVIOUS
  <2> HIDE DEF constant, below
  <2> QED BY <1>5, <2>1 DEF Solves
<1>8. ASSUME NEW k \in 1 .. n PROVE f[k] = step[k][f[k - 1]]
  <2>1. k \in 0 .. n /\ ~(k < 1) /\ below[k] = k - 1
    OBVIOUS
  <2> HIDE DEF constant, below
  <2>2. f[k] = step[k][f[below[k]]]
    BY <1>5, <2>1 DEF Solves
  <2> QED BY <2>1, <2>2
<1> QED BY <1>6, <1>7, <1>8 DEF Iterates

(* Two functions that stay the same from one number to the next.           *)
LEMMA Agreement ==
  ASSUME NEW n \in Nat, NEW f, NEW g, f[0] = g[0],
         \A k \in 1 .. n : f[k - 1] = g[k - 1] => f[k] = g[k]
  PROVE  f[n] = g[n]
<1> DEFINE T == {k \in Nat : k <= n => f[k] = g[k]}
<1>1. 0 \in T
  OBVIOUS
<1>2. ASSUME NEW k \in Nat, k \in T PROVE k + 1 \in T
  <2> SUFFICES ASSUME k + 1 <= n PROVE f[k + 1] = g[k + 1]
    OBVIOUS
  <2>1. k + 1 \in 1 .. n /\ (k + 1) - 1 = k /\ f[k] = g[k]
    BY <1>2
  <2> QED BY <2>1
<1> HIDE DEF T
<1>3. \A k \in Nat : k \in T
  BY <1>1, <1>2, Induction
<1> QED BY <1>3 DEF T
=============================================================================

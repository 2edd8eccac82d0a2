---------------------------- MODULE LeastElement ----------------------------
(* A nonempty set of natural numbers has a least element, and a bounded one a    *)
(* greatest.  What a function or a fold computes step by step is proved with the *)
(* least number it is wrong for: the library's induction theorems, which take    *)
(* the statement as a parameter, cannot be instantiated here.                    *)
EXTENDS Integers, WellFoundedInduction, TLAPS

Below == {ij \in Nat \X Nat : ij[1] < ij[2]}

LEMMA BelowWellFounded == IsWellFoundedOn(Below, Nat)
BY NatLessThanWellFounded DEF Below, OpToRel

LEMMA LeastNat == ASSUME NEW T \in SUBSET Nat, T # {} PROVE \E x \in T : \A y \in T : x <= y
<1>1. \E x \in T : \A y \in T : ~ (<<y, x>> \in Below)
  BY BelowWellFounded, WFMin
<1>2. PICK x \in T : \A y \in T : ~ (<<y, x>> \in Below)
  BY <1>1
<1>3. ASSUME NEW y \in T PROVE x <= y
  <2>1. ~ (<<y, x>> \in Below) /\ x \in Nat /\ y \in Nat
    BY <1>2
  <2>2. ~ (y < x)
    BY <2>1 DEF Below
  <2>3. QED BY <2>1, <2>2
<1>4. QED BY <1>3

LEMMA GreatestNat ==
  ASSUME NEW n \in Nat, NEW S \in SUBSET (1 .. n), S # {}
  PROVE  \E x \in S : \A y \in S : y <= x
<1> DEFINE T == {n - y : y \in S}
<1>1. T \in SUBSET Nat /\ T # {}
  <2>1. PICK y \in S : TRUE
    OBVIOUS
  <2>2. n - y \in T
    OBVIOUS
  <2>3. T \in SUBSET Nat
    OBVIOUS
  <2>4. QED BY <2>2, <2>3
<1>2. PICK t \in T : \A u \in T : t <= u
  BY <1>1, LeastNat
<1>3. PICK x \in S : t = n - x
  BY <1>2
<1>4. ASSUME NEW y \in S PROVE y <= x
  <2>1. n - y \in T /\ n - x <= n - y
    BY <1>2, <1>3
  <2>2. x \in Nat /\ y \in Nat
    OBVIOUS
  <2>3. QED BY <2>1, <2>2
<1>5. QED BY <1>4

-----------------------------------------------------------------------------
(* A function computed step by step, here from a base and the steps of 1 .. N, exists. *)
Steps(step, N, S) == step \in [1 .. N -> [S -> S]]

Computes(f, base, step, N) == f[0] = base /\ \A n \in 1 .. N : f[n] = step[n][f[n - 1]]

LEMMA StepsExist ==
  ASSUME NEW N \in Nat, NEW S, NEW base \in S, NEW step, Steps(step, N, S)
  PROVE  \E f \in [0 .. N -> S] : Computes(f, base, step, N)
<1> USE DEF Steps, Computes
<1> DEFINE Fits(f, m) == f[0] = base /\ \A n \in 1 .. m : f[n] = step[n][f[n - 1]]
           T == {m \in 0 .. N : ~ \E f \in [0 .. m -> S] : Fits(f, m)}
<1>1. SUFFICES ASSUME T # {} PROVE FALSE
  <2>1. N \in 0 .. N
    OBVIOUS
  <2>2. QED BY <2>1
<1>2. PICK m \in T : \A u \in T : m <= u
  <2>1. T \in SUBSET Nat
    OBVIOUS
  <2>2. QED BY <1>1, <2>1, LeastNat
<1>3. m \in 0 .. N /\ ~ \E f \in [0 .. m -> S] : Fits(f, m)
  OBVIOUS
<1>4. CASE m = 0
  <2> DEFINE g == [n \in 0 .. m |-> base]
  <2>1. g \in [0 .. m -> S] /\ Fits(g, m)
    BY <1>4
  <2>2. QED BY <1>3, <2>1
<1>5. CASE m # 0
  <2>1. m - 1 \in 0 .. N /\ ~ (m <= m - 1)
    BY <1>3, <1>5
  <2>2. m - 1 \notin T
    BY <1>2, <2>1
  <2>3. PICK f \in [0 .. m - 1 -> S] : Fits(f, m - 1)
    BY <2>1, <2>2
  <2>4. m \in 1 .. N /\ m - 1 \in 0 .. m - 1 /\ 0 \in 0 .. m - 1
    BY <1>3, <1>5
  <2>5. step[m][f[m - 1]] \in S
    BY <2>4
  <2> DEFINE g == [n \in 0 .. m |-> IF n = m THEN step[m][f[m - 1]] ELSE f[n]]
  <2>6. g \in [0 .. m -> S]
    BY <2>4, <2>5
  <2>7. g[0] = base
    BY <2>3, <2>4
  <2>8. ASSUME NEW n \in 1 .. m PROVE g[n] = step[n][g[n - 1]]
    <3>1. n - 1 \in 0 .. m /\ n - 1 # m /\ (n = m \/ n \in 1 .. m - 1)
      BY <2>4
    <3>2. g[n - 1] = f[n - 1]
      BY <3>1
    <3>3. n \in 1 .. m - 1 => g[n] = f[n]
      BY <2>4
    <3>4. n = m => g[n] = step[m][f[m - 1]]
      BY <2>4
    <3> HIDE DEF g
    <3>5. QED BY <2>3, <3>1, <3>2, <3>3, <3>4
  <2>9. QED BY <1>3, <2>6, <2>7, <2>8
<1>6. QED BY <1>4, <1>5

InStep(f, g, N) == f[0] = g[0] /\ \A n \in 1 .. N : f[n - 1] = g[n - 1] => f[n] = g[n]

Agree(f, g, N) == \A n \in 0 .. N : f[n] = g[n]

LEMMA SameSteps == ASSUME NEW N \in Nat, NEW f, NEW g, InStep(f, g, N) PROVE Agree(f, g, N)
<1> USE DEF InStep, Agree
<1> DEFINE T == {n \in 0 .. N : f[n] # g[n]}
<1>1. SUFFICES ASSUME T # {} PROVE FALSE
  OBVIOUS
<1>2. PICK m \in T : \A u \in T : m <= u
  <2>1. T \in SUBSET Nat
    OBVIOUS
  <2>2. QED BY <1>1, <2>1, LeastNat
<1>3. m \in 1 .. N /\ m - 1 \in 0 .. N /\ ~ (m <= m - 1)
  OBVIOUS
<1>4. f[m - 1] # g[m - 1]
  BY <1>3
<1>5. m - 1 \in T
  BY <1>3, <1>4
<1>6. QED BY <1>2, <1>3, <1>5
=============================================================================

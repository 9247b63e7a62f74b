-------------------------- MODULE Iteration_proofs --------------------------
(***************************************************************************)
(* Induction over the naturals, stated of a set of them, and what it says  *)
(* of a definition that goes from one index of a sequence to the next.     *)
(***************************************************************************)
EXTENDS Integers, Sequences, FiniteSetsExt, FiniteSetTheorems, TLAPS

(* A set of naturals that is not empty has a least element: their initial  *)
(* segments are finite sets, and those are well-founded.                   *)
LEMMA LeastOf ==
  ASSUME NEW S, S \subseteq Nat, S # {}
  PROVE  Min(S) \in S /\ \A y \in S : Min(S) <= y
<1>. DEFINE Below(n) == 0 .. n - 1
            T == {Below(n) : n \in S}
<1>1. T \subseteq FiniteSubsetsOf(Nat) /\ T # {}
  <2>1. ASSUME NEW n \in S PROVE Below(n) \subseteq Nat /\ IsFiniteSet(Below(n))
    BY FS_Interval
  <2>. QED
    BY <2>1 DEF FiniteSubsetsOf
<1>2. PICK t \in T : \A u \in T : <<u, t>> \notin StrictSubsetOrdering(Nat)
  <2>. HIDE DEF T
  <2>. QED
    BY <1>1, FS_StrictSubsetOrderingWellFounded, WFMin, Zenon
<1>3. PICK x \in S : t = Below(x)
  OBVIOUS
<1>4. ASSUME NEW y \in S PROVE x <= y
  <2>1. SUFFICES ASSUME y < x PROVE FALSE
    OBVIOUS
  <2>2. Below(y) \subseteq Below(x) /\ Below(y) # Below(x) /\ Below(x) \subseteq Nat
    <3>1. y \in Below(x) /\ y \notin Below(y)
      BY <2>1
    <3>. QED
      BY <2>1, <3>1
  <2>3. <<Below(y), t>> \in StrictSubsetOrdering(Nat)
    BY <1>3, <2>2 DEF StrictSubsetOrdering
  <2>. QED
    BY <1>2, <2>3
<1>. QED
  BY <1>4 DEF Min

(* A set with zero, and with each natural's successor, has all of them.    *)
LEMMA Induction ==
  ASSUME NEW S, 0 \in S, \A i \in Nat : i \in S => i + 1 \in S
  PROVE  \A n \in Nat : n \in S
<1>. DEFINE Out == {n \in Nat : n \notin S}
<1>1. SUFFICES ASSUME Out # {} PROVE FALSE
  OBVIOUS
<1>2. Min(Out) \in Out /\ \A y \in Out : Min(Out) <= y
  BY <1>1, LeastOf
<1>3. PICK m \in Out : \A y \in Out : m <= y
  BY <1>2
<1>4. m - 1 \in Nat /\ m - 1 \notin Out
  BY <1>3
<1>5. m - 1 + 1 = m
  BY <1>3
<1>. QED
  BY <1>3, <1>4, <1>5

(* The same of the naturals up to a bound.                                 *)
LEMMA UpTo ==
  ASSUME NEW n \in Nat, NEW S, 0 \in S, \A i \in 1 .. n : i - 1 \in S => i \in S
  PROVE  \A i \in 0 .. n : i \in S
<1>. DEFINE T == {i \in Nat : i \in 0 .. n => i \in S}
<1>1. 0 \in T
  OBVIOUS
<1>2. ASSUME NEW i \in Nat, i \in T PROVE i + 1 \in T
  <2>1. SUFFICES ASSUME i + 1 \in 0 .. n PROVE i + 1 \in S
    OBVIOUS
  <2>2. i \in 0 .. n /\ i + 1 \in 1 .. n /\ (i + 1) - 1 = i
    BY <2>1
  <2>. QED
    BY <1>2, <2>2
<1>. HIDE DEF T
<1>3. \A i \in Nat : i \in T
  BY <1>1, <1>2, Induction
<1>. QED
  BY <1>3 DEF T

(* A function whose domain starts at one, of values of a set.              *)
LEMMA SeqIs ==
  ASSUME NEW T, NEW n \in Nat, NEW a, a = [i \in 1 .. n |-> a[i]], \A i \in 1 .. n : a[i] \in T
  PROVE  a \in Seq(T) /\ Len(a) = n
OBVIOUS

(* From a value, a step for each index: there is a function of the values  *)
(* passed through, each the step of the one before.                        *)
Passes(n, S, a, g, f) ==
  /\ f \in [0 .. n -> S] /\ f[0] = a
  /\ \A i \in 1 .. n : f[i] = g[i][f[i - 1]]

LEMMA Iterates ==
  ASSUME NEW n \in Nat, NEW S, NEW a \in S, NEW g \in [1 .. n -> [S -> S]]
  PROVE  \E f : Passes(n, S, a, g, f)
<1>. DEFINE Good == {k \in Nat : k <= n => \E f : Passes(k, S, a, g, f)}
<1>1. 0 \in Good
  <2>. DEFINE f == [i \in 0 .. 0 |-> a]
  <2>1. Passes(0, S, a, g, f)
    BY DEF Passes
  <2>. QED
    BY <2>1
<1>2. ASSUME NEW k \in Nat, k \in Good PROVE k + 1 \in Good
  <2>1. SUFFICES ASSUME k + 1 <= n PROVE \E f : Passes(k + 1, S, a, g, f)
    OBVIOUS
  <2>2. PICK e : Passes(k, S, a, g, e)
    BY <1>2, <2>1
  <2>3. e \in [0 .. k -> S] /\ e[k] \in S /\ g[k + 1] \in [S -> S]
    BY <2>1, <2>2 DEF Passes
  <2>. DEFINE f == [i \in 0 .. k + 1 |-> IF i = k + 1 THEN g[k + 1][e[k]] ELSE e[i]]
  <2>4. f \in [0 .. k + 1 -> S]
    BY <2>3
  <2>5. f[0] = a /\ f[k + 1] = g[k + 1][e[k]] /\ f[k] = e[k]
    BY <2>2 DEF Passes
  <2>6. ASSUME NEW i \in 1 .. k PROVE f[i] = g[i][f[i - 1]]
    <3>1. i \in 0 .. k + 1 /\ i - 1 \in 0 .. k + 1 /\ i # k + 1 /\ i - 1 # k + 1
      OBVIOUS
    <3>2. f[i] = e[i] /\ f[i - 1] = e[i - 1]
      BY <3>1
    <3>. QED
      BY <2>2, <3>2 DEF Passes
  <2>7. Passes(k + 1, S, a, g, f)
    <3>. HIDE DEF f
    <3>1. ASSUME NEW i \in 1 .. k + 1 PROVE f[i] = g[i][f[i - 1]]
      BY <2>5, <2>6
    <3>. QED
      BY <2>4, <2>5, <3>1 DEF Passes
  <2>. QED
    BY <2>7
<1>3. n \in Good
  <2>. HIDE DEF Good
  <2>. QED
    BY <1>1, <1>2, Induction
<1>. QED
  BY <1>3
=============================================================================

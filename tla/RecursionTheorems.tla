-------------------------- MODULE RecursionTheorems --------------------------
(***************************************************************************)
(* What proofs about functions defined by recursion need: induction over   *)
(* the natural numbers, for a set of them, and the existence of a function *)
(* on 0 .. N that a step takes from each value to the next.                *)
(***************************************************************************)
EXTENDS Integers, WellFoundedInduction, TLAPS

LEMMA LessIsWellFounded == IsWellFoundedOn({p \in Nat \X Nat : p[1] < p[2]}, Nat)
BY NatLessThanWellFounded DEF OpToRel

(* A set with 0, and with the successor of each of its numbers, has them all:
   a least number outside would have a predecessor inside. *)
THEOREM SetInduction ==
  ASSUME NEW S, 0 \in S, \A n \in Nat : n \in S => n + 1 \in S
  PROVE  Nat \subseteq S
<1> DEFINE R == {p \in Nat \X Nat : p[1] < p[2]}
           T == Nat \ S
<1>1. IsWellFoundedOn(R, Nat)
  BY LessIsWellFounded
<1>2. SUFFICES ASSUME T # {} PROVE FALSE
  OBVIOUS
<1>3. T \subseteq Nat
  OBVIOUS
<1> HIDE DEF R, T
<1>4. PICK x \in T : \A y \in T : ~ (<<y, x>> \in R)
  BY <1>1, <1>2, <1>3, WFMin
<1>5. x \in Nat /\ x \notin S /\ x # 0
  BY DEF T
<1>6. x - 1 \in Nat /\ x - 1 \notin S
  BY <1>5
<1>7. x - 1 \in T /\ <<x - 1, x>> \in R
  BY <1>5, <1>6 DEF T, R
<1>8. QED
  BY <1>4, <1>7

\* f begins with z and goes on with step, up to n.
Follows(f, z, step, n) ==
  f[0] = z /\ \A i \in 1 .. n : f[i] = step[i][f[i - 1]]

LEMMA FollowsOn ==
  ASSUME NEW V, NEW N \in Nat, NEW step \in [1 .. N -> [V -> V]], NEW z \in V,
         NEW n \in Nat, n + 1 <= N, NEW f \in [0 .. n -> V], Follows(f, z, step, n)
  PROVE  \E g \in [0 .. n + 1 -> V] : Follows(g, z, step, n + 1)
<1> DEFINE g == [i \in 0 .. n + 1 |-> IF i = n + 1 THEN step[n + 1][f[n]] ELSE f[i]]
<1>1. n + 1 \in 1 .. N /\ f[n] \in V
  OBVIOUS
<1>2. step[n + 1] \in [V -> V]
  BY <1>1
<1>3. step[n + 1][f[n]] \in V
  BY <1>1, <1>2
<1>4. g \in [0 .. n + 1 -> V]
  BY <1>3
<1>5. g[0] = z
  BY DEF Follows
<1>6. ASSUME NEW i \in 1 .. n + 1 PROVE g[i] = step[i][g[i - 1]]
  <2>1. CASE i = n + 1
    BY <2>1
  <2>2. CASE i \in 1 .. n
    BY <2>2 DEF Follows
  <2>3. QED
    BY <2>1, <2>2
<1> HIDE DEF g
<1>7. QED
  BY <1>4, <1>5, <1>6 DEF Follows

(* A recursive definition over 0 .. N has a solution, so that the function it
   chooses is one: what it is at each number is what the step makes of what it
   is before. *)
THEOREM Recursion ==
  ASSUME NEW V, NEW N \in Nat, NEW step \in [1 .. N -> [V -> V]], NEW z \in V
  PROVE  \E f \in [0 .. N -> V] : Follows(f, z, step, N)
<1> DEFINE Has(n) == \E f \in [0 .. n -> V] : Follows(f, z, step, n)
           S == {n \in Nat : n <= N => Has(n)}
<1>1. 0 \in S
  <2>1. [i \in 0 .. 0 |-> z] \in [0 .. 0 -> V] /\ Follows([i \in 0 .. 0 |-> z], z, step, 0)
    BY DEF Follows
  <2>2. QED
    BY <2>1
<1>2. ASSUME NEW n \in Nat, n \in S PROVE n + 1 \in S
  <2>1. SUFFICES ASSUME n + 1 <= N PROVE Has(n + 1)
    OBVIOUS
  <2>2. PICK f \in [0 .. n -> V] : Follows(f, z, step, n)
    BY <1>2, <2>1
  <2>3. QED
    BY <2>1, <2>2, FollowsOn
<1> HIDE DEF S
<1>3. Nat \subseteq S
  BY <1>1, <1>2, SetInduction
<1>4. QED
  BY <1>3 DEF S
=============================================================================

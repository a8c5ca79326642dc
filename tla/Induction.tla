------------------------------ MODULE Induction ------------------------------
(***************************************************************************)
(* Induction over the natural numbers by their least elements, for proofs  *)
(* about what the other modules compute step by step.                      *)
(***************************************************************************)
EXTENDS Naturals, WellFoundedInduction, TLAPS

\* Every set of naturals that is not empty has a least element: what stands for
\* induction below.
LEMMA LeastNatural ==
    ASSUME NEW T, T \subseteq Nat, T # {}
    PROVE  \E m \in T : \A k \in T : m <= k
<1> DEFINE R == OpToRel(<, Nat)
<1>1. IsWellFoundedOn(R, Nat)
  BY NatLessThanWellFounded
<1>2. \A k, m \in Nat : <<k, m>> \notin R => m <= k
  BY DEF OpToRel
<1> HIDE DEF R
<1>3. PICK m \in T : \A k \in T : <<k, m>> \notin R
  BY <1>1, WFMin
<1>4. QED
  BY <1>2, <1>3

\* A set of naturals that holds 0 and, up to N, the successor of every number it
\* holds, holds every number up to N.
LEMMA UpTo ==
    ASSUME NEW N \in Nat, NEW H, 0 \in H,
           \A n \in 0 .. N : n # 0 /\ n - 1 \in H => n \in H
    PROVE  \A n \in 0 .. N : n \in H
<1> SUFFICES ASSUME {n \in 0 .. N : n \notin H} # {} PROVE FALSE
  OBVIOUS
<1>1. PICK m \in {n \in 0 .. N : n \notin H} :
            \A k \in {n \in 0 .. N : n \notin H} : m <= k
  <2>1. {n \in 0 .. N : n \notin H} \subseteq Nat
    OBVIOUS
  <2>2. QED
    BY <2>1, LeastNatural
<1>2. m # 0 /\ m - 1 \in 0 .. N /\ ~(m <= m - 1)
  BY <1>1
<1>3. QED
  BY <1>1, <1>2

\* What a recursive definition that collects the results of a step satisfies.
Repeats(f, D, S, G, N) ==
    /\ f \in [0 .. N -> SUBSET D]
    /\ f[0] = S /\ \A n \in 1 .. N : f[n] = f[n - 1] \cup G[f[n - 1]]

\* A step that takes sets of D to sets of D can be repeated from any of them:
\* the function that a recursive definition of this form names exists.
LEMMA Repeated ==
    ASSUME NEW D, NEW S \in SUBSET D, NEW G \in [SUBSET D -> SUBSET D], NEW N \in Nat
    PROVE  \E f : Repeats(f, D, S, G, N)
<1> DEFINE Good(m, f) == f[0] = S /\ \A n \in 1 .. m : f[n] = f[n - 1] \cup G[f[n - 1]]
           H == {m \in Nat : \E f \in [0 .. m -> SUBSET D] : Good(m, f)}
<1>1. 0 \in H
  <2> DEFINE f == [n \in 0 .. 0 |-> S]
  <2>1. f \in [0 .. 0 -> SUBSET D]
    OBVIOUS
  <2>2. Good(0, f)
    OBVIOUS
  <2>3. QED
    BY <2>1, <2>2
<1>2. ASSUME NEW m \in 0 .. N, m # 0, m - 1 \in H PROVE m \in H
  <2>1. PICK g \in [0 .. (m - 1) -> SUBSET D] : Good(m - 1, g)
    BY <1>2
  <2> DEFINE f == [n \in 0 .. m |-> IF n = m THEN g[m - 1] \cup G[g[m - 1]] ELSE g[n]]
  <2>2. m - 1 \in 0 .. (m - 1) /\ \A n \in 0 .. m : n # m => n \in 0 .. (m - 1)
    BY <1>2
  <2>3. f \in [0 .. m -> SUBSET D]
    BY <2>2
  <2>4. f[0] = S
    BY <1>2, <2>1
  <2>5. ASSUME NEW n \in 1 .. m PROVE f[n] = f[n - 1] \cup G[f[n - 1]]
    <3>1. n - 1 \in 0 .. m /\ n - 1 # m /\ n \in 0 .. m
      BY <1>2
    <3>2. f[n - 1] = g[n - 1]
      BY <3>1
    <3>3. CASE n = m
      BY <3>1, <3>2, <3>3
    <3>4. CASE n # m
      <4>1. n \in 1 .. (m - 1) /\ f[n] = g[n]
        BY <1>2, <3>4
      <4>2. QED
        BY <2>1, <3>2, <4>1
    <3>5. QED
      BY <3>3, <3>4
  <2>6. m \in Nat
    OBVIOUS
  <2>7. Good(m, f)
    BY <2>4, <2>5
  <2> HIDE DEF f, Good
  <2>8. QED
    BY <2>3, <2>6, <2>7
<1> HIDE DEF H
<1>3. N \in H
  BY <1>1, <1>2, UpTo
<1>4. QED
  BY <1>3 DEF H, Repeats
=============================================================================

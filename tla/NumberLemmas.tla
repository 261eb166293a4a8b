----------------------------- MODULE NumberLemmas -----------------------------
(***************************************************************************)
(* What the proofs need of numbers, sequences and loops: the smallest and  *)
(* the largest of a set, induction along the indexes of a sequence, and    *)
(* the states that a loop over a sequence goes through.                    *)
(***************************************************************************)
EXTENDS Integers, Sequences, FiniteSetsExt, WellFoundedInduction, TLAPS

\* A set of natural numbers has a smallest one.
LEMMA LeastNat ==
    ASSUME NEW T \in SUBSET Nat, T # {}
    PROVE  \E m \in T : \A t \in T : m <= t
<1> DEFINE R == {ss \in Nat \X Nat : ss[1] < ss[2]}
<1>1. R = OpToRel(<, Nat)
  BY DEF OpToRel
<1>2. IsWellFoundedOn(R, Nat)
  BY <1>1, NatLessThanWellFounded
<1>3. PICK m \in T : \A t \in T : ~(<<t, m>> \in R)
  BY <1>2, WFMin
<1>4. ASSUME NEW t \in T PROVE m <= t
  <2>1. <<t, m>> \in Nat \X Nat /\ <<t, m>> \notin R
    BY <1>3
  <2>2. ~(t < m)
    BY <2>1
  <2> QED
    BY <2>2
<1> QED
  BY <1>4

\* Min finds it.
LEMMA MinFacts ==
    ASSUME NEW T \in SUBSET Nat, T # {}
    PROVE  Min(T) \in T /\ \A t \in T : Min(T) <= t
  BY LeastNat DEF Min

\* A bounded set of natural numbers has a largest one, which Max finds.
LEMMA MaxFacts ==
    ASSUME NEW T \in SUBSET Nat, T # {}, NEW b \in Nat, \A t \in T : t <= b
    PROVE  Max(T) \in T /\ \A t \in T : Max(T) >= t
<1> DEFINE U == {m \in Nat : \A t \in T : t <= m}
<1>1. U \in SUBSET Nat /\ U # {}
  OBVIOUS
<1>2. PICK m \in U : \A u \in U : m <= u
  BY <1>1, LeastNat
<1>3. m \in T
  <2> SUFFICES ASSUME m \notin T PROVE FALSE
    OBVIOUS
  <2>1. PICK t \in T : TRUE
    OBVIOUS
  <2>2. m \in Nat /\ m # 0 /\ \A x \in T : x <= m - 1
    BY <2>1
  <2>3. m - 1 \in U
    BY <2>2
  <2> QED
    BY <1>2, <2>2, <2>3
<1> QED
  BY <1>2, <1>3 DEF Max

\* What holds at 0 and with every index for the next one holds up to n.
LEMMA IndexInduction ==
    ASSUME NEW n \in Nat, NEW G \in SUBSET (0..n), 0 \in G, \A k \in 1..n : k - 1 \in G => k \in G
    PROVE  G = 0..n
<1> SUFFICES ASSUME G # 0..n PROVE FALSE
  OBVIOUS
<1> DEFINE B == (0..n) \ G
<1>1. B \in SUBSET Nat /\ B # {}
  <2>1. \E x \in 0..n : x \notin G
    OBVIOUS
  <2> QED
    BY <2>1
<1>2. PICK m \in B : \A t \in B : m <= t
  BY <1>1, LeastNat
<1>3. m \in 1..n /\ m \notin G /\ m - 1 \in 0..n /\ ~(m <= m - 1)
  BY <1>2
<1>4. m - 1 \in G
  BY <1>2, <1>3
<1> QED
  BY <1>3, <1>4

\* f gives the states of a loop over the n values of w.
RunsLoop(base, step, w, n, f) ==
    f[0] = base /\ \A k \in 1..n : f[k] = step[<<f[k - 1], w[k]>>]

\* A loop over n values of T whose body takes a state of S to a state of S
\* goes through a state for each of them.
LEMMA LoopStates ==
    ASSUME NEW S, NEW T, NEW base \in S, NEW step \in [S \X T -> S], NEW n \in Nat, NEW w \in [1..n -> T]
    PROVE  \E f \in [0..n -> S] : RunsLoop(base, step, w, n, f)
<1> DEFINE Goes(m, f) == f[0] = base /\ \A k \in 1..m : f[k] = step[<<f[k - 1], w[k]>>]
           G == {m \in 0..n : \E f \in [0..m -> S] : Goes(m, f)}
<1>1. 0 \in G
  <2> DEFINE f == [k \in 0..0 |-> base]
  <2>1. f \in [0..0 -> S] /\ f[0] = base /\ 1..0 = {} /\ 0 \in 0..n
    OBVIOUS
  <2> HIDE DEF f
  <2>2. Goes(0, f)
    BY <2>1
  <2> QED
    BY <2>1, <2>2
<1>2. ASSUME NEW m \in 1..n, m - 1 \in G PROVE m \in G
  <2>1. PICK f \in [0..(m - 1) -> S] : Goes(m - 1, f)
    BY <1>2
  <2> DEFINE g == [k \in 0..m |-> IF k = m THEN step[<<f[m - 1], w[m]>>] ELSE f[k]]
  <2>2. m - 1 \in 0..(m - 1) /\ f[m - 1] \in S /\ w[m] \in T
    OBVIOUS
  <2>3. step[<<f[m - 1], w[m]>>] \in S
    BY <2>2
  <2>4. g \in [0..m -> S]
    BY <2>3
  <2>5. g[0] = base
    BY <2>1
  <2>6. \A k \in 1..m : g[k] = step[<<g[k - 1], w[k]>>]
    <3> SUFFICES ASSUME NEW k \in 1..m PROVE g[k] = step[<<g[k - 1], w[k]>>]
      OBVIOUS
    <3>1. g[k - 1] = f[k - 1]
      OBVIOUS
    <3>2. CASE k = m
      <4>1. g[m] = step[<<f[m - 1], w[m]>>]
        BY DEF g
      <4>2. g[m - 1] = f[m - 1]
        BY <3>1, <3>2
      <4> HIDE DEF g
      <4> QED
        BY <3>2, <4>1, <4>2
    <3>3. CASE k # m
      <4>1. k \in 1..(m - 1) /\ g[k] = f[k]
        BY <3>3
      <4> QED
        BY <2>1, <3>1, <4>1
    <3> QED
      BY <3>2, <3>3
  <2> HIDE DEF g
  <2>7. Goes(m, g)
    BY <2>5, <2>6
  <2> QED
    BY <2>4, <2>7
<1> HIDE DEF G
<1>3. G = 0..n
  <2>1. G \in SUBSET (0..n)
    BY DEF G
  <2> QED
    BY <1>1, <1>2, <2>1, IndexInduction
<1>4. n \in G
  BY <1>3
<1> QED
  BY <1>4 DEF G, RunsLoop
===============================================================================

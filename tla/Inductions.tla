------------------------------ MODULE Inductions ------------------------------
(***************************************************************************)
(* Induction over data, stated about sets instead of predicates so that it *)
(* can be cited: natural numbers, finite sets, and the recursive functions *)
(* behind the folds of the community modules.                              *)
(***************************************************************************)
EXTENDS Integers, FiniteSets, Sequences, FiniteSetTheorems, TLAPS

-----------------------------------------------------------------------------
(* Numbers and finite sets.                                                *)

\* A set that has 0 and the successor of every number in it has all numbers.
LEMMA NatSetInduction ==
  ASSUME NEW S, 0 \in S, \A n \in Nat : n \in S => n + 1 \in S
  PROVE  \A n \in Nat : n \in S
  <1> DEFINE T == {n \in Nat : n \notin S}
             R == OpToRel(<, Nat)
  <1>1. SUFFICES ASSUME T # {} PROVE FALSE
    OBVIOUS
  <1>2. IsWellFoundedOn(R, Nat)
    BY NatLessThanWellFounded, Zenon
  <1>3. \E x \in T : \A y \in T : <<y, x>> \notin R
    <2> HIDE DEF R
    <2> QED BY <1>1, <1>2, WFMin
  <1>4. PICK x \in T : \A y \in T : <<y, x>> \notin R
    BY <1>3
  <1>5. x # 0 /\ x - 1 \in Nat /\ x \in Nat /\ x - 1 < x
    OBVIOUS
  <1>6. x - 1 \in T
    BY <1>5
  <1>7. <<x - 1, x>> \in R
    BY <1>5 DEF OpToRel
  <1> QED BY <1>4, <1>6, <1>7

\* A nonempty set of numbers has a least one.
LEMMA LeastNumber ==
  ASSUME NEW T \in SUBSET Nat, T # {}
  PROVE  \E m \in T : \A y \in T : m <= y
  <1> DEFINE R == OpToRel(<, Nat)
  <1>1. IsWellFoundedOn(R, Nat)
    BY NatLessThanWellFounded, Zenon
  <1>2. \E x \in T : \A y \in T : <<y, x>> \notin R
    <2> HIDE DEF R
    <2> QED BY <1>1, WFMin
  <1>3. PICK x \in T : \A y \in T : <<y, x>> \notin R
    BY <1>2
  <1>4. \A y \in T : ~(y < x)
    BY <1>3 DEF OpToRel
  <1> QED BY <1>4

\* A nonempty family of subsets of a finite set has a minimal one.
LEMMA MinimalSubset ==
  ASSUME NEW D, IsFiniteSet(D), NEW F \in SUBSET (SUBSET D), F # {}
  PROVE  \E s \in F : \A t \in F : t \subseteq s => t = s
  <1>1. \A s \in SUBSET D : IsFiniteSet(s)
    BY FS_Subset
  <1>2. F \subseteq FiniteSubsetsOf(D)
    BY <1>1, FS_FiniteSubsetsOfFinite
  <1>3. IsWellFoundedOn(StrictSubsetOrdering(D), FiniteSubsetsOf(D))
    BY FS_StrictSubsetOrderingWellFounded
  <1>4. PICK s \in F : \A t \in F : <<t, s>> \notin StrictSubsetOrdering(D)
    BY <1>2, <1>3, WFMin
  <1>5. \A t \in F : t \subseteq s => t = s
    BY <1>4 DEF StrictSubsetOrdering
  <1> QED BY <1>5

-----------------------------------------------------------------------------
(* Recursion over the subsets of a finite set: MapThenFoldSet of Folds.tla. *)
(* `pick` and `step` are functions, so that the lemmas can be cited.        *)

\* h satisfies the recursion on the subsets of D.
Recurs(h, D, base, pick, step) ==
  \A s \in SUBSET D :
     h[s] = IF s = {} THEN base ELSE step[<<pick[s], h[s \ {pick[s]}]>>]

Picks(pick, D) == \A s \in SUBSET D : s # {} => pick[s] \in s

\* Two solutions agree wherever both are defined.
LEMMA RecursionIsUnique ==
  ASSUME NEW D, IsFiniteSet(D), NEW base, NEW pick, NEW step, Picks(pick, D),
         NEW S \in SUBSET D, NEW T \in SUBSET D, NEW g, NEW h,
         Recurs(g, S, base, pick, step), Recurs(h, T, base, pick, step),
         NEW u \in SUBSET S, u \in SUBSET T
  PROVE  g[u] = h[u]
  <1> DEFINE B == {s \in SUBSET D : s \subseteq S /\ s \subseteq T /\ g[s] # h[s]}
  <1>1. SUFFICES ASSUME B # {} PROVE FALSE
    OBVIOUS
  <1>2. \E s \in B : \A t \in B : t \subseteq s => t = s
    <2>1. B \in SUBSET (SUBSET D)
      OBVIOUS
    <2> HIDE DEF B
    <2> QED BY <1>1, <2>1, MinimalSubset
  <1>3. PICK s \in B : \A t \in B : t \subseteq s => t = s
    BY <1>2
  <1>4. s \in SUBSET S /\ s \in SUBSET T /\ s \in SUBSET D /\ g[s] # h[s]
    OBVIOUS
  <1>5. /\ g[s] = IF s = {} THEN base ELSE step[<<pick[s], g[s \ {pick[s]}]>>]
        /\ h[s] = IF s = {} THEN base ELSE step[<<pick[s], h[s \ {pick[s]}]>>]
    BY <1>4 DEF Recurs
  <1>6. s # {} /\ pick[s] \in s
    BY <1>4, <1>5 DEF Picks
  <1>7. s \ {pick[s]} \notin B
    BY <1>3, <1>6
  <1>8. g[s \ {pick[s]}] = h[s \ {pick[s]}]
    BY <1>4, <1>7
  <1> QED BY <1>4, <1>5, <1>6, <1>8

\* There is a solution, with values of the type that the step keeps.
LEMMA RecursionExists ==
  ASSUME NEW D, IsFiniteSet(D), NEW V, NEW base \in V, NEW pick, NEW step,
         Picks(pick, D), \A x \in D, v \in V : step[<<x, v>>] \in V
  PROVE  \E h \in [SUBSET D -> V] : Recurs(h, D, base, pick, step)
  <1> DEFINE Sols(T) == {h \in [SUBSET T -> V] : Recurs(h, T, base, pick, step)}
             B == {T \in SUBSET D : Sols(T) = {}}
  <1>1. SUFFICES ASSUME B # {} PROVE FALSE
    OBVIOUS
  <1>2. \E T \in B : \A U \in B : U \subseteq T => U = T
    <2>1. B \in SUBSET (SUBSET D)
      OBVIOUS
    <2> HIDE DEF B
    <2> QED BY <1>1, <2>1, MinimalSubset
  <1>3. PICK T \in B : \A U \in B : U \subseteq T => U = T
    BY <1>2
  <1> DEFINE G(s) == CHOOSE h \in Sols(s) : TRUE
             Rest == T \ {pick[T]}
             last == IF T = {} THEN base ELSE step[<<pick[T], G(Rest)[Rest]>>]
             H == [s \in SUBSET T |-> IF s = T THEN last ELSE G(s)[s]]
  <1>4. \A s \in SUBSET T : s # T =>
           G(s) \in [SUBSET s -> V] /\ Recurs(G(s), s, base, pick, step)
    <2> TAKE s \in SUBSET T
    <2> HAVE s # T
    <2>1. s \notin B /\ s \in SUBSET D
      BY <1>3
    <2>2. Sols(s) # {}
      BY <2>1
    <2>3. G(s) \in Sols(s)
      BY <2>2
    <2> QED BY <2>3
  <1>5. T # {} => Rest \in SUBSET T /\ Rest # T /\ pick[T] \in D
    BY DEF Picks
  <1> HIDE DEF G
  <1>6. \A s \in SUBSET T : s # T => G(s)[s] \in V
    BY <1>4
  <1>7. last \in V
    BY <1>5, <1>6
  <1>8. H \in [SUBSET T -> V]
    BY <1>6, <1>7
  <1>9. Recurs(H, T, base, pick, step)
    <2> SUFFICES ASSUME NEW s \in SUBSET T
                 PROVE  H[s] = IF s = {} THEN base ELSE step[<<pick[s], H[s \ {pick[s]}]>>]
      BY DEF Recurs
    <2>1. CASE s = T
      <3>1. CASE T = {}
        BY <2>1, <3>1
      <3>2. CASE T # {}
        <4>1. H[Rest] = G(Rest)[Rest]
          BY <1>5, <3>2
        <4>2. H[T] = step[<<pick[T], G(Rest)[Rest]>>]
          BY <3>2
        <4> QED BY <2>1, <3>2, <4>1, <4>2
      <3> QED BY <3>1, <3>2
    <2>2. CASE s # T
      <3>1. H[s] = G(s)[s]
        BY <2>2
      <3>2. G(s)[s] = IF s = {} THEN base ELSE step[<<pick[s], G(s)[s \ {pick[s]}]>>]
        BY <1>4, <2>2 DEF Recurs
      <3>3. CASE s = {}
        BY <3>1, <3>2, <3>3
      <3>4. CASE s # {}
        <4> DEFINE u == s \ {pick[s]}
        <4>1. u \in SUBSET s /\ u \in SUBSET T /\ u # T /\ u \in SUBSET u
          BY <3>4, <2>2 DEF Picks
        <4>2. H[u] = G(u)[u]
          BY <4>1
        <4>3. Recurs(G(u), u, base, pick, step) /\ Recurs(G(s), s, base, pick, step)
          BY <1>4, <4>1, <2>2
        <4>4. s \in SUBSET D /\ u \in SUBSET D
          BY <4>1
        <4>5. G(u)[u] = G(s)[u]
          <5> HIDE DEF u
          <5> QED BY <4>1, <4>3, <4>4, RecursionIsUnique
        <4> QED BY <3>1, <3>2, <3>4, <4>2, <4>5
      <3> QED BY <3>3, <3>4
    <2> QED BY <2>1, <2>2
  <1>10. H \in Sols(T)
    BY <1>8, <1>9
  <1> QED BY <1>3, <1>10
====

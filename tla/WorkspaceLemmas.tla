--------------------------- MODULE WorkspaceLemmas ---------------------------
(***************************************************************************)
(* Facts about the operators of Workspace: the k-th smallest element, the  *)
(* sub-sequences built from it, plans and command batches.                 *)
(***************************************************************************)
EXTENDS Workspace, FiniteSetTheorems, WellFoundedInduction, TLAPS

\* A non-empty set of naturals has a least element.
LEMMA LeastElement ==
  ASSUME NEW T \in SUBSET Nat, T # {}
  PROVE  \E i \in T : \A j \in T : i <= j
<1>1. PICK i \in T : \A j \in T : ~(<<j, i>> \in OpToRel(<, Nat))
  BY WFMin, NatLessThanWellFounded
<1>2. ASSUME NEW j \in T, j < i PROVE FALSE
  <2>1. <<j, i>> \in Nat \X Nat /\ <<j, i>>[1] < <<j, i>>[2]
    BY <1>2
  <2>2. <<j, i>> \in {ss \in Nat \X Nat : ss[1] < ss[2]}
    BY <2>1
  <2> QED BY <1>1, <2>2 DEF OpToRel
<1> QED BY <1>2

UpTo(S, i) == {j \in S : j <= i}

\* A set of naturals below a bound is finite.
LEMMA BoundedIsFinite ==
  ASSUME NEW n \in Nat, NEW S \in SUBSET (0..n)
  PROVE  IsFiniteSet(S) /\ Cardinality(S) \in Nat
<1>1. IsFiniteSet(0..n)
  BY FS_Interval
<1>2. IsFiniteSet(S)
  BY <1>1, FS_Subset
<1> QED BY <1>2, FS_CardinalityType

\* A non-empty bounded set of naturals has a greatest element.
LEMMA GreatestElement ==
  ASSUME NEW n \in Nat, NEW S \in SUBSET (0..n), S # {}
  PROVE  \E i \in S : \A j \in S : j <= i
<1> DEFINE T == {m \in Nat : \A j \in S : j <= m}
<1>1. n \in T
  OBVIOUS
<1>2. T \in SUBSET Nat /\ T # {}
  BY <1>1
<1>3. PICK i \in T : \A m \in T : i <= m
  <2> HIDE DEF T
  <2> QED BY <1>2, LeastElement
<1>4. i \in Nat /\ \A j \in S : j \in Nat /\ j <= i
  BY <1>3
<1>5. CASE i \in S
  BY <1>4, <1>5
<1>6. CASE i \notin S
  <2>1. PICK j \in S : j \in Nat /\ j <= i /\ j # i
    BY <1>4, <1>6
  <2>2. i - 1 \in Nat /\ ~(i <= i - 1)
    BY <1>4, <2>1
  <2>3. \A k \in S : k <= i - 1
    BY <1>4, <1>6
  <2>4. i - 1 \in T
    BY <2>2, <2>3
  <2> QED BY <1>3, <2>2, <2>4
<1> QED BY <1>5, <1>6

\* Its elements up to i are finitely many, and no more than all of them.
LEMMA UpToFinite ==
  ASSUME NEW n \in Nat, NEW S \in SUBSET (0..n), NEW i \in Nat
  PROVE  /\ IsFiniteSet(UpTo(S, i))
         /\ Cardinality(UpTo(S, i)) \in Nat
         /\ Cardinality(UpTo(S, i)) <= Cardinality(S)
<1>1. UpTo(S, i) \in SUBSET S
  BY DEF UpTo
<1> QED BY <1>1, BoundedIsFinite, FS_Subset, FS_CardinalityType

\* The count of elements up to i grows by one at the elements of S only.
LEMMA UpToStep ==
  ASSUME NEW n \in Nat, NEW S \in SUBSET (0..n), NEW i \in Nat
  PROVE  /\ i + 1 \in S => Cardinality(UpTo(S, i + 1)) = Cardinality(UpTo(S, i)) + 1
         /\ i + 1 \notin S => Cardinality(UpTo(S, i + 1)) = Cardinality(UpTo(S, i))
<1>0. \A j \in S : j \in Nat /\ (j <= i + 1 <=> j <= i \/ j = i + 1)
  OBVIOUS
<1>1. CASE i + 1 \in S
  <2>1. UpTo(S, i + 1) = UpTo(S, i) \cup {i + 1}
    BY <1>0, <1>1 DEF UpTo
  <2>2. i + 1 \notin UpTo(S, i)
    BY DEF UpTo
  <2> QED BY <1>1, <2>1, <2>2, FS_AddElement, UpToFinite
<1>2. CASE i + 1 \notin S
  <2>1. UpTo(S, i + 1) = UpTo(S, i)
    BY <1>0, <1>2 DEF UpTo
  <2> QED BY <1>2, <2>1
<1> QED BY <1>1, <1>2

\* Kth really is an element of S, the one with k elements up to it.
LEMMA KthIsElement ==
  ASSUME NEW n \in Nat, NEW S \in SUBSET (0..n), NEW k \in 1..Cardinality(S)
  PROVE  Kth(S, k) \in S /\ Cardinality(UpTo(S, Kth(S, k))) = k
<1> DEFINE T == {i \in Nat : k <= Cardinality(UpTo(S, i))}
<1>0. Cardinality(S) \in Nat
  BY BoundedIsFinite
<1>1. T # {}
  <2>0. \A j \in S : j <= n
    OBVIOUS
  <2>1. UpTo(S, n) = S
    BY <2>0 DEF UpTo
  <2> QED BY <1>0, <2>1
<1>2. PICK i \in T : \A j \in T : i <= j
  <2>1. T \in SUBSET Nat
    OBVIOUS
  <2> HIDE DEF T
  <2> QED BY <1>1, <2>1, LeastElement
<1>3. i \in S /\ Cardinality(UpTo(S, i)) = k
  <2>1. CASE i = 0
    <3>0. \A j \in S : j <= 0 => j = 0
      OBVIOUS
    <3>1. UpTo(S, 0) \in SUBSET {0}
      BY <3>0 DEF UpTo
    <3>2. Cardinality({0}) = 1 /\ IsFiniteSet({0})
      BY FS_Singleton
    <3>3. Cardinality(UpTo(S, 0)) <= 1
      BY <3>1, <3>2, FS_Subset
    <3>4. Cardinality(UpTo(S, 0)) = k /\ k = 1
      <4>1. Cardinality(UpTo(S, 0)) \in Nat
        BY UpToFinite
      <4>2. k <= Cardinality(UpTo(S, 0)) /\ k \in Nat /\ 1 <= k
        BY <1>0, <1>2, <2>1
      <4> QED BY <3>3, <4>1, <4>2
    <3>5. UpTo(S, 0) # {}
      BY <3>4, FS_EmptySet
    <3>6. 0 \in S
      BY <3>1, <3>5 DEF UpTo
    <3> QED BY <2>1, <3>4, <3>6
  <2>2. CASE i # 0
    <3>1. PICK p \in Nat : i = p + 1
      <4>1. i - 1 \in Nat /\ i = (i - 1) + 1
        BY <2>2
      <4> QED BY <4>1
    <3>2. p \notin T
      BY <1>2, <3>1
    <3>3. Cardinality(UpTo(S, p)) \in Nat
      BY UpToFinite
    <3>4. Cardinality(UpTo(S, p)) < k
      BY <1>0, <3>2, <3>3
    <3>5. /\ p + 1 \in S => Cardinality(UpTo(S, p + 1)) = Cardinality(UpTo(S, p)) + 1
          /\ p + 1 \notin S => Cardinality(UpTo(S, p + 1)) = Cardinality(UpTo(S, p))
      BY UpToStep
    <3>6. k <= Cardinality(UpTo(S, p + 1))
      BY <1>2, <3>1
    <3> QED BY <1>0, <3>1, <3>3, <3>4, <3>5, <3>6
  <2> QED BY <2>1, <2>2
<1>4. \E e \in S : Cardinality({j \in S : j <= e}) = k
  BY <1>3 DEF UpTo
<1> QED BY <1>4 DEF Kth, UpTo

\* Different ranks, different elements.
LEMMA KthInjective ==
  ASSUME NEW n \in Nat, NEW S \in SUBSET (0..n),
         NEW j \in 1..Cardinality(S), NEW k \in 1..Cardinality(S),
         Kth(S, j) = Kth(S, k)
  PROVE  j = k
BY KthIsElement

\* Every element has a rank.
LEMMA KthOnto ==
  ASSUME NEW n \in Nat, NEW S \in SUBSET (0..n), NEW i \in S
  PROVE  \E k \in 1..Cardinality(S) : Kth(S, k) = i
<1> DEFINE k == Cardinality(UpTo(S, i))
<1>0. i \in Nat /\ IsFiniteSet(UpTo(S, i)) /\ k \in Nat /\ k <= Cardinality(S)
  <2>1. i \in Nat
    OBVIOUS
  <2> QED BY <2>1, UpToFinite
<1>1. Cardinality(S) \in Nat
  BY BoundedIsFinite
<1>2. UpTo(S, i) # {}
  BY <1>0 DEF UpTo
<1>3. k # 0
  BY <1>0, <1>2, FS_EmptySet
<1>4. k \in 1..Cardinality(S)
  BY <1>0, <1>1, <1>3
<1>5. Kth(S, k) \in S /\ Cardinality(UpTo(S, Kth(S, k))) = k
  BY <1>4, KthIsElement
<1> DEFINE e == Kth(S, k)
<1> HIDE DEF e
<1>6. e \in S /\ e \in Nat /\ Cardinality(UpTo(S, e)) = k /\ IsFiniteSet(UpTo(S, e))
  <2>1. e \in S /\ Cardinality(UpTo(S, e)) = k
    BY <1>5 DEF e
  <2>2. e \in Nat
    BY <2>1
  <2> QED BY <2>1, <2>2, UpToFinite
<1>7. ~(e < i)
  <2>1. SUFFICES ASSUME e < i PROVE FALSE
    OBVIOUS
  <2>2. \A j \in S : j <= e => j <= i
    BY <1>0, <1>6, <2>1
  <2>3. UpTo(S, e) \in SUBSET UpTo(S, i)
    BY <2>2 DEF UpTo
  <2>4. ~(i <= e) /\ i <= i
    BY <1>0, <1>6, <2>1
  <2>5. i \notin UpTo(S, e) /\ i \in UpTo(S, i)
    BY <1>6, <2>4 DEF UpTo
  <2>6. UpTo(S, i) = UpTo(S, e)
    BY <1>0, <1>6, <2>3, FS_Subset
  <2> QED BY <2>5, <2>6
<1>8. ~(i < e)
  <2>1. SUFFICES ASSUME i < e PROVE FALSE
    OBVIOUS
  <2>2. \A j \in S : j <= i => j <= e
    BY <1>0, <1>6, <2>1
  <2>3. UpTo(S, i) \in SUBSET UpTo(S, e)
    BY <2>2 DEF UpTo
  <2>4. ~(e <= i) /\ e <= e
    BY <1>0, <1>6, <2>1
  <2>5. e \notin UpTo(S, i) /\ e \in UpTo(S, e)
    BY <1>6, <2>4 DEF UpTo
  <2>6. UpTo(S, e) = UpTo(S, i)
    BY <1>0, <1>6, <2>3, FS_Subset
  <2> QED BY <2>5, <2>6
<1>9. e = i
  BY <1>0, <1>6, <1>7, <1>8
<1> QED BY <1>4, <1>9 DEF e

\* A larger element has a larger rank.
LEMMA KthMonotone ==
  ASSUME NEW n \in Nat, NEW S \in SUBSET (0..n),
         NEW j \in 1..Cardinality(S), NEW k \in 1..Cardinality(S),
         Kth(S, j) < Kth(S, k)
  PROVE  j < k
<1> DEFINE x == Kth(S, j)
           y == Kth(S, k)
<1>1. /\ x \in S /\ Cardinality(UpTo(S, x)) = j
      /\ y \in S /\ Cardinality(UpTo(S, y)) = k
  BY KthIsElement
<1>2. x < y
  OBVIOUS
<1> HIDE DEF x, y
<1>3. x \in Nat /\ y \in Nat
  BY <1>1
<1>4. IsFiniteSet(UpTo(S, y)) /\ Cardinality(UpTo(S, y)) \in Nat /\ Cardinality(UpTo(S, x)) \in Nat
  BY <1>3, UpToFinite
<1>5. UpTo(S, x) \subseteq UpTo(S, y)
  <2>1. \A i \in S : i <= x => i <= y
    BY <1>2, <1>3
  <2> QED BY <2>1 DEF UpTo
<1>6. y \notin UpTo(S, x) /\ y \in UpTo(S, y)
  BY <1>1, <1>2, <1>3 DEF UpTo
<1>7. j <= k /\ (j = k => UpTo(S, x) = UpTo(S, y))
  BY <1>1, <1>4, <1>5, FS_Subset
<1>8. j # k
  BY <1>6, <1>7
<1>9. j \in Nat /\ k \in Nat
  BY <1>1, <1>4
<1> QED BY <1>7, <1>8, <1>9

-----------------------------------------------------------------------------
(* Classification. *)

\* Whatever rules match, a window is managed, floating or ignored.
LEMMA ClassIsKnown ==
  ASSUME NEW face
  PROVE  classify_toplevel(face) \in Classes
<1> DEFINE hits == {i \in DOMAIN WindowRules : Matches(WindowRules[i], face)}
           last == CHOOSE i \in hits : \A j \in hits : j <= i
<1>1. classify_toplevel(face) = IF hits = {} THEN base_class(face)
                                ELSE WindowRules[last].disposition
  BY DEF classify_toplevel
<1>2. base_class(face) \in Classes
  BY DEF base_class, Classes
<1>3. ASSUME hits # {} PROVE last \in DOMAIN WindowRules
  <2>1. Len(WindowRules) \in Nat /\ hits \in SUBSET (0..Len(WindowRules))
    BY RulesAssumption
  <2>2. hits \subseteq DOMAIN WindowRules
    OBVIOUS
  <2> HIDE DEF hits
  <2>3. \E i \in hits : \A j \in hits : j <= i
    BY <1>3, <2>1, GreatestElement
  <2>4. last \in hits
    BY <2>3
  <2> QED BY <2>2, <2>4
<1> HIDE DEF hits, last
<1> QED BY <1>1, <1>2, <1>3, RulesAssumption

-----------------------------------------------------------------------------
(* Sub-sequences. *)

\* An interval from 1 has as many elements as its end says.
LEMMA IntervalCount ==
  ASSUME NEW n \in Nat
  PROVE  IsFiniteSet(1..n) /\ Cardinality(1..n) = n
<1>1. 1 \in Int /\ n \in Int
  OBVIOUS
<1>2. IsFiniteSet(1..n) /\ Cardinality(1..n) = IF 1 > n THEN 0 ELSE n - 1 + 1
  BY <1>1, FS_Interval
<1> QED BY <1>2

\* A sequence that lists a set without repetition has as many elements as it.
LEMMA ListCount ==
  ASSUME NEW A, NEW s \in Seq(A), \A j, k \in DOMAIN s : s[j] = s[k] => j = k,
         NEW T, \A k \in DOMAIN s : s[k] \in T, \A x \in T : \E k \in DOMAIN s : s[k] = x
  PROVE  IsFiniteSet(T) /\ Cardinality(T) = Len(s)
<1>1. Len(s) \in Nat /\ DOMAIN s = 1..Len(s) /\ s \in [1..Len(s) -> T]
  OBVIOUS
<1>2. s \in Bijection(1..Len(s), T)
  BY <1>1 DEF Bijection, Injection, Surjection, IsInjective
<1>3. ExistsBijection(1..Len(s), T)
  BY <1>2 DEF ExistsBijection
<1>4. IsFiniteSet(1..Len(s)) /\ Cardinality(1..Len(s)) = Len(s)
  BY <1>1, IntervalCount
<1> QED BY <1>3, <1>4, FS_Bijection

\* The elements of a concatenation are those of its parts.
LEMMA ConcatParts ==
  ASSUME NEW A, NEW s \in Seq(A), NEW t \in Seq(A)
  PROVE  /\ s \o t \in Seq(A)
         /\ \A k \in DOMAIN (s \o t) : \/ k \in DOMAIN s /\ (s \o t)[k] = s[k]
                                       \/ k - Len(s) \in DOMAIN t /\ (s \o t)[k] = t[k - Len(s)]
         /\ \A k \in DOMAIN s : k \in DOMAIN (s \o t) /\ (s \o t)[k] = s[k]
         /\ \A k \in DOMAIN t : \E j \in DOMAIN (s \o t) : (s \o t)[j] = t[k]
<1> DEFINE c == s \o t
<1>1. Len(s) \in Nat /\ Len(t) \in Nat /\ DOMAIN s = 1..Len(s) /\ DOMAIN t = 1..Len(t)
  OBVIOUS
<1>2. c \in Seq(A) /\ Len(c) = Len(s) + Len(t)
  OBVIOUS
<1>3. \A i \in 1..(Len(s) + Len(t)) : c[i] = IF i <= Len(s) THEN s[i] ELSE t[i - Len(s)]
  OBVIOUS
<1> HIDE DEF c
<1>4. DOMAIN c = 1..(Len(s) + Len(t))
  BY <1>1, <1>2
<1>5. \A k \in 1..(Len(s) + Len(t)) :
        \/ k \in DOMAIN s /\ k <= Len(s)
        \/ k - Len(s) \in DOMAIN t /\ ~(k <= Len(s))
  BY <1>1
<1>6. ASSUME NEW k \in DOMAIN t PROVE \E j \in DOMAIN c : c[j] = t[k]
  <2>1. /\ k + Len(s) \in 1..(Len(s) + Len(t)) /\ ~(k + Len(s) <= Len(s))
        /\ (k + Len(s)) - Len(s) = k
    BY <1>1
  <2>2. c[k + Len(s)] = t[k]
    BY <1>3, <2>1
  <2> QED BY <1>4, <2>1, <2>2
<1>7. \A k \in DOMAIN s : k \in 1..(Len(s) + Len(t)) /\ k <= Len(s)
  BY <1>1
<1> QED BY <1>2, <1>3, <1>4, <1>5, <1>6, <1>7 DEF c

\* InOrder picks elements of the positions, each once.
LEMMA InOrderIsSubsequence ==
  ASSUME NEW A, NEW s \in Seq(A), NEW P \in SUBSET DOMAIN s
  PROVE  /\ InOrder(s, P) \in Seq(A)
         /\ Len(InOrder(s, P)) = Cardinality(P)
         /\ Cardinality(P) \in Nat
         /\ \A k \in 1..Cardinality(P) : /\ Kth(P, k) \in P
                                         /\ InOrder(s, P)[k] = s[Kth(P, k)]
         /\ \A j, k \in 1..Cardinality(P) : Kth(P, j) = Kth(P, k) => j = k
         /\ \A i \in P : \E k \in 1..Cardinality(P) : Kth(P, k) = i
<1>1. Len(s) \in Nat /\ P \in SUBSET (0..Len(s)) /\ DOMAIN s = 1..Len(s)
  OBVIOUS
<1>2. Cardinality(P) \in Nat
  BY <1>1, BoundedIsFinite
<1>3. \A k \in 1..Cardinality(P) : Kth(P, k) \in P
  BY <1>1, KthIsElement
<1>4. \A j, k \in 1..Cardinality(P) : Kth(P, j) = Kth(P, k) => j = k
  BY <1>1, KthInjective
<1>5. \A i \in P : \E k \in 1..Cardinality(P) : Kth(P, k) = i
  BY <1>1, KthOnto
<1>6. \A k \in 1..Cardinality(P) : s[Kth(P, k)] \in A
  BY <1>1, <1>3
<1>7. InOrder(s, P) \in [1..Cardinality(P) -> A]
  BY <1>6 DEF InOrder
<1>8. InOrder(s, P) \in Seq(A) /\ Len(InOrder(s, P)) = Cardinality(P)
  BY <1>2, <1>7
<1> QED BY <1>2, <1>3, <1>4, <1>5, <1>8 DEF InOrder

\* The ids of one class are those at the positions of the class.
LEMMA OfClassPositions ==
  ASSUME NEW ws \in Seq(Toplevels), NEW class
  PROVE  /\ OfClass(ws, class) \in Seq(Views)
         /\ \A k \in DOMAIN OfClass(ws, class) :
              /\ Kth(Positions(ws, class), k) \in Positions(ws, class)
              /\ OfClass(ws, class)[k] = ws[Kth(Positions(ws, class), k)].id
         /\ \A j, k \in DOMAIN OfClass(ws, class) :
              Kth(Positions(ws, class), j) = Kth(Positions(ws, class), k) => j = k
<1> DEFINE P == Positions(ws, class)
           chosen == InOrder(ws, P)
<1>1. P \in SUBSET DOMAIN ws
  BY DEF Positions
<1>2. /\ chosen \in Seq(Toplevels)
      /\ Len(chosen) = Cardinality(P)
      /\ \A k \in 1..Cardinality(P) : Kth(P, k) \in P /\ chosen[k] = ws[Kth(P, k)]
      /\ \A j, k \in 1..Cardinality(P) : Kth(P, j) = Kth(P, k) => j = k
  BY <1>1, InOrderIsSubsequence
<1> HIDE DEF P, chosen
<1>3. OfClass(ws, class) = [k \in DOMAIN chosen |-> chosen[k].id]
  BY DEF OfClass, chosen, P
<1>4. DOMAIN chosen = 1..Cardinality(P) /\ \A k \in DOMAIN chosen : chosen[k].id \in Views
  <2>1. DOMAIN chosen = 1..Len(chosen) /\ \A k \in 1..Len(chosen) : chosen[k] \in Toplevels
    BY <1>2
  <2> QED BY <1>2, <2>1 DEF Toplevels
<1>5. OfClass(ws, class) \in Seq(Views) /\ DOMAIN OfClass(ws, class) = DOMAIN chosen
  BY <1>2, <1>3, <1>4
<1> QED BY <1>2, <1>3, <1>4, <1>5 DEF P

-----------------------------------------------------------------------------
(* Observing an inventory. *)

\* Two sequences that list the two parts of an inventory list all of it.
LEMMA ConcatMirrors ==
  ASSUME NEW F \in Seq(Toplevels), NEW G \in Seq(Toplevels), NEW inventory,
         DOMAIN inventory = Ids(F) \cup Ids(G),
         Ids(F) \cap Ids(G) = {},
         \A i \in DOMAIN F : F[i].face = inventory[F[i].id],
         \A i \in DOMAIN G : G[i].face = inventory[G[i].id],
         \A i, j \in DOMAIN F : F[i].id = F[j].id => i = j,
         \A i, j \in DOMAIN G : G[i].id = G[j].id => i = j
  PROVE  Mirrors(F \o G, inventory)
<1> DEFINE S == F \o G
<1>a. Len(F) \in Nat /\ Len(G) \in Nat /\ DOMAIN F = 1..Len(F) /\ DOMAIN G = 1..Len(G)
  OBVIOUS
<1>b. S \in Seq(Toplevels) /\ Len(S) = Len(F) + Len(G)
  OBVIOUS
<1>c. \A i \in 1..(Len(F) + Len(G)) : S[i] = IF i <= Len(F) THEN F[i] ELSE G[i - Len(F)]
  OBVIOUS
<1> HIDE DEF S
<1>d. DOMAIN S = 1..(Len(F) + Len(G))
  BY <1>a, <1>b
<1>1. /\ \A i \in 1..Len(F) : i \in DOMAIN S /\ S[i] = F[i]
      /\ \A i \in DOMAIN S : i \in Nat
      /\ \A i \in DOMAIN S : i > Len(F) => i - Len(F) \in 1..Len(G) /\ S[i] = G[i - Len(F)]
      /\ \A i \in 1..Len(G) : i + Len(F) \in DOMAIN S /\ (i + Len(F)) - Len(F) = i
                            /\ i + Len(F) > Len(F)
  BY <1>a, <1>c, <1>d
<1>2. \A i \in 1..Len(G) : S[i + Len(F)] = G[i]
  BY <1>1
<1>3. \A i \in DOMAIN S : i \in 1..Len(F) \/ (i > Len(F) /\ i - Len(F) \in 1..Len(G))
  BY <1>a, <1>d, <1>1
<1>4. Ids(S) = DOMAIN inventory
  <2>1. ASSUME NEW i \in DOMAIN S PROVE S[i].id \in Ids(F) \cup Ids(G)
    BY <1>a, <1>1, <1>3 DEF Ids
  <2>2. ASSUME NEW i \in DOMAIN F PROVE F[i].id \in Ids(S)
    <3>1. i \in DOMAIN S
      BY <1>a, <1>1
    <3> QED BY <1>a, <1>1, <3>1 DEF Ids
  <2>3. ASSUME NEW i \in DOMAIN G PROVE G[i].id \in Ids(S)
    BY <1>a, <1>1, <1>2 DEF Ids
  <2> QED BY <2>1, <2>2, <2>3 DEF Ids
<1>5. ASSUME NEW i \in DOMAIN S PROVE S[i].face = inventory[S[i].id]
  BY <1>a, <1>1, <1>3
<1>6. ASSUME NEW i \in DOMAIN S, NEW j \in DOMAIN S, S[i].id = S[j].id PROVE i = j
  <2>1. CASE i \in 1..Len(F) /\ j \in 1..Len(F)
    BY <1>a, <1>1, <1>6, <2>1
  <2>2. CASE i > Len(F) /\ j > Len(F)
    <3>1. i - Len(F) = j - Len(F)
      BY <1>a, <1>1, <1>6, <2>2
    <3> QED BY <1>a, <1>1, <2>2, <3>1
  <2>3. CASE i \in 1..Len(F) /\ j > Len(F)
    <3>1. S[i].id \in Ids(F)
      BY <1>a, <1>1, <2>3 DEF Ids
    <3>2. S[j].id \in Ids(G)
      BY <1>a, <1>1, <2>3 DEF Ids
    <3> QED BY <1>6, <3>1, <3>2
  <2>4. CASE i > Len(F) /\ j \in 1..Len(F)
    <3>1. S[i].id \in Ids(G)
      BY <1>a, <1>1, <2>4 DEF Ids
    <3>2. S[j].id \in Ids(F)
      BY <1>a, <1>1, <2>4 DEF Ids
    <3> QED BY <1>6, <3>1, <3>2
  <2> QED BY <1>3, <2>1, <2>2, <2>3, <2>4
<1> QED BY <1>4, <1>5, <1>6 DEF Mirrors, S

\* The ids of a set of views in order: each of them once.
LEMMA AscendingLists ==
  ASSUME NEW S \in SUBSET Views
  PROVE  /\ Ascending(S) \in Seq(S)
         /\ \A k \in DOMAIN Ascending(S) : Ascending(S)[k] \in S
         /\ \A v \in S : \E k \in DOMAIN Ascending(S) : Ascending(S)[k] = v
         /\ \A j, k \in DOMAIN Ascending(S) : Ascending(S)[j] = Ascending(S)[k] => j = k
<1>1. PICK n \in Nat : Views \subseteq 0..n
  BY ViewsAssumption
<1>2. S \in SUBSET (0..n)
  BY <1>1
<1>3. Cardinality(S) \in Nat
  BY <1>2, BoundedIsFinite
<1>4. /\ \A k \in 1..Cardinality(S) : Kth(S, k) \in S
      /\ \A v \in S : \E k \in 1..Cardinality(S) : Kth(S, k) = v
      /\ \A j, k \in 1..Cardinality(S) : Kth(S, j) = Kth(S, k) => j = k
  BY <1>2, KthIsElement, KthOnto, KthInjective
<1>5. Ascending(S) = [k \in 1..Cardinality(S) |-> Kth(S, k)]
  BY DEF Ascending
<1>6. Ascending(S) \in [1..Cardinality(S) -> S]
  BY <1>4, <1>5
<1> QED BY <1>3, <1>4, <1>5, <1>6

\* The heart of refresh: a workspace that mirrors the old inventory mirrors
\* the new one once the difference is absorbed.
LEMMA AbsorbMirrors ==
  ASSUME NEW ws \in Seq(Toplevels), NEW known \in Inventories, NEW current \in Inventories,
         Mirrors(ws, known)
  PROVE  /\ Absorb(ws, known, current) \in Seq(Toplevels)
         /\ Mirrors(Absorb(ws, known, current), current)
<1> DEFINE C == Changed(known, current)
           R == [i \in DOMAIN ws |-> IF ws[i].id \in C
                                     THEN [ws[i] EXCEPT !.face = current[ws[i].id]]
                                     ELSE ws[i]]
           K == {i \in DOMAIN ws : ws[i].id \notin Gone(known, current)}
           D == C \ Ids(ws)
           F == InOrder(R, K)
           G == [k \in DOMAIN Ascending(D) |-> [id |-> Ascending(D)[k],
                                                face |-> current[Ascending(D)[k]]]]
<1>1. /\ DOMAIN known \subseteq Views /\ DOMAIN current \subseteq Views
      /\ \A v \in DOMAIN current : current[v] \in Faces
  BY DEF Inventories
<1>2. /\ Len(ws) \in Nat /\ DOMAIN ws = 1..Len(ws)
      /\ \A i \in DOMAIN ws : /\ ws[i] = [id |-> ws[i].id, face |-> ws[i].face]
                              /\ ws[i].id \in Views /\ ws[i].face \in Faces
  <2>1. Len(ws) \in Nat /\ DOMAIN ws = 1..Len(ws)
    OBVIOUS
  <2>2. \A i \in DOMAIN ws : ws[i] \in Toplevels
    OBVIOUS
  <2>3. \A t \in Toplevels : t = [id |-> t.id, face |-> t.face] /\ t.id \in Views /\ t.face \in Faces
    BY DEF Toplevels
  <2> QED BY <2>1, <2>2, <2>3
<1>3. /\ Ids(ws) = DOMAIN known
      /\ \A i \in DOMAIN ws : ws[i].id \in DOMAIN known /\ ws[i].face = known[ws[i].id]
      /\ \A i, j \in DOMAIN ws : ws[i].id = ws[j].id => i = j
  BY DEF Mirrors, Ids
<1>4. D = DOMAIN current \ DOMAIN known
  BY <1>3 DEF Changed
<1>5. \A i \in DOMAIN ws : R[i] = [id |-> ws[i].id,
                                   face |-> IF ws[i].id \in C THEN current[ws[i].id]
                                            ELSE ws[i].face]
  BY <1>2
<1>6. K = {i \in DOMAIN ws : ws[i].id \in DOMAIN current}
  BY <1>3 DEF Gone
<1>7. R \in Seq(Toplevels)
  <2>1. \A i \in DOMAIN ws : R[i] \in Toplevels
    BY <1>1, <1>2, <1>5 DEF Toplevels, Changed
  <2>2. R \in [1..Len(ws) -> Toplevels]
    BY <1>2, <2>1
  <2> QED BY <1>2, <2>2
<1>8. DOMAIN R = DOMAIN ws
  OBVIOUS
<1>9. \A i \in K : R[i].id = ws[i].id /\ R[i].face = current[ws[i].id]
  BY <1>3, <1>5, <1>6 DEF Changed
<1>10. Absorb(ws, known, current) = F \o G
  BY DEF Absorb
<1> HIDE DEF C, R, K, D
<1>11. /\ F \in Seq(Toplevels) /\ DOMAIN F = 1..Cardinality(K)
       /\ \A k \in DOMAIN F : Kth(K, k) \in K /\ F[k] = R[Kth(K, k)]
       /\ \A j, k \in DOMAIN F : Kth(K, j) = Kth(K, k) => j = k
       /\ \A i \in K : \E k \in DOMAIN F : Kth(K, k) = i
  <2>1. K \in SUBSET DOMAIN R
    BY <1>6, <1>8
  <2>2. /\ F \in Seq(Toplevels) /\ Len(F) = Cardinality(K) /\ Cardinality(K) \in Nat
        /\ \A k \in 1..Cardinality(K) : Kth(K, k) \in K /\ F[k] = R[Kth(K, k)]
        /\ \A j, k \in 1..Cardinality(K) : Kth(K, j) = Kth(K, k) => j = k
        /\ \A i \in K : \E k \in 1..Cardinality(K) : Kth(K, k) = i
    BY <1>7, <2>1, InOrderIsSubsequence
  <2>3. DOMAIN F = 1..Cardinality(K)
    BY <2>2
  <2> QED BY <2>2, <2>3
<1>12. D \in SUBSET Views
  BY <1>1, <1>4
<1>13. /\ \A k \in DOMAIN Ascending(D) : Ascending(D)[k] \in D
       /\ \A v \in D : \E k \in DOMAIN Ascending(D) : Ascending(D)[k] = v
       /\ \A j, k \in DOMAIN Ascending(D) : Ascending(D)[j] = Ascending(D)[k] => j = k
       /\ Ascending(D) \in Seq(D)
  BY <1>12, AscendingLists
<1>14. G \in Seq(Toplevels)
  <2>1. \A k \in DOMAIN Ascending(D) : G[k] \in Toplevels
    BY <1>1, <1>4, <1>12, <1>13 DEF Toplevels
  <2>2. DOMAIN G = 1..Len(Ascending(D)) /\ Len(Ascending(D)) \in Nat
    BY <1>13
  <2>3. G \in [1..Len(Ascending(D)) -> Toplevels]
    BY <2>1, <2>2
  <2> QED BY <2>2, <2>3
<1>15. \A k \in DOMAIN G : /\ k \in DOMAIN Ascending(D)
                           /\ G[k].id = Ascending(D)[k] /\ G[k].face = current[G[k].id]
  OBVIOUS
<1>16. DOMAIN G = DOMAIN Ascending(D)
  OBVIOUS
<1> HIDE DEF F, G
<1>17. Ids(F) = DOMAIN known \cap DOMAIN current
  <2>1. ASSUME NEW k \in DOMAIN F PROVE F[k].id \in DOMAIN known \cap DOMAIN current
    BY <1>3, <1>6, <1>9, <1>11
  <2>2. ASSUME NEW v \in DOMAIN known \cap DOMAIN current PROVE v \in Ids(F)
    <3>1. PICK i \in DOMAIN ws : ws[i].id = v
      BY <1>3 DEF Ids
    <3>2. i \in K
      BY <1>6, <3>1
    <3>3. PICK k \in DOMAIN F : Kth(K, k) = i
      BY <1>11, <3>2
    <3>4. F[k].id = v
      BY <1>9, <1>11, <3>1, <3>2, <3>3
    <3> QED BY <3>4 DEF Ids
  <2> QED BY <2>1, <2>2 DEF Ids
<1>18. Ids(G) = D
  BY <1>13, <1>15, <1>16 DEF Ids
<1>19. \A k \in DOMAIN F : F[k].face = current[F[k].id]
  BY <1>9, <1>11
<1>20. ASSUME NEW j \in DOMAIN F, NEW k \in DOMAIN F, F[j].id = F[k].id PROVE j = k
  BY <1>3, <1>6, <1>9, <1>11, <1>20
<1>21. ASSUME NEW j \in DOMAIN G, NEW k \in DOMAIN G, G[j].id = G[k].id PROVE j = k
  BY <1>13, <1>15, <1>21
<1>22. /\ DOMAIN current = Ids(F) \cup Ids(G)
       /\ Ids(F) \cap Ids(G) = {}
  BY <1>4, <1>17, <1>18
<1>23. Mirrors(F \o G, current)
  <2>1. \A k \in DOMAIN G : G[k].face = current[G[k].id]
    BY <1>15
  <2>2. \A j, k \in DOMAIN F : F[j].id = F[k].id => j = k
    BY <1>20
  <2>3. \A j, k \in DOMAIN G : G[j].id = G[k].id => j = k
    BY <1>21
  <2>4. F \in Seq(Toplevels) /\ G \in Seq(Toplevels)
    BY <1>11, <1>14
  <2> QED BY <1>19, <1>22, <2>1, <2>2, <2>3, <2>4, ConcatMirrors
<1> QED BY <1>10, <1>11, <1>14, <1>23

\* Windows that stay keep their order: a change of the face does not move a
\* window, and new windows come behind all that were there.
LEMMA AbsorbKeepsOrder ==
  ASSUME NEW ws \in Seq(Toplevels), NEW known \in Inventories, NEW current \in Inventories,
         Mirrors(ws, known),
         NEW i \in DOMAIN ws, NEW j \in DOMAIN ws, i < j,
         ws[i].id \in DOMAIN current, ws[j].id \in DOMAIN current
  PROVE  LET next == Absorb(ws, known, current)
         IN  \E k, l \in DOMAIN next : k < l /\ next[k].id = ws[i].id /\ next[l].id = ws[j].id
<1> DEFINE C == Changed(known, current)
           R == [k \in DOMAIN ws |-> IF ws[k].id \in C
                                     THEN [ws[k] EXCEPT !.face = current[ws[k].id]]
                                     ELSE ws[k]]
           K == {k \in DOMAIN ws : ws[k].id \notin Gone(known, current)}
           D == C \ Ids(ws)
           F == InOrder(R, K)
           G == [k \in DOMAIN Ascending(D) |-> [id |-> Ascending(D)[k],
                                                face |-> current[Ascending(D)[k]]]]
<1>1. Absorb(ws, known, current) = F \o G
  BY DEF Absorb
<1>2. Len(ws) \in Nat /\ DOMAIN ws = 1..Len(ws) /\ \A k \in DOMAIN ws : ws[k] \in Toplevels
  OBVIOUS
<1>3. \A k \in DOMAIN ws : R[k].id = ws[k].id
  BY <1>2 DEF Toplevels
<1>4. R \in Seq(Toplevels) /\ DOMAIN R = DOMAIN ws
  <2>1. \A v \in DOMAIN current : v \in Views /\ current[v] \in Faces
    BY DEF Inventories
  <2>2. \A k \in DOMAIN ws : R[k] \in Toplevels
    BY <1>2, <2>1 DEF Toplevels, Changed
  <2>3. R \in [1..Len(ws) -> Toplevels]
    BY <1>2, <2>2
  <2> QED BY <1>2, <2>3
<1>5. i \in K /\ j \in K /\ K \in SUBSET DOMAIN R
  BY <1>4 DEF Gone
<1>6. D \in SUBSET Views
  BY DEF Changed, Inventories
<1> HIDE DEF R, K, D
<1>7. /\ F \in Seq(Toplevels) /\ Len(F) = Cardinality(K) /\ Cardinality(K) \in Nat
      /\ \A k \in 1..Cardinality(K) : F[k] = R[Kth(K, k)]
      /\ \A x \in K : \E k \in 1..Cardinality(K) : Kth(K, k) = x
      /\ \A k \in 1..Cardinality(K) : Kth(K, k) \in K
  BY <1>4, <1>5, InOrderIsSubsequence
<1>8. PICK k \in 1..Cardinality(K), l \in 1..Cardinality(K) : Kth(K, k) = i /\ Kth(K, l) = j
  BY <1>5, <1>7
<1>9. k < l
  <2>1. K \in SUBSET (0..Len(ws))
    BY <1>2, <1>4, <1>5
  <2> QED BY <1>2, <1>8, <2>1, KthMonotone
<1>10. F[k].id = ws[i].id /\ F[l].id = ws[j].id
  BY <1>3, <1>7, <1>8
<1>11. k \in DOMAIN F /\ l \in DOMAIN F
  <2> HIDE DEF F
  <2> QED BY <1>7
<1>12. G \in Seq(Toplevels)
  <2>1. /\ \A x \in DOMAIN Ascending(D) : Ascending(D)[x] \in D
        /\ DOMAIN Ascending(D) = 1..Len(Ascending(D)) /\ Len(Ascending(D)) \in Nat
    BY <1>6, AscendingLists
  <2>2. \A v \in D : v \in Views /\ current[v] \in Faces
    BY <1>6 DEF D, Changed, Inventories
  <2>3. G \in [1..Len(Ascending(D)) -> Toplevels]
    BY <2>1, <2>2 DEF Toplevels
  <2> QED BY <2>1, <2>3
<1> DEFINE next == Absorb(ws, known, current)
<1> HIDE DEF F, G
<1>13. \A x \in DOMAIN F : x \in DOMAIN next /\ next[x] = F[x]
  <2>1. \A x \in DOMAIN F : x \in DOMAIN (F \o G) /\ (F \o G)[x] = F[x]
    BY <1>7, <1>12, ConcatParts
  <2> QED BY <1>1, <2>1
<1> HIDE DEF next
<1>14. k \in DOMAIN next /\ l \in DOMAIN next /\ next[k].id = ws[i].id /\ next[l].id = ws[j].id
  BY <1>10, <1>11, <1>13
<1> QED BY <1>9, <1>14 DEF next

-----------------------------------------------------------------------------
(* Plans. *)

TiledIds(p) == {p.placements[k].id : k \in DOMAIN p.placements}
FloatIds(p) == {p.floating[k] : k \in DOMAIN p.floating}
IgnoredIds(p) == {p.ignored[k] : k \in DOMAIN p.ignored}
PlanIds(p) == TiledIds(p) \cup FloatIds(p) \cup IgnoredIds(p)

\* A window of a mirrored inventory is listed once and under one class.
LEMMA OfClassOnce ==
  ASSUME NEW ws \in Seq(Toplevels), NEW inventory, Mirrors(ws, inventory),
         NEW c, NEW d,
         NEW j \in DOMAIN OfClass(ws, c), NEW k \in DOMAIN OfClass(ws, d)
  PROVE  /\ OfClass(ws, c)[j] \in DOMAIN inventory
         /\ OfClass(ws, c)[j] = OfClass(ws, d)[k] => c = d /\ (c = d => j = k)
<1> DEFINE x == Kth(Positions(ws, c), j)
           y == Kth(Positions(ws, d), k)
<1>1. /\ x \in Positions(ws, c) /\ OfClass(ws, c)[j] = ws[x].id
      /\ y \in Positions(ws, d) /\ OfClass(ws, d)[k] = ws[y].id
  BY OfClassPositions
<1>2. x \in DOMAIN ws /\ classify_toplevel(ws[x].face) = c
  BY <1>1 DEF Positions
<1>3. y \in DOMAIN ws /\ classify_toplevel(ws[y].face) = d
  BY <1>1 DEF Positions
<1>4. ws[x].id \in Ids(ws)
  BY <1>2 DEF Ids
<1>5. c = d => (x = y => j = k)
  BY OfClassPositions
<1> HIDE DEF x, y
<1>6. ws[x].id = ws[y].id => x = y
  BY <1>2, <1>3 DEF Mirrors
<1> QED BY <1>1, <1>2, <1>3, <1>4, <1>5, <1>6 DEF Mirrors

\* The windows of an inventory that have a class.
Members(inventory, class) == {v \in DOMAIN inventory : classify_toplevel(inventory[v]) = class}

\* Each of them is listed once in a workspace that mirrors the inventory, and
\* no other window is.
LEMMA ClassMembers ==
  ASSUME NEW ws \in Seq(Toplevels), NEW inventory, Mirrors(ws, inventory), NEW class
  PROVE  /\ \A k \in DOMAIN OfClass(ws, class) : OfClass(ws, class)[k] \in Members(inventory, class)
         /\ \A v \in Members(inventory, class) :
              \E k \in DOMAIN OfClass(ws, class) : OfClass(ws, class)[k] = v
         /\ Cardinality(Members(inventory, class)) = Len(OfClass(ws, class))
<1> DEFINE list == OfClass(ws, class)
           shown == Members(inventory, class)
           P == Positions(ws, class)
           chosen == InOrder(ws, P)
<1>1. /\ list \in Seq(Views)
      /\ \A k \in DOMAIN list : Kth(P, k) \in P /\ list[k] = ws[Kth(P, k)].id
      /\ \A j, k \in DOMAIN list : list[j] = list[k] => j = k
  BY OfClassPositions, OfClassOnce
<1>2. P \in SUBSET DOMAIN ws
  BY DEF Positions
<1>a. ws \in Seq(Toplevels)
  OBVIOUS
<1> HIDE DEF P
<1>3. /\ Len(chosen) = Cardinality(P) /\ chosen \in Seq(Toplevels)
      /\ \A i \in P : \E k \in 1..Cardinality(P) : Kth(P, k) = i
  BY <1>2, <1>a, InOrderIsSubsequence
<1>4. DOMAIN list = 1..Cardinality(P)
  <2>1. DOMAIN list = DOMAIN chosen
    BY DEF OfClass, P
  <2> HIDE DEF chosen, list
  <2> QED BY <1>3, <2>1
<1>5. \A i \in P : i \in DOMAIN ws /\ classify_toplevel(ws[i].face) = class
  BY DEF Positions, P
<1>6. \A i \in DOMAIN ws : classify_toplevel(ws[i].face) = class => i \in P
  BY DEF Positions, P
<1>7. /\ \A i \in DOMAIN ws : ws[i].id \in DOMAIN inventory /\ ws[i].face = inventory[ws[i].id]
      /\ \A v \in DOMAIN inventory : \E i \in DOMAIN ws : ws[i].id = v
  BY DEF Mirrors, Ids
<1>0. \A v : v \in shown <=> v \in DOMAIN inventory /\ classify_toplevel(inventory[v]) = class
  BY DEF Members
<1> HIDE DEF list, shown
<1>8. \A k \in DOMAIN list : list[k] \in shown
  BY <1>0, <1>1, <1>5, <1>7
<1>9. ASSUME NEW v \in shown PROVE \E k \in DOMAIN list : list[k] = v
  <2>1. PICK i \in DOMAIN ws : ws[i].id = v
    BY <1>0, <1>7
  <2>2. i \in P
    BY <1>0, <1>6, <1>7, <2>1
  <2>3. PICK k \in DOMAIN list : Kth(P, k) = i
    BY <1>3, <1>4, <2>2
  <2> QED BY <1>1, <2>1, <2>3
<1>10. IsFiniteSet(shown) /\ Cardinality(shown) = Len(list)
  BY <1>1, <1>8, <1>9, ListCount
<1> QED BY <1>8, <1>9, <1>10 DEF list, shown

\* The parts of a plan in terms of the lists of the three classes: the first n
\* managed windows hold the tiles of the layout of n, the others float.
LEMMA PlanShape ==
  ASSUME NEW ws \in Seq(Toplevels), NEW automatic \in BOOLEAN, NEW area \in Nat,
         NEW p, p = workspace_plan(automatic, ws, area)
  PROVE  LET M == OfClass(ws, "managed")
             F == OfClass(ws, "floating")
             G == OfClass(ws, "ignored")
             n == IF automatic THEN Lesser(Maximum, Len(M)) ELSE 0
         IN  /\ n \in Nat /\ Len(M) \in Nat /\ n <= Len(M)
             /\ p \in Plans
             /\ DOMAIN p.placements = 1..n
             /\ \A k \in 1..n : p.placements[k].id = M[k] /\ p.placements[k].tile = <<n, k>>
             /\ TiledIds(p) = {M[k] : k \in 1..n}
             /\ FloatIds(p) = {F[k] : k \in DOMAIN F} \cup {M[k] : k \in (n + 1)..Len(M)}
             /\ IgnoredIds(p) = {G[k] : k \in DOMAIN G}
<1> DEFINE M == OfClass(ws, "managed")
           F == OfClass(ws, "floating")
           G == OfClass(ws, "ignored")
           n == IF automatic THEN Lesser(Maximum, Len(M)) ELSE 0
           O == [k \in 1..(Len(M) - n) |-> M[n + k]]
           tiled == [k \in 1..n |-> [id |-> M[k], tile |-> <<n, k>>, output |-> area]]
<1>1. M \in Seq(Views) /\ F \in Seq(Views) /\ G \in Seq(Views)
  BY OfClassPositions
<1>2. p = [placements |-> tiled, floating |-> F \o O, ignored |-> G]
  BY DEF workspace_plan
<1> HIDE DEF M, F, G
<1>3. Len(M) \in Nat /\ DOMAIN M = 1..Len(M) /\ Len(F) \in Nat /\ DOMAIN F = 1..Len(F)
  BY <1>1
<1>4. n \in Nat /\ n <= Len(M)
  BY <1>3, MaximumAssumption DEF Lesser
<1> HIDE DEF n
<1>5. /\ \A k \in 1..n : k \in DOMAIN M
      /\ \A k \in 1..(Len(M) - n) : n + k \in DOMAIN M /\ n + k \in (n + 1)..Len(M)
      /\ \A k \in (n + 1)..Len(M) : k - n \in 1..(Len(M) - n) /\ n + (k - n) = k
      /\ Len(M) - n \in Nat
  BY <1>3, <1>4
<1>6. O \in Seq(Views) /\ DOMAIN O = 1..(Len(M) - n)
  <2>1. \A k \in 1..(Len(M) - n) : M[n + k] \in Views
    BY <1>1, <1>5
  <2>2. O \in [1..(Len(M) - n) -> Views]
    BY <2>1
  <2> QED BY <1>5, <2>2
<1>7. \A k \in DOMAIN O : O[k] = M[n + k]
  OBVIOUS
<1>8. /\ F \o O \in Seq(Views)
      /\ \A k \in DOMAIN (F \o O) : \/ k \in DOMAIN F /\ (F \o O)[k] = F[k]
                                    \/ k - Len(F) \in DOMAIN O /\ (F \o O)[k] = O[k - Len(F)]
      /\ \A k \in DOMAIN F : k \in DOMAIN (F \o O) /\ (F \o O)[k] = F[k]
      /\ \A k \in DOMAIN O : \E j \in DOMAIN (F \o O) : (F \o O)[j] = O[k]
  <2>1. F \in Seq(Views) /\ O \in Seq(Views)
    BY <1>1, <1>6
  <2> HIDE DEF O
  <2> QED BY <2>1, ConcatParts
<1> HIDE DEF O
<1>9. FloatIds(p) = {F[k] : k \in DOMAIN F} \cup {M[k] : k \in (n + 1)..Len(M)}
  <2>1. FloatIds(p) = {(F \o O)[k] : k \in DOMAIN (F \o O)}
    BY <1>2 DEF FloatIds
  <2>2. ASSUME NEW x \in FloatIds(p)
        PROVE  (\E k \in DOMAIN F : x = F[k]) \/ \E k \in (n + 1)..Len(M) : x = M[k]
    BY <1>5, <1>6, <1>7, <1>8, <2>1
  <2>3. ASSUME NEW k \in DOMAIN F PROVE F[k] \in FloatIds(p)
    BY <1>8, <2>1
  <2>4. ASSUME NEW k \in (n + 1)..Len(M) PROVE M[k] \in FloatIds(p)
    <3>1. k - n \in DOMAIN O /\ O[k - n] = M[k]
      BY <1>5, <1>6, <1>7
    <3> QED BY <1>8, <2>1, <3>1
  <2> QED BY <2>2, <2>3, <2>4
<1>10. /\ DOMAIN p.placements = 1..n
       /\ \A k \in 1..n : p.placements[k].id = M[k] /\ p.placements[k].tile = <<n, k>>
  BY <1>2
<1>11. TiledIds(p) = {M[k] : k \in 1..n}
  BY <1>10 DEF TiledIds
<1>12. IgnoredIds(p) = {G[k] : k \in DOMAIN G}
  BY <1>2 DEF IgnoredIds
<1>13. p \in Plans
  <2>1. tiled \in [1..n -> [id : Views, tile : Nat \X Nat, output : Nat]]
    BY <1>1, <1>4, <1>5
  <2>2. tiled \in Seq([id : Views, tile : Nat \X Nat, output : Nat])
    BY <1>4, <2>1
  <2> QED BY <1>1, <1>2, <1>8, <2>2 DEF Plans
<1> QED BY <1>3, <1>4, <1>9, <1>10, <1>11, <1>12, <1>13 DEF M, F, G, n

\* A plan names windows of the inventory only, and tiled, floating and
\* ignored windows are different ones: no window gets contradicting commands.
LEMMA PlanFacts ==
  ASSUME NEW ws \in Seq(Toplevels), NEW inventory, Mirrors(ws, inventory),
         NEW automatic \in BOOLEAN, NEW area \in Nat, NEW p, p = workspace_plan(automatic, ws, area)
  PROVE  /\ p \in Plans
         /\ PlanIds(p) \subseteq DOMAIN inventory
         /\ TiledIds(p) \cap FloatIds(p) = {}
         /\ TiledIds(p) \cap IgnoredIds(p) = {}
<1> DEFINE M == OfClass(ws, "managed")
           F == OfClass(ws, "floating")
           G == OfClass(ws, "ignored")
           n == IF automatic THEN Lesser(Maximum, Len(M)) ELSE 0
<1>1. M \in Seq(Views)
  BY OfClassPositions
<1>2. /\ \A j \in DOMAIN M : M[j] \in DOMAIN inventory
      /\ \A j \in DOMAIN F : F[j] \in DOMAIN inventory
      /\ \A j \in DOMAIN G : G[j] \in DOMAIN inventory
  BY OfClassOnce
<1>3. /\ \A j, k \in DOMAIN M : M[j] = M[k] => j = k
      /\ \A j \in DOMAIN M, k \in DOMAIN F : M[j] # F[k]
      /\ \A j \in DOMAIN M, k \in DOMAIN G : M[j] # G[k]
  BY OfClassOnce
<1>4. /\ n \in Nat /\ n <= Len(M) /\ p \in Plans
      /\ TiledIds(p) = {M[k] : k \in 1..n}
      /\ FloatIds(p) = {F[k] : k \in DOMAIN F} \cup {M[k] : k \in (n + 1)..Len(M)}
      /\ IgnoredIds(p) = {G[k] : k \in DOMAIN G}
  BY PlanShape
<1> HIDE DEF M, F, G, n
<1>5. /\ \A k \in 1..n : k \in DOMAIN M
      /\ \A k \in (n + 1)..Len(M) : k \in DOMAIN M
      /\ \A j \in 1..n, k \in (n + 1)..Len(M) : j # k
  BY <1>1, <1>4
<1>6. PlanIds(p) \subseteq DOMAIN inventory
  BY <1>2, <1>4, <1>5 DEF PlanIds
<1>7. TiledIds(p) \cap FloatIds(p) = {}
  BY <1>3, <1>4, <1>5
<1>8. TiledIds(p) \cap IgnoredIds(p) = {}
  BY <1>3, <1>4, <1>5
<1> QED BY <1>4, <1>6, <1>7, <1>8

-----------------------------------------------------------------------------
(* Command batches. *)

Has(queue, op, v) == \E k \in DOMAIN queue : queue[k].op = op /\ queue[k].id = v

\* A command that the plan p asks for.
Planned(p, cmd) ==
  /\ cmd.op \in {"DECORATION", "TILE", "FLOAT", "UNMANAGE"} /\ cmd.id \in PlanIds(p)
  /\ cmd.op = "TILE" => cmd.id \in TiledIds(p)
  /\ cmd.op = "FLOAT" => cmd.id \in FloatIds(p)
  /\ cmd.op = "UNMANAGE" => cmd.id \in IgnoredIds(p)

\* Two commands per window: odd positions and even ones.
LEMMA Halving ==
  ASSUME NEW n \in Nat
  PROVE  /\ \A k \in 1..(2 * n) : (k + 1) \div 2 \in 1..n
         /\ \A i \in 1..n : 2 * i \in 1..(2 * n) /\ (2 * i + 1) \div 2 = i /\ (2 * i) % 2 # 1
OBVIOUS

\* The tiled part of a batch (reconcile_commands) tiles every placement and
\* nothing else.
LEMMA TileCommands ==
  ASSUME NEW p \in Plans
  PROVE  /\ reconcile_commands(p.placements) \in Seq(Commands)
         /\ \A k \in DOMAIN reconcile_commands(p.placements) :
              Planned(p, reconcile_commands(p.placements)[k])
         /\ \A v \in TiledIds(p) : Has(reconcile_commands(p.placements), "TILE", v)
<1> DEFINE s == p.placements
           q == reconcile_commands(s)
<1>1. /\ Len(s) \in Nat /\ DOMAIN s = 1..Len(s)
      /\ \A i \in 1..Len(s) : s[i].id \in Views /\ s[i].tile \in Nat \X Nat
  <2> DEFINE R == [id : Views, tile : Nat \X Nat, output : Nat]
  <2>1. s \in Seq(R)
    BY DEF Plans
  <2>2. \A r \in R : r.id \in Views /\ r.tile \in Nat \X Nat
    OBVIOUS
  <2> HIDE DEF R, s
  <2>3. Len(s) \in Nat /\ DOMAIN s = 1..Len(s) /\ \A i \in 1..Len(s) : s[i] \in R
    BY <2>1
  <2> QED BY <2>2, <2>3
<1>2. \A i \in 1..Len(s) : s[i].id \in TiledIds(p)
  BY <1>1 DEF TiledIds
<1>3. \A v \in TiledIds(p) : \E i \in 1..Len(s) : v = s[i].id
  BY <1>1 DEF TiledIds
<1> HIDE DEF s
<1>4. q = [k \in 1..(2 * Len(s)) |->
             IF k % 2 = 1 THEN Command("DECORATION", s[(k + 1) \div 2].id, NoTile)
             ELSE Command("TILE", s[(k + 1) \div 2].id, s[(k + 1) \div 2].tile)]
  BY DEF reconcile_commands
<1> HIDE DEF q
<1>5. \A k \in 1..(2 * Len(s)) : (k + 1) \div 2 \in 1..Len(s)
  BY <1>1, Halving
<1>6. \A k \in 1..(2 * Len(s)) :
        \/ q[k] = [op |-> "DECORATION", id |-> s[(k + 1) \div 2].id, tile |-> <<0, 0>>]
        \/ q[k] = [op |-> "TILE", id |-> s[(k + 1) \div 2].id, tile |-> s[(k + 1) \div 2].tile]
  BY <1>4 DEF Command, NoTile
<1>7. ASSUME NEW k \in 1..(2 * Len(s)) PROVE q[k] \in Commands /\ Planned(p, q[k])
  <2>1. PICK i \in 1..Len(s) : i = (k + 1) \div 2
    BY <1>5
  <2>2. s[i].id \in Views /\ s[i].tile \in Nat \X Nat /\ s[i].id \in TiledIds(p)
    BY <1>1, <1>2, <2>1
  <2>3. CASE q[k] = [op |-> "DECORATION", id |-> s[i].id, tile |-> <<0, 0>>]
    BY <2>2, <2>3 DEF Commands, Planned, PlanIds
  <2>4. CASE q[k] = [op |-> "TILE", id |-> s[i].id, tile |-> s[i].tile]
    BY <2>2, <2>4 DEF Commands, Planned, PlanIds
  <2> QED BY <1>6, <2>1, <2>3, <2>4
<1>8. q \in Seq(Commands) /\ DOMAIN q = 1..(2 * Len(s))
  <2>1. DOMAIN q = 1..(2 * Len(s)) /\ q \in [1..(2 * Len(s)) -> Commands]
    BY <1>4, <1>7
  <2>2. 2 * Len(s) \in Nat
    BY <1>1
  <2> QED BY <2>1, <2>2
<1>9. ASSUME NEW i \in 1..Len(s) PROVE Has(q, "TILE", s[i].id)
  <2>1. 2 * i \in 1..(2 * Len(s)) /\ (2 * i + 1) \div 2 = i /\ (2 * i) % 2 # 1
    BY <1>1, Halving
  <2>2. q[2 * i] = [op |-> "TILE", id |-> s[i].id, tile |-> s[i].tile]
    BY <1>4, <2>1 DEF Command
  <2> QED BY <1>8, <2>1, <2>2 DEF Has
<1> QED BY <1>3, <1>7, <1>8, <1>9 DEF q, s

\* The floating part of a batch floats every floating window and nothing else.
LEMMA FloatCommands ==
  ASSUME NEW p \in Plans
  PROVE  /\ float_commands(p.floating) \in Seq(Commands)
         /\ \A k \in DOMAIN float_commands(p.floating) :
              Planned(p, float_commands(p.floating)[k])
         /\ \A v \in FloatIds(p) : Has(float_commands(p.floating), "FLOAT", v)
<1> DEFINE s == p.floating
           q == float_commands(s)
<1>1. /\ Len(s) \in Nat /\ DOMAIN s = 1..Len(s)
      /\ \A i \in 1..Len(s) : s[i] \in Views
  BY DEF Plans
<1>2. \A i \in 1..Len(s) : s[i] \in FloatIds(p)
  BY <1>1 DEF FloatIds
<1>3. \A v \in FloatIds(p) : \E i \in 1..Len(s) : v = s[i]
  BY <1>1 DEF FloatIds
<1> HIDE DEF s
<1>4. q = [k \in 1..(2 * Len(s)) |->
             IF k % 2 = 1 THEN Command("DECORATION", s[(k + 1) \div 2], NoTile)
             ELSE Command("FLOAT", s[(k + 1) \div 2], NoTile)]
  BY DEF float_commands
<1> HIDE DEF q
<1>5. \A k \in 1..(2 * Len(s)) : (k + 1) \div 2 \in 1..Len(s)
  BY <1>1, Halving
<1>6. \A k \in 1..(2 * Len(s)) :
        \/ q[k] = [op |-> "DECORATION", id |-> s[(k + 1) \div 2], tile |-> <<0, 0>>]
        \/ q[k] = [op |-> "FLOAT", id |-> s[(k + 1) \div 2], tile |-> <<0, 0>>]
  BY <1>4 DEF Command, NoTile
<1>7. ASSUME NEW k \in 1..(2 * Len(s)) PROVE q[k] \in Commands /\ Planned(p, q[k])
  <2>1. PICK i \in 1..Len(s) : i = (k + 1) \div 2
    BY <1>5
  <2>2. s[i] \in Views /\ s[i] \in FloatIds(p)
    BY <1>1, <1>2, <2>1
  <2>3. CASE q[k] = [op |-> "DECORATION", id |-> s[i], tile |-> <<0, 0>>]
    BY <2>2, <2>3 DEF Commands, Planned, PlanIds
  <2>4. CASE q[k] = [op |-> "FLOAT", id |-> s[i], tile |-> <<0, 0>>]
    BY <2>2, <2>4 DEF Commands, Planned, PlanIds
  <2> QED BY <1>6, <2>1, <2>3, <2>4
<1>8. q \in Seq(Commands) /\ DOMAIN q = 1..(2 * Len(s))
  <2>1. DOMAIN q = 1..(2 * Len(s)) /\ q \in [1..(2 * Len(s)) -> Commands]
    BY <1>4, <1>7
  <2>2. 2 * Len(s) \in Nat
    BY <1>1
  <2> QED BY <2>1, <2>2
<1>9. ASSUME NEW i \in 1..Len(s) PROVE Has(q, "FLOAT", s[i])
  <2>1. 2 * i \in 1..(2 * Len(s)) /\ (2 * i + 1) \div 2 = i /\ (2 * i) % 2 # 1
    BY <1>1, Halving
  <2>2. q[2 * i] = [op |-> "FLOAT", id |-> s[i], tile |-> <<0, 0>>]
    BY <1>4, <2>1 DEF Command, NoTile
  <2>3. 2 * i \in DOMAIN q /\ q[2 * i].op = "FLOAT" /\ q[2 * i].id = s[i]
    BY <1>8, <2>1, <2>2
  <2> QED BY <2>3 DEF Has
<1> QED BY <1>3, <1>7, <1>8, <1>9 DEF q, s

\* The last part of a batch unlocks every ignored window and nothing else.
LEMMA UnmanageCommands ==
  ASSUME NEW p \in Plans
  PROVE  /\ unmanage_commands(p.ignored) \in Seq(Commands)
         /\ \A k \in DOMAIN unmanage_commands(p.ignored) :
              Planned(p, unmanage_commands(p.ignored)[k])
         /\ \A v \in IgnoredIds(p) : Has(unmanage_commands(p.ignored), "UNMANAGE", v)
<1> DEFINE s == p.ignored
           q == unmanage_commands(s)
<1>1. /\ Len(s) \in Nat /\ DOMAIN s = 1..Len(s)
      /\ \A i \in 1..Len(s) : s[i] \in Views
  BY DEF Plans
<1>2. \A i \in 1..Len(s) : s[i] \in IgnoredIds(p)
  BY <1>1 DEF IgnoredIds
<1>3. \A v \in IgnoredIds(p) : \E i \in 1..Len(s) : v = s[i]
  BY <1>1 DEF IgnoredIds
<1> HIDE DEF s
<1>4. q = [k \in 1..Len(s) |-> [op |-> "UNMANAGE", id |-> s[k], tile |-> <<0, 0>>]]
  BY DEF unmanage_commands, Command, NoTile
<1> HIDE DEF q
<1>5. \A k \in 1..Len(s) : q[k] \in Commands /\ Planned(p, q[k])
  BY <1>1, <1>2, <1>4 DEF Commands, Planned, PlanIds
<1>6. q \in Seq(Commands) /\ DOMAIN q = 1..Len(s)
  <2>1. DOMAIN q = 1..Len(s) /\ q \in [1..Len(s) -> Commands]
    BY <1>4, <1>5
  <2> QED BY <1>1, <2>1
<1>7. ASSUME NEW i \in 1..Len(s) PROVE Has(q, "UNMANAGE", s[i])
  BY <1>4, <1>6 DEF Has
<1> QED BY <1>3, <1>5, <1>6, <1>7 DEF q, s

\* The batch of a plan asks for nothing else than the plan, and for all the
\* locks of it.
LEMMA BatchFacts ==
  ASSUME NEW p \in Plans
  PROVE  /\ reconcile_workspace_commands(p) \in Seq(Commands)
         /\ \A k \in DOMAIN reconcile_workspace_commands(p) :
              Planned(p, reconcile_workspace_commands(p)[k])
         /\ \A v \in TiledIds(p) : Has(reconcile_workspace_commands(p), "TILE", v)
         /\ \A v \in FloatIds(p) : Has(reconcile_workspace_commands(p), "FLOAT", v)
         /\ \A v \in IgnoredIds(p) : Has(reconcile_workspace_commands(p), "UNMANAGE", v)
<1> DEFINE a == reconcile_commands(p.placements)
           b == float_commands(p.floating)
           c == unmanage_commands(p.ignored)
<1>1. a \in Seq(Commands) /\ b \in Seq(Commands) /\ c \in Seq(Commands)
  BY TileCommands, FloatCommands, UnmanageCommands
<1>2. /\ \A k \in DOMAIN a : Planned(p, a[k])
      /\ \A k \in DOMAIN b : Planned(p, b[k])
      /\ \A k \in DOMAIN c : Planned(p, c[k])
  BY TileCommands, FloatCommands, UnmanageCommands
<1>3. /\ \A v \in TiledIds(p) : Has(a, "TILE", v)
      /\ \A v \in FloatIds(p) : Has(b, "FLOAT", v)
      /\ \A v \in IgnoredIds(p) : Has(c, "UNMANAGE", v)
  BY TileCommands, FloatCommands, UnmanageCommands
<1>4. reconcile_workspace_commands(p) = (a \o b) \o c
  BY DEF reconcile_workspace_commands
<1> HIDE DEF a, b, c
<1> DEFINE ab == a \o b
           abc == ab \o c
<1>5. /\ ab \in Seq(Commands)
      /\ \A k \in DOMAIN ab : Planned(p, ab[k])
      /\ \A v \in TiledIds(p) : Has(ab, "TILE", v)
      /\ \A v \in FloatIds(p) : Has(ab, "FLOAT", v)
  <2>1. /\ ab \in Seq(Commands)
        /\ \A k \in DOMAIN ab : \/ k \in DOMAIN a /\ ab[k] = a[k]
                                \/ k - Len(a) \in DOMAIN b /\ ab[k] = b[k - Len(a)]
        /\ \A k \in DOMAIN a : k \in DOMAIN ab /\ ab[k] = a[k]
        /\ \A k \in DOMAIN b : \E j \in DOMAIN ab : ab[j] = b[k]
    BY <1>1, ConcatParts
  <2> HIDE DEF ab
  <2> QED BY <1>2, <1>3, <2>1 DEF Has
<1> HIDE DEF ab
<1>6. /\ abc \in Seq(Commands)
      /\ \A k \in DOMAIN abc : Planned(p, abc[k])
      /\ \A v \in TiledIds(p) : Has(abc, "TILE", v)
      /\ \A v \in FloatIds(p) : Has(abc, "FLOAT", v)
      /\ \A v \in IgnoredIds(p) : Has(abc, "UNMANAGE", v)
  <2>1. /\ abc \in Seq(Commands)
        /\ \A k \in DOMAIN abc : \/ k \in DOMAIN ab /\ abc[k] = ab[k]
                                 \/ k - Len(ab) \in DOMAIN c /\ abc[k] = c[k - Len(ab)]
        /\ \A k \in DOMAIN ab : k \in DOMAIN abc /\ abc[k] = ab[k]
        /\ \A k \in DOMAIN c : \E j \in DOMAIN abc : abc[j] = c[k]
    BY <1>1, <1>5, ConcatParts
  <2> HIDE DEF abc
  <2> QED BY <1>2, <1>3, <1>5, <2>1 DEF Has
<1> QED BY <1>4, <1>6 DEF ab, abc
=============================================================================

------------------------------ MODULE Counting ------------------------------
(***************************************************************************)
(* How many of the first n entries of an array are in a set of entries, and *)
(* what a shift, an insertion and a change of the entries do to that number. *)
(* The facts for an array of any length rest on a set of naturals having a *)
(* least member.                                                           *)
(***************************************************************************)
EXTENDS Integers, FiniteSetTheorems, NaturalsInduction, WellFoundedInduction, TLAPS

(* A set of naturals has a least member. *)
LEMMA LeastElement ==
    ASSUME NEW T \in SUBSET Nat, T # {}
    PROVE  \E n \in T : \A m \in T : n <= m
<1> DEFINE R == {p \in Nat \X Nat : p[1] < p[2]}
<1>1. R = OpToRel(<, Nat)
  BY DEF OpToRel
<1>2. IsWellFoundedOn(R, Nat)
  BY <1>1, NatLessThanWellFounded
<1>3. PICK x \in T : \A y \in T : <<y, x>> \notin R
  <2> HIDE DEF R
  <2> QED  BY <1>2, WFMin
<1>4. \A y \in T : ~(y < x)
  BY <1>3
<1> QED  BY <1>4

(* A set that holds 0 and, below n, the successor of each natural in it    *)
(* holds 0 .. n.                                                           *)
LEMMA UpTo ==
    ASSUME NEW T, NEW n \in Nat, 0 \in T,
           \A i \in 0 .. n - 1 : i \in T => i + 1 \in T
    PROVE  0 .. n \subseteq T
<1> SUFFICES ASSUME (0 .. n) \ T # {}  PROVE FALSE
  OBVIOUS
<1>1. PICK k \in (0 .. n) \ T : \A m \in (0 .. n) \ T : k <= m
  <2>1. (0 .. n) \ T \in SUBSET Nat
    OBVIOUS
  <2> QED  BY <2>1, LeastElement
<1>2. k - 1 \in 0 .. n - 1 /\ k - 1 \in T
  BY <1>1
<1> QED  BY <1>1, <1>2
-----------------------------------------------------------------------------
Places(f, n, X)  == {i \in 0 .. n - 1 : f[i] \in X}
HowMany(f, n, X) == Cardinality(Places(f, n, X))
One(b) == IF b THEN 1 ELSE 0

LEMMA PlacesFinite == \A f, X : \A n \in Nat : IsFiniteSet(Places(f, n, X))
<1> TAKE f, X
<1> TAKE n \in Nat
<1>1. IsFiniteSet(0 .. n - 1)
  <2>1. n - 1 \in Int
    OBVIOUS
  <2> QED  BY <2>1, FS_Interval
<1>2. Places(f, n, X) \in SUBSET (0 .. n - 1)
  BY DEF Places
<1> QED  BY <1>1, <1>2, FS_Subset

(* Each entry counts once. *)
LEMMA CountFirst == \A f, X : HowMany(f, 0, X) = 0
<1> TAKE f, X
<1>1. Places(f, 0, X) = {}
  BY DEF Places
<1> QED  BY <1>1, FS_EmptySet DEF HowMany

LEMMA CountNext ==
    ASSUME NEW f, NEW X, NEW n \in Nat
    PROVE  /\ HowMany(f, n, X) \in Nat
           /\ HowMany(f, n + 1, X) = HowMany(f, n, X) + One(f[n] \in X)
<1>1. IsFiniteSet(Places(f, n, X))
  BY PlacesFinite
<1>2. HowMany(f, n, X) \in Nat
  BY <1>1, FS_CardinalityType DEF HowMany
<1>3. CASE f[n] \in X
  <2>1. Places(f, n + 1, X) = Places(f, n, X) \cup {n} /\ n \notin Places(f, n, X)
    BY <1>3 DEF Places
  <2> QED  BY <1>1, <1>2, <1>3, <2>1, FS_AddElement DEF HowMany, One
<1>4. CASE f[n] \notin X
  <2>1. Places(f, n + 1, X) = Places(f, n, X)
    BY <1>4 DEF Places
  <2> QED  BY <1>2, <1>4, <2>1 DEF HowMany, One
<1> QED  BY <1>2, <1>3, <1>4

(* Only the entries counted matter. *)
LEMMA CountSame ==
    ASSUME NEW f, NEW g, NEW n \in Nat, \A i \in 0 .. n - 1 : f[i] = g[i]
    PROVE  \A X : HowMany(f, n, X) = HowMany(g, n, X)
<1> TAKE X
<1>1. Places(f, n, X) = Places(g, n, X)
  BY DEF Places
<1> QED  BY <1>1 DEF HowMany

LEMMA CountPresent ==
    ASSUME NEW f, NEW n \in Nat, NEW X
    PROVE  /\ HowMany(f, n, X) \in Nat
           /\ HowMany(f, n, X) > 0 <=> \E i \in 0 .. n - 1 : f[i] \in X
<1>1. IsFiniteSet(Places(f, n, X))
  BY PlacesFinite
<1>2. HowMany(f, n, X) = 0 <=> Places(f, n, X) = {}
  BY <1>1, FS_EmptySet DEF HowMany
<1>3. HowMany(f, n, X) \in Nat
  BY CountNext
<1> QED  BY <1>2, <1>3 DEF Places

(* Entries that are not in X do not count, however many there are. *)
LEMMA CountUpTo ==
    ASSUME NEW f, NEW X, NEW m \in Nat, NEW n \in Nat, m <= n,
           \A i \in m .. n - 1 : f[i] \notin X
    PROVE  HowMany(f, n, X) = HowMany(f, m, X)
<1>1. Places(f, n, X) = Places(f, m, X)
  BY DEF Places
<1> QED  BY <1>1 DEF HowMany

(* A shift to the left drops the first entry. *)
LEMMA CountShifted ==
    ASSUME NEW f, NEW g, NEW n \in Nat, \A i \in 0 .. n - 1 : g[i] = f[i + 1]
    PROVE  \A X : HowMany(g, n, X) + One(f[0] \in X) = HowMany(f, n + 1, X)
<1> TAKE X
<1> DEFINE T == {k \in Nat : HowMany(g, k, X) + One(f[0] \in X) = HowMany(f, k + 1, X)}
<1>1. 0 \in T
  <2>1. HowMany(g, 0, X) = 0 /\ HowMany(f, 0, X) = 0 /\ One(f[0] \in X) \in Nat
    BY CountFirst DEF One
  <2>2. HowMany(f, 0 + 1, X) = HowMany(f, 0, X) + One(f[0] \in X)
    BY CountNext
  <2> QED  BY <2>1, <2>2
<1>2. ASSUME NEW k \in 0 .. n - 1, k \in T
      PROVE  k + 1 \in T
  <2>1. k \in Nat /\ k + 1 \in Nat /\ g[k] = f[k + 1]
    OBVIOUS
  <2>2. /\ HowMany(g, k, X) \in Nat /\ HowMany(f, k + 1, X) \in Nat
        /\ HowMany(g, k + 1, X) = HowMany(g, k, X) + One(g[k] \in X)
        /\ HowMany(f, (k + 1) + 1, X) = HowMany(f, k + 1, X) + One(f[k + 1] \in X)
    BY <2>1, CountNext
  <2>3. HowMany(g, k, X) + One(f[0] \in X) = HowMany(f, k + 1, X)
    BY <1>2
  <2>4. One(g[k] \in X) = One(f[k + 1] \in X) /\ One(f[0] \in X) \in Nat /\ One(g[k] \in X) \in Nat
    BY <2>1 DEF One
  <2> QED  BY <2>1, <2>2, <2>3, <2>4
<1>3. 0 .. n \subseteq T
  <2> HIDE DEF T
  <2> QED  BY <1>1, <1>2, UpTo
<1> QED  BY <1>3

(* An entry inserted at place p counts once, the others as before. *)
LEMMA CountInserted ==
    ASSUME NEW f, NEW g, NEW n \in Nat, NEW p \in 0 .. n,
           \A i \in 0 .. p - 1 : g[i] = f[i],
           \A i \in p + 1 .. n : g[i] = f[i - 1]
    PROVE  \A X : HowMany(g, n + 1, X) = HowMany(f, n, X) + One(g[p] \in X)
<1> TAKE X
<1> DEFINE S(k) == HowMany(g, p + k + 1, X) = HowMany(f, p + k, X) + One(g[p] \in X)
           T == {k \in Nat : S(k)}
<1>1. 0 \in T
  <2>1. HowMany(g, p, X) = HowMany(f, p, X)
    BY CountSame
  <2>2. HowMany(g, p + 1, X) = HowMany(g, p, X) + One(g[p] \in X)
    BY CountNext
  <2>3. p + 0 = p /\ p + 0 + 1 = p + 1
    OBVIOUS
  <2> QED  BY <2>1, <2>2, <2>3
<1>2. ASSUME NEW k \in 0 .. (n - p) - 1, k \in T
      PROVE  k + 1 \in T
  <2>1. /\ p + k \in Nat /\ p + k + 1 \in Nat /\ p + k + 1 \in p + 1 .. n
        /\ p + (k + 1) = p + k + 1 /\ (p + k + 1) - 1 = p + k
        /\ p + (k + 1) + 1 = (p + k + 1) + 1
    OBVIOUS
  <2>2. g[p + k + 1] = f[p + k]
    BY <2>1
  <2>3. /\ HowMany(g, p + k + 1, X) \in Nat /\ HowMany(f, p + k, X) \in Nat
        /\ HowMany(g, (p + k + 1) + 1, X) = HowMany(g, p + k + 1, X) + One(g[p + k + 1] \in X)
        /\ HowMany(f, p + k + 1, X) = HowMany(f, p + k, X) + One(f[p + k] \in X)
    BY <2>1, CountNext
  <2>4. One(g[p + k + 1] \in X) = One(f[p + k] \in X) /\ One(f[p + k] \in X) \in Nat
        /\ One(g[p] \in X) \in Nat
    BY <2>2 DEF One
  <2>5. S(k)
    BY <1>2
  <2>6. S(k + 1)
    BY <2>1, <2>3, <2>4, <2>5
  <2> QED  BY <2>1, <2>6
<1>3. 0 .. n - p \subseteq T
  <2> HIDE DEF T
  <2> QED  BY <1>1, <1>2, UpTo
<1>4. S(n - p)
  BY <1>3
<1> QED  BY <1>4
-----------------------------------------------------------------------------
LEMMA AtMostOne ==
    ASSUME NEW S, IsFiniteSet(S), Cardinality(S) <= 1, NEW x \in S, NEW y \in S
    PROVE  x = y
<1> SUFFICES ASSUME x # y PROVE FALSE
  OBVIOUS
<1>1. IsFiniteSet({x}) /\ Cardinality({x}) = 1
  BY FS_Singleton
<1>2. Cardinality({x} \cup {y}) = 2
  <2>1. y \notin {x}
    OBVIOUS
  <2>2. Cardinality({x} \cup {y}) = Cardinality({x}) + 1
    BY <1>1, <2>1, FS_AddElement
  <2> QED  BY <1>1, <2>2
<1>3. {x} \cup {y} \in SUBSET S
  OBVIOUS
<1> QED  BY <1>2, <1>3, FS_Subset, FS_CardinalityType

(* Entries that are all different, and all in U but not v, leave a place    *)
(* free in an array as long as U is large.                                 *)
LEMMA DistinctFit ==
    ASSUME NEW f, NEW n \in Nat, NEW U, IsFiniteSet(U), NEW v \in U,
           \A i \in 0 .. n - 1 : f[i] \in U \ {v},
           \A i, j \in 0 .. n - 1 : f[i] = f[j] => i = j
    PROVE  n < Cardinality(U)
<1> DEFINE g == [i \in 0 .. n - 1 |-> f[i]]
<1>1. IsFiniteSet(U \ {v}) /\ Cardinality(U \ {v}) = Cardinality(U) - 1
      /\ Cardinality(U) \in Nat
  BY FS_RemoveElement, FS_CardinalityType
<1>2. g \in Injection(0 .. n - 1, U \ {v})
  BY DEF Injection, IsInjective
<1>3. Cardinality(0 .. n - 1) <= Cardinality(U \ {v})
  BY <1>1, <1>2, FS_Injection
<1>4. Cardinality(0 .. n - 1) = n
  <2>1. 0 \in Int /\ n - 1 \in Int
    OBVIOUS
  <2> QED  BY <2>1, FS_Interval
<1> QED  BY <1>1, <1>3, <1>4
=============================================================================

--------------------------------- MODULE SetLemmas ---------------------------------
(***************************************************************************)
(* Sums over finite sets.  MapThenSumSet of the community modules takes    *)
(* the elements of a set in an order that CHOOSE decides; the lemmas say   *)
(* that the recursion it is defined by has a solution and that the order   *)
(* does not matter, so that an element can be split off at will.           *)
(***************************************************************************)
EXTENDS FiniteSetsExt, FiniteSetTheorems, WellFoundedInduction, TLAPS

Pick(s) == CHOOSE x \in s : TRUE

(* g is the recursion of MapThenSumSet on the sets of D, for the function f. *)
IsSum(g, f, D) == g = [s \in D |-> IF s = {} THEN 0 ELSE f[Pick(s)] + g[s \ {Pick(s)}]]

(* The sum of f over S. *)
SumOf(f, S) == (CHOOSE g : IsSum(g, f, SUBSET S))[S]

(* The fold of the community module is the sum. *)
LEMMA FoldIsSum ==
    ASSUME NEW f, NEW S
    PROVE  MapThenSumSet(LAMBDA x : f[x], S) = SumOf(f, S)
BY Zenon DEF MapThenSumSet, MapThenFoldSet, SumOf, IsSum, Pick
-------------------------------------------------------------------------------
(* Induction on a set of natural numbers. *)
LEMMA LessIsWellFounded ==
    \E R : IsWellFoundedOn(R, Nat) /\ \A x, y \in Nat : y < x => <<y, x>> \in R
<1>1. \A x, y \in Nat : y < x => <<y, x>> \in OpToRel(<, Nat)
  BY DEF OpToRel
<1> QED
  BY <1>1, NatLessThanWellFounded, Zenon

LEMMA AllNats ==
    ASSUME NEW P \in SUBSET Nat, 0 \in P, \A n \in P : n + 1 \in P
    PROVE  \A n \in Nat : n \in P
<1>1. SUFFICES ASSUME Nat \ P # {} PROVE FALSE
  OBVIOUS
<1>2. PICK R : IsWellFoundedOn(R, Nat) /\ \A x, y \in Nat : y < x => <<y, x>> \in R
  BY LessIsWellFounded
<1>3. PICK m \in Nat \ P : \A y \in Nat \ P : ~(<<y, m>> \in R)
  BY <1>1, <1>2, WFMin
<1>4. m \in Nat /\ m # 0
  OBVIOUS
<1>5. m - 1 \in Nat /\ m - 1 < m
  BY <1>4
<1>6. m - 1 \in P
  BY <1>2, <1>3, <1>5
<1> QED
  BY <1>4, <1>6

(* Induction on the finite subsets of a finite set, from smaller to larger. *)
LEMMA SmallestSet ==
    ASSUME NEW S, IsFiniteSet(S), NEW B \in SUBSET SUBSET S, B # {}
    PROVE  \E T \in B : \A U \in SUBSET T : U # T => U \notin B
<1>1. B \subseteq FiniteSubsetsOf(S)
  BY FS_Subset DEF FiniteSubsetsOf
<1>2. IsWellFoundedOn(StrictSubsetOrdering(S), FiniteSubsetsOf(S))
  BY FS_StrictSubsetOrderingWellFounded
<1>3. PICK T \in B : \A U \in B : ~(<<U, T>> \in StrictSubsetOrdering(S))
  BY <1>1, <1>2, WFMin
<1> QED
  BY <1>3 DEF StrictSubsetOrdering
-------------------------------------------------------------------------------
(* The recursion has a solution on the sets of at most n elements, for every n. *)
Small(S, n) == {t \in SUBSET S : Cardinality(t) <= n}

LEMMA PickIn == ASSUME NEW s, s # {} PROVE Pick(s) \in s
BY DEF Pick

LEMMA SumExistsSmall ==
    ASSUME NEW S, IsFiniteSet(S), NEW f, NEW n \in Nat
    PROVE  \E g : IsSum(g, f, Small(S, n))
<1> DEFINE P == {k \in Nat : \E g : IsSum(g, f, Small(S, k))}
<1>1. 0 \in P
  <2>1. \A s \in Small(S, 0) : s = {}
    BY FS_Subset, FS_CardinalityType, FS_EmptySet DEF Small
  <2>2. IsSum([s \in Small(S, 0) |-> 0], f, Small(S, 0))
    BY <2>1 DEF IsSum
  <2> QED BY <2>2
<1>2. ASSUME NEW k \in P PROVE k + 1 \in P
  <2>1. PICK g : IsSum(g, f, Small(S, k))
    OBVIOUS
  <2> DEFINE h == [s \in Small(S, k + 1) |-> IF s = {} THEN 0 ELSE f[Pick(s)] + g[s \ {Pick(s)}]]
  <2>2. ASSUME NEW s \in Small(S, k + 1), s # {} PROVE s \ {Pick(s)} \in Small(S, k)
    <3>1. IsFiniteSet(s) /\ Pick(s) \in s
      BY <2>2, FS_Subset, PickIn DEF Small
    <3>2. Cardinality(s \ {Pick(s)}) = Cardinality(s) - 1 /\ Cardinality(s) \in Nat
      BY <3>1, FS_RemoveElement, FS_CardinalityType
    <3> QED BY <3>2 DEF Small
  <2>3. ASSUME NEW s \in Small(S, k) PROVE g[s] = h[s] /\ s \in Small(S, k + 1)
    <3>1. Cardinality(s) \in Nat
      BY FS_Subset, FS_CardinalityType DEF Small
    <3>2. s \in Small(S, k + 1)
      BY <3>1 DEF Small
    <3>3. g[s] = IF s = {} THEN 0 ELSE f[Pick(s)] + g[s \ {Pick(s)}]
      BY <2>1, Zenon DEF IsSum
    <3> QED BY <3>2, <3>3, Zenon
  <2>4. ASSUME NEW s \in Small(S, k + 1), s # {} PROVE g[s \ {Pick(s)}] = h[s \ {Pick(s)}]
    BY <2>2, <2>3, <2>4, Zenon
  <2>5. h = [s \in Small(S, k + 1) |-> IF s = {} THEN 0 ELSE f[Pick(s)] + h[s \ {Pick(s)}]]
    BY <2>4, Zenon
  <2>6. IsSum(h, f, Small(S, k + 1))
    BY <2>5, Zenon DEF IsSum
  <2>7. \E r : IsSum(r, f, Small(S, k + 1))
    BY <2>6, Zenon
  <2>8. k + 1 \in Nat
    OBVIOUS
  <2> HIDE DEF h
  <2> QED BY <2>7, <2>8, Zenon
<1> HIDE DEF P
<1>3. n \in P
  BY <1>1, <1>2, AllNats DEF P
<1> QED BY <1>3 DEF P

LEMMA SumExists ==
    ASSUME NEW S, IsFiniteSet(S), NEW f
    PROVE  \E g : IsSum(g, f, SUBSET S)
<1>1. Cardinality(S) \in Nat
  BY FS_CardinalityType
<1>2. Small(S, Cardinality(S)) = SUBSET S
  BY FS_Subset DEF Small
<1>3. \E g : IsSum(g, f, Small(S, Cardinality(S)))
  BY <1>1, SumExistsSmall
<1> QED BY <1>2, <1>3, Zenon

(* Solutions agree where they overlap and their functions agree. *)
LEMMA SumsAgree ==
    ASSUME NEW S, IsFiniteSet(S), NEW T, IsFiniteSet(T),
           NEW f, NEW e, NEW g, NEW h,
           IsSum(g, f, SUBSET S), IsSum(h, e, SUBSET T),
           NEW U, U \subseteq S, U \subseteq T, \A x \in U : f[x] = e[x]
    PROVE  g[U] = h[U]
<1> DEFINE B == {V \in SUBSET U : g[V] # h[V]}
<1>1. IsFiniteSet(U)
  BY FS_Subset
<1>2. SUFFICES ASSUME B # {} PROVE FALSE
  OBVIOUS
<1>3. PICK V \in B : \A W \in SUBSET V : W # V => W \notin B
  <2>1. B \in SUBSET SUBSET U
    OBVIOUS
  <2> HIDE DEF B
  <2> QED BY <1>1, <1>2, <2>1, SmallestSet
<1>4. /\ g[V] = IF V = {} THEN 0 ELSE f[Pick(V)] + g[V \ {Pick(V)}]
      /\ h[V] = IF V = {} THEN 0 ELSE e[Pick(V)] + h[V \ {Pick(V)}]
  <2>1. V \in SUBSET S /\ V \in SUBSET T
    OBVIOUS
  <2> QED BY <2>1, Zenon DEF IsSum
<1>5. V # {}
  BY <1>4
<1>6. Pick(V) \in V
  BY <1>5, PickIn
<1>7. g[V \ {Pick(V)}] = h[V \ {Pick(V)}]
  <2>1. V \ {Pick(V)} \in SUBSET V /\ V \ {Pick(V)} # V
    BY <1>6
  <2> QED BY <1>3, <2>1
<1>8. f[Pick(V)] = e[Pick(V)]
  BY <1>6
<1> QED BY <1>3, <1>4, <1>7, <1>8
-------------------------------------------------------------------------------
(* What the sum is: 0 on the empty set, and on any other set the chosen element *)
(* and the rest.                                                                *)
LEMMA SumIsSum ==
    ASSUME NEW f, NEW S, IsFiniteSet(S)
    PROVE  \E g : IsSum(g, f, SUBSET S) /\ SumOf(f, S) = g[S]
BY SumExists DEF SumOf

LEMMA SumEmpty == ASSUME NEW f PROVE SumOf(f, {}) = 0
<1>1. PICK g : IsSum(g, f, SUBSET {}) /\ SumOf(f, {}) = g[{}]
  BY SumIsSum, FS_EmptySet
<1> QED BY <1>1 DEF IsSum

(* A sum depends on the function only within the set. *)
LEMMA SumAgree ==
    ASSUME NEW f, NEW e, NEW S, IsFiniteSet(S), \A x \in S : f[x] = e[x]
    PROVE  SumOf(f, S) = SumOf(e, S)
<1>1. PICK g : IsSum(g, f, SUBSET S) /\ SumOf(f, S) = g[S]
  BY SumIsSum
<1>2. PICK h : IsSum(h, e, SUBSET S) /\ SumOf(e, S) = h[S]
  BY SumIsSum
<1>3. g[S] = h[S]
  BY <1>1, <1>2, SumsAgree
<1> QED BY <1>1, <1>2, <1>3

LEMMA SumPick ==
    ASSUME NEW f, NEW S, IsFiniteSet(S), S # {}
    PROVE  SumOf(f, S) = f[Pick(S)] + SumOf(f, S \ {Pick(S)})
<1> DEFINE R == S \ {Pick(S)}
<1>1. PICK g : IsSum(g, f, SUBSET S) /\ SumOf(f, S) = g[S]
  BY SumIsSum
<1>2. IsFiniteSet(R) /\ R \subseteq S
  BY FS_Subset
<1>3. PICK h : IsSum(h, f, SUBSET R) /\ SumOf(f, R) = h[R]
  BY <1>2, SumIsSum
<1>4. g[R] = h[R]
  <2>1. R \subseteq R /\ \A x \in R : f[x] = f[x]
    OBVIOUS
  <2> HIDE DEF R
  <2> QED BY <1>1, <1>2, <1>3, <2>1, SumsAgree
<1>5. g[S] = f[Pick(S)] + g[R]
  <2>1. S \in SUBSET S
    OBVIOUS
  <2>2. g[S] = IF S = {} THEN 0 ELSE f[Pick(S)] + g[S \ {Pick(S)}]
    BY <1>1, <2>1, Zenon DEF IsSum
  <2> QED BY <2>2
<1> QED BY <1>1, <1>3, <1>4, <1>5

(* f is a natural number all over S. *)
NatOn(f, S) == \A x \in S : f[x] \in Nat

LEMMA NatOnSubset == ASSUME NEW f, NEW S, NatOn(f, S), NEW T \in SUBSET S PROVE NatOn(f, T)
BY DEF NatOn

(* A sum of natural numbers is one. *)
LEMMA SumNat ==
    ASSUME NEW f, NEW S, IsFiniteSet(S), NatOn(f, S)
    PROVE  SumOf(f, S) \in Nat
<1> DEFINE B == {V \in SUBSET S : SumOf(f, V) \notin Nat}
<1>1. SUFFICES ASSUME B # {} PROVE FALSE
  OBVIOUS
<1>2. PICK V \in B : \A W \in SUBSET V : W # V => W \notin B
  <2>1. B \in SUBSET SUBSET S
    OBVIOUS
  <2> HIDE DEF B
  <2> QED BY <1>1, <2>1, SmallestSet
<1>3. V # {} /\ IsFiniteSet(V)
  <2>1. V # {}
    <3>1. SumOf(f, {}) = 0
      BY SumEmpty
    <3> QED BY <3>1
  <2> QED BY <2>1, FS_Subset
<1>4. Pick(V) \in V
  BY <1>3, PickIn
<1>5. SumOf(f, V \ {Pick(V)}) \in Nat
  BY <1>2, <1>4
<1>6. f[Pick(V)] \in Nat
  BY <1>4 DEF NatOn
<1>7. SumOf(f, V) = f[Pick(V)] + SumOf(f, V \ {Pick(V)})
  BY <1>3, SumPick
<1>8. SumOf(f, V) \in Nat
  BY <1>5, <1>6, <1>7
<1> QED BY <1>8

(* The sum over S is the value of y and the sum over R. *)
SplitsOff(f, S, y, R) == SumOf(f, S) = f[y] + SumOf(f, R)

(* Any element can be split off. *)
LEMMA SumRemove ==
    ASSUME NEW f, NEW S, IsFiniteSet(S), NatOn(f, S), NEW y, y \in S, NEW R, R = S \ {y}
    PROVE  SplitsOff(f, S, y, R)
<1> USE DEF SplitsOff
<1> DEFINE B == {V \in SUBSET S : \E x \in V : SumOf(f, V) # f[x] + SumOf(f, V \ {x})}
<1>1. SUFFICES ASSUME B # {} PROVE FALSE
  OBVIOUS
<1>2. PICK V \in B : \A W \in SUBSET V : W # V => W \notin B
  <2>1. B \in SUBSET SUBSET S
    OBVIOUS
  <2> HIDE DEF B
  <2> QED BY <1>1, <2>1, SmallestSet
<1>3. PICK x \in V : SumOf(f, V) # f[x] + SumOf(f, V \ {x})
  OBVIOUS
<1>4. V # {} /\ IsFiniteSet(V) /\ V \subseteq S
  BY FS_Subset
<1>5. PICK c : c = Pick(V)
  OBVIOUS
<1>6. c \in V /\ SumOf(f, V) = f[c] + SumOf(f, V \ {c})
  BY <1>4, <1>5, PickIn, SumPick
<1>7. c # x
  BY <1>3, <1>6
<1>8. SumOf(f, V \ {c}) = f[x] + SumOf(f, (V \ {c}) \ {x})
  <2>1. V \ {c} \in SUBSET V /\ V \ {c} # V /\ x \in V \ {c} /\ V \ {c} \in SUBSET S
    BY <1>4, <1>6, <1>7
  <2> QED BY <1>2, <2>1
<1>9. SumOf(f, V \ {x}) = f[c] + SumOf(f, (V \ {x}) \ {c})
  <2>1. V \ {x} \in SUBSET V /\ V \ {x} # V /\ c \in V \ {x} /\ V \ {x} \in SUBSET S
    BY <1>4, <1>6, <1>7
  <2> QED BY <1>2, <2>1
<1>10. (V \ {c}) \ {x} = (V \ {x}) \ {c}
  OBVIOUS
<1>11. PICK r : r = SumOf(f, (V \ {c}) \ {x})
  OBVIOUS
<1>12. r \in Nat
  <2>1. PICK W : W = (V \ {c}) \ {x}
    OBVIOUS
  <2>2. W \in SUBSET S
    BY <1>4, <2>1
  <2>3. IsFiniteSet(W) /\ NatOn(f, W)
    BY <2>2, FS_Subset, NatOnSubset
  <2> QED BY <1>11, <2>1, <2>3, SumNat
<1>13. f[x] \in Nat /\ f[c] \in Nat
  BY <1>4, <1>6 DEF NatOn
<1>14. /\ SumOf(f, V) = f[c] + SumOf(f, V \ {c})
       /\ SumOf(f, V \ {c}) = f[x] + r
       /\ SumOf(f, V \ {x}) = f[c] + r
  BY <1>6, <1>8, <1>9, <1>10, <1>11
<1>15. SumOf(f, V) = f[x] + SumOf(f, V \ {x})
  BY <1>12, <1>13, <1>14
<1> QED BY <1>3, <1>15

(* The sum over the first n numbers is that over the ones before the last, and the last. *)
LEMMA SumPrefix ==
    ASSUME NEW f, NEW k \in Nat, NEW n, n = k + 1, NatOn(f, 0 .. k)
    PROVE  SplitsOff(f, 0 .. n - 1, k, 0 .. k - 1)
<1>1. IsFiniteSet(0 .. k)
  BY FS_Interval
<1>2. k \in 0 .. k /\ 0 .. k - 1 = (0 .. k) \ {k} /\ 0 .. n - 1 = 0 .. k
  OBVIOUS
<1>3. PICK S, R : S = 0 .. k /\ R = 0 .. k - 1
  OBVIOUS
<1>4. SplitsOff(f, S, k, R)
  BY <1>1, <1>2, <1>3, SumRemove
<1> QED BY <1>2, <1>3, <1>4

(* A new element adds its value. *)
LEMMA SumAdd ==
    ASSUME NEW f, NEW S, IsFiniteSet(S), NEW y, y \notin S, NEW T, T = S \cup {y}, NatOn(f, T)
    PROVE  SplitsOff(f, T, y, S)
<1>1. IsFiniteSet(T) /\ y \in T /\ S = T \ {y}
  BY FS_AddElement
<1> QED BY <1>1, SumRemove

(* m takes G one to one into S, and e to f. *)
Embeds(m, e, G, f, S) ==
    /\ \A b \in G : m[b] \in S /\ f[m[b]] = e[b]
    /\ \A b, c \in G : b # c => m[b] # m[c]

(* The sum over S is the sum over its part R and the sum of e over G. *)
AddsUp(f, S, R, e, G) == SumOf(f, R) + SumOf(e, G) = SumOf(f, S)

(* Taking away the images of an injection takes away their values. *)
LEMMA SumWithout ==
    ASSUME NEW f, NEW S, IsFiniteSet(S), NatOn(f, S),
           NEW e, NEW G, IsFiniteSet(G), NEW m, Embeds(m, e, G, f, S),
           NEW R, R = S \ {m[b] : b \in G}
    PROVE  AddsUp(f, S, R, e, G)
<1> USE DEF Embeds, AddsUp
<1> DEFINE Rest(V) == S \ {m[b] : b \in V}
           Off(V) == SumOf(f, Rest(V)) + SumOf(e, V) # SumOf(f, S)
           B == {V \in SUBSET G : Off(V)}
<1>1. SUFFICES ASSUME B # {} PROVE FALSE
  <2>1. G \in B \/ ~Off(G)
    OBVIOUS
  <2>2. R = Rest(G)
    OBVIOUS
  <2>3. AddsUp(f, S, R, e, G) \/ Off(G)
    BY <2>2
  <2> QED BY <2>1, <2>3
<1>2. PICK V \in B : \A W \in SUBSET V : W # V => W \notin B
  <2>1. B \in SUBSET SUBSET G
    OBVIOUS
  <2> HIDE DEF B
  <2> QED BY <1>1, <2>1, SmallestSet
<1>3. V \in SUBSET G /\ IsFiniteSet(V) /\ Off(V)
  BY FS_Subset
<1>4. NatOn(e, G)
  BY DEF NatOn
<1>5. V # {}
  <2>1. SUFFICES ASSUME V = {} PROVE FALSE
    OBVIOUS
  <2>2. Rest(V) = S
    BY <2>1
  <2>3. SumOf(e, V) = 0
    BY <2>1, SumEmpty
  <2>4. SumOf(f, S) \in Nat
    BY SumNat
  <2>5. PICK t : t = SumOf(f, S)
    OBVIOUS
  <2>6. SumOf(f, Rest(V)) = t
    BY <2>2, <2>5
  <2> HIDE DEF Rest
  <2> QED BY <1>3, <2>3, <2>4, <2>5, <2>6
<1>6. PICK b : b \in V
  BY <1>5
<1>7. PICK W : W = V \ {b}
  OBVIOUS
<1>8. W \in SUBSET V /\ W # V /\ W \in SUBSET G /\ b \notin W /\ b \in G
  BY <1>3, <1>6, <1>7
<1>9. ~Off(W)
  BY <1>2, <1>8
<1>10. PICK T : T = Rest(W)
  OBVIOUS
<1>11. PICK y : y = m[b]
  OBVIOUS
<1>12. PICK Z : Z = Rest(V)
  OBVIOUS
<1>13. Z = T \ {y} /\ y \in T /\ T \in SUBSET S
  BY <1>3, <1>6, <1>7, <1>8, <1>10, <1>11, <1>12
<1> HIDE DEF Rest
<1>14. IsFiniteSet(T) /\ NatOn(f, T) /\ IsFiniteSet(Z) /\ NatOn(f, Z)
  BY <1>13, FS_Subset, NatOnSubset
<1>15. IsFiniteSet(W) /\ NatOn(e, W) /\ NatOn(e, V)
  BY <1>3, <1>4, <1>8, FS_Subset, NatOnSubset
<1>16. SplitsOff(f, T, y, Z)
  BY <1>13, <1>14, SumRemove
<1>17. SplitsOff(e, V, b, W)
  BY <1>3, <1>6, <1>7, <1>15, SumRemove
<1>18. SumOf(f, Z) \in Nat /\ SumOf(e, W) \in Nat
  BY <1>14, <1>15, SumNat, Zenon
<1>19. e[b] \in Nat /\ f[y] = e[b]
  BY <1>4, <1>8, <1>11 DEF NatOn
<1>20. SumOf(f, T) + SumOf(e, W) = SumOf(f, S)
  BY <1>9, <1>10
<1>21. SumOf(f, Z) + SumOf(e, V) # SumOf(f, S)
  BY <1>3, <1>12
<1> QED BY <1>16, <1>17, <1>18, <1>19, <1>20, <1>21 DEF SplitsOff

(* The sum over a subset and the sum over the rest. *)
LEMMA SumSplit ==
    ASSUME NEW f, NEW S, IsFiniteSet(S), NatOn(f, S), NEW G \in SUBSET S, NEW R, R = S \ G
    PROVE  AddsUp(f, S, R, f, G)
<1>1. PICK m : m = [b \in G |-> b]
  OBVIOUS
<1>2. Embeds(m, f, G, f, S)
  BY <1>1 DEF Embeds
<1>3. R = S \ {m[b] : b \in G}
  BY <1>1
<1>4. IsFiniteSet(G)
  BY FS_Subset
<1> QED BY <1>2, <1>3, <1>4, SumWithout
-------------------------------------------------------------------------------
(* Sums over a sequence. *)

(* w is v, of n + 1 values, without the one at m. *)
Without(w, v, m, n) == \A k \in 1 .. n : w[k] = IF k < m THEN v[k] ELSE v[k + 1]

(* Leaving one value out leaves it out of the sum. *)
LEMMA SumWithoutOne ==
    ASSUME NEW n \in Nat, NEW v, NatOn(v, 1 .. n + 1), NEW m \in 1 .. n + 1,
           NEW w, Without(w, v, m, n)
    PROVE  SumOf(v, 1 .. n + 1) = v[m] + SumOf(w, 1 .. n)
<1>1. PICK S, G : S = 1 .. n + 1 /\ G = 1 .. n
  OBVIOUS
<1>2. PICK e : e = [k \in G |-> IF k < m THEN k ELSE k + 1]
  OBVIOUS
<1>3. \A k \in G : e[k] \in S /\ v[e[k]] = w[k]
  BY <1>1, <1>2 DEF Without
<1>4. \A j, k \in G : j # k => e[j] # e[k]
  BY <1>1, <1>2
<1>5. Embeds(e, w, G, v, S)
  BY <1>3, <1>4, Zenon DEF Embeds
<1>6. {m} = S \ {e[k] : k \in G}
  <2>1. \A k \in G : e[k] # m
    BY <1>1, <1>2
  <2>2. ASSUME NEW j \in S, j # m PROVE \E k \in G : e[k] = j
    <3>1. CASE j < m
      <4>1. j \in G /\ e[j] = j
        BY <1>1, <1>2, <2>2, <3>1
      <4> QED BY <4>1
    <3>2. CASE j > m
      <4>1. j - 1 \in G /\ e[j - 1] = j
        BY <1>1, <1>2, <2>2, <3>2
      <4> QED BY <4>1
    <3> QED BY <1>1, <2>2, <3>1, <3>2
  <2> QED BY <1>1, <2>1, <2>2
<1>7. IsFiniteSet(S) /\ IsFiniteSet(G)
  <2>1. 1 \in Int /\ n \in Int /\ n + 1 \in Int
    OBVIOUS
  <2> QED BY <1>1, <2>1, FS_Interval, Zenon
<1>8. NatOn(v, S)
  BY <1>1
<1>9. PICK R : R = {m}
  OBVIOUS
<1>10. AddsUp(v, S, R, w, G)
  BY <1>5, <1>6, <1>7, <1>8, <1>9, SumWithout
<1>11. SumOf(v, R) = v[m]
  <2>1. IsFiniteSet({}) /\ m \notin {} /\ R = {} \cup {m}
    BY <1>9, FS_EmptySet
  <2>2. NatOn(v, R)
    BY <1>1, <1>8, <1>9 DEF NatOn
  <2>3. SplitsOff(v, R, m, {})
    BY <2>1, <2>2, SumAdd
  <2>4. v[m] \in Nat
    BY <1>1, <1>8 DEF NatOn
  <2>5. SumOf(v, {}) = 0
    BY SumEmpty
  <2> QED BY <2>3, <2>4, <2>5 DEF SplitsOff
<1>12. SumOf(v, R) + SumOf(w, G) = SumOf(v, S)
  BY <1>10 DEF AddsUp
<1> QED BY <1>1, <1>11, <1>12

(* Another value at m changes the sum by the difference. *)
LEMMA SumReplaceOne ==
    ASSUME NEW n \in Nat, NEW v, NatOn(v, 1 .. n), NEW w, NatOn(w, 1 .. n), NEW m \in 1 .. n,
           \A k \in 1 .. n : k # m => w[k] = v[k]
    PROVE  SumOf(w, 1 .. n) + v[m] = SumOf(v, 1 .. n) + w[m]
<1>1. PICK S : S = 1 .. n
  OBVIOUS
<1>2. IsFiniteSet(S)
  <2>1. 1 \in Int /\ n \in Int
    OBVIOUS
  <2> QED BY <1>1, <2>1, FS_Interval, Zenon
<1>3. PICK R : R = S \ {m}
  OBVIOUS
<1>4. SplitsOff(v, S, m, R) /\ SplitsOff(w, S, m, R)
  BY <1>1, <1>2, <1>3, SumRemove
<1>5. IsFiniteSet(R) /\ \A k \in R : v[k] = w[k]
  BY <1>1, <1>2, <1>3, FS_Subset
<1>6. SumOf(v, R) = SumOf(w, R)
  BY <1>5, SumAgree
<1>7. NatOn(v, R)
  BY <1>1, <1>3, NatOnSubset
<1>8. SumOf(v, R) \in Nat
  BY <1>5, <1>7, SumNat
<1>9. v[m] \in Nat /\ w[m] \in Nat
  BY DEF NatOn
<1>10. PICK r : r = SumOf(v, R)
  OBVIOUS
<1>11. SumOf(v, S) = v[m] + r /\ SumOf(w, S) = w[m] + r /\ r \in Nat
  BY <1>4, <1>6, <1>8, <1>10 DEF SplitsOff
<1> QED BY <1>1, <1>9, <1>11

(* The sum of a sequence of natural numbers is one. *)
LEMMA SumUpTo == ASSUME NEW n \in Nat, NEW v, NatOn(v, 1 .. n) PROVE SumOf(v, 1 .. n) \in Nat
<1>1. 1 \in Int /\ n \in Int
  OBVIOUS
<1>2. PICK S : S = 1 .. n
  OBVIOUS
<1>3. IsFiniteSet(S)
  BY <1>1, <1>2, FS_Interval, Zenon
<1> QED BY <1>2, <1>3, SumNat
===============================================================================

---------------------------- MODULE AmountProofs ----------------------------
(***************************************************************************)
(* What the proofs about the money share: sums over finite sets, and what   *)
(* rounding does to the amounts of Odds.                                    *)
(***************************************************************************)
EXTENDS Odds, FiniteSetsExt, FiniteSetTheorems, WellFoundedInduction, TLAPS

-----------------------------------------------------------------------------
(* Sums over finite sets. MapThenSumSet is recursive, over a choice of the  *)
(* element to go on with; what is proved here is that over a finite set the *)
(* choices do not matter.                                                   *)

Pick(s) == CHOOSE x \in s : TRUE

\* The recursion
Unfolds(f, S, iter) ==
    iter = [s \in SUBSET S |-> IF s = {} THEN 0 ELSE f[Pick(s)] + iter[s \ {Pick(s)}]]

Total(f, S) == MapThenSumSet(LAMBDA x : f[x], S)

\* A pick from a set is in it.
LEMMA PickIn == \A s : s # {} => Pick(s) \in s
  BY DEF Pick

\* Sets of subsets of a finite set have a smallest member: none of the others
\* is inside it. The proofs below take a smallest counterexample instead of
\* going by induction.
LEMMA SmallestSubset ==
  ASSUME NEW S, IsFiniteSet(S), NEW T, T \subseteq SUBSET S, T # {}
  PROVE  \E t \in T : \A u \in T : ~ (u \subseteq t /\ u # t)
<1>1. IsWellFoundedOn(StrictSubsetOrdering(S), SUBSET S)
  BY FS_StrictSubsetOrderingWellFounded, FS_FiniteSubsetsOfFinite
<1>2. PICK t \in T : \A u \in T : ~ (<<u, t>> \in StrictSubsetOrdering(S))
  BY <1>1, WFMin
<1>3. \A u \in T : ~ (u \subseteq t /\ u # t)
  BY <1>2 DEF StrictSubsetOrdering
<1>. QED BY <1>3

\* One step of the recursion.
LEMMA UnfoldsAt ==
  ASSUME NEW f, NEW S, NEW iter, Unfolds(f, S, iter), NEW s \in SUBSET S, s # {}
  PROVE  Pick(s) \in s /\ iter[s] = f[Pick(s)] + iter[s \ {Pick(s)}]
  BY PickIn DEF Unfolds

\* The recursion determines its value.
LEMMA UnfoldsOnce ==
  ASSUME NEW f, NEW S, NEW R, IsFiniteSet(R), R \subseteq S,
         NEW i, Unfolds(f, S, i), NEW j, Unfolds(f, R, j)
  PROVE  i[R] = j[R]
<1>. DEFINE T == {t \in SUBSET R : i[t] # j[t]}
<1>1. SUFFICES ASSUME T # {} PROVE FALSE
  OBVIOUS
<1>2. T \subseteq SUBSET R
  OBVIOUS
<1>. HIDE DEF T
<1>3. PICK t \in T : \A u \in T : ~ (u \subseteq t /\ u # t)
  BY <1>1, <1>2, SmallestSubset
<1>4. t \in SUBSET S /\ t \in SUBSET R /\ i[t] # j[t]
  BY DEF T
<1>5. t # {}
  BY <1>4 DEF Unfolds
<1>6. /\ Pick(t) \in t
      /\ i[t] = f[Pick(t)] + i[t \ {Pick(t)}] /\ j[t] = f[Pick(t)] + j[t \ {Pick(t)}]
  BY <1>4, <1>5, UnfoldsAt
<1>7. t \ {Pick(t)} \notin T
  BY <1>3, <1>6
<1>8. i[t \ {Pick(t)}] = j[t \ {Pick(t)}]
  BY <1>4, <1>7 DEF T
<1>. QED BY <1>4, <1>6, <1>8

\* Restricted to the subsets of a subset it is the same recursion.
LEMMA UnfoldsBelow ==
  ASSUME NEW f, NEW S, NEW R, R \subseteq S, NEW i, Unfolds(f, S, i)
  PROVE  Unfolds(f, R, [t \in SUBSET R |-> i[t]])
<1>1. ASSUME NEW t \in SUBSET R, t # {}
      PROVE  i[t] = f[Pick(t)] + [u \in SUBSET R |-> i[u]][t \ {Pick(t)}]
  BY <1>1, UnfoldsAt
<1>2. i[{}] = 0
  BY DEF Unfolds
<1>. QED BY <1>1, <1>2 DEF Unfolds

\* There is a function with this recursion.
LEMMA UnfoldsExists ==
  ASSUME NEW f, NEW S, IsFiniteSet(S)
  PROVE  \E iter : Unfolds(f, S, iter)
<1>. DEFINE T == {t \in SUBSET S : ~ \E iter : Unfolds(f, t, iter)}
<1>1. SUFFICES ASSUME T # {} PROVE FALSE
  OBVIOUS
<1>2. T \subseteq SUBSET S
  OBVIOUS
<1>. HIDE DEF T
<1>3. PICK t \in T : \A u \in T : ~ (u \subseteq t /\ u # t)
  BY <1>1, <1>2, SmallestSubset
<1>. DEFINE It(u) == CHOOSE iter : Unfolds(f, u, iter)
            Val(u) == It(u)[u]
            iter == [u \in SUBSET t |-> IF u = {} THEN 0 ELSE f[Pick(u)] + Val(u \ {Pick(u)})]
<1>4. ASSUME NEW u, u \subseteq t, u # t PROVE Unfolds(f, u, It(u)) /\ IsFiniteSet(u)
  <2>1. IsFiniteSet(u) /\ u \notin T
    BY <1>2, <1>3, <1>4, FS_Subset
  <2>2. \E i : Unfolds(f, u, i)
    BY <2>1, <1>2, <1>3, <1>4 DEF T
  <2>. QED BY <2>1, <2>2
<1>. HIDE DEF It
<1>5. ASSUME NEW u \in SUBSET t, u # t PROVE iter[u] = Val(u)
  <2>1. CASE u = {}
    BY <2>1, <1>4, <1>5 DEF Unfolds
  <2>2. CASE u # {}
    <3>. DEFINE v == u \ {Pick(u)}
    <3>1. Pick(u) \in u /\ It(u)[u] = f[Pick(u)] + It(u)[v]
      BY <1>4, <1>5, <2>2, UnfoldsAt
    <3>2. v \subseteq u /\ v # t /\ v \subseteq t
      BY <3>1, <1>5
    <3>3. It(u)[v] = Val(v)
      BY <3>2, <1>4, <1>5, UnfoldsOnce
    <3>. QED BY <3>1, <3>3, <2>2
  <2>. QED BY <2>1, <2>2
<1>6. ASSUME NEW u \in SUBSET t, u # {} PROVE iter[u] = f[Pick(u)] + iter[u \ {Pick(u)}]
  <2>1. u \ {Pick(u)} \in SUBSET t /\ u \ {Pick(u)} # t
    BY <1>6, PickIn
  <2>2. iter[u \ {Pick(u)}] = Val(u \ {Pick(u)})
    BY <2>1, <1>5
  <2>. HIDE DEF Val
  <2>. QED BY <2>2, <1>6
<1>7. Unfolds(f, t, iter)
  <2>1. iter[{}] = 0 /\ iter = [u \in SUBSET t |-> iter[u]]
    OBVIOUS
  <2>. HIDE DEF iter
  <2>2. iter = [u \in SUBSET t |-> IF u = {} THEN 0 ELSE f[Pick(u)] + iter[u \ {Pick(u)}]]
    BY <1>6, <2>1
  <2>. QED BY <2>2 DEF Unfolds
<1>8. t \notin T
  BY <1>7 DEF T
<1>. QED BY <1>3, <1>8

\* A sum is the value of the recursion, as the module Folds writes it.
LEMMA TotalIs ==
  ASSUME NEW f, NEW S
  PROVE  Total(f, S) = (CHOOSE iter : Unfolds(f, S, iter))[S]
  BY DEF Total, MapThenSumSet, MapThenFoldSet, Unfolds, Pick

\* Over a finite set that is the value of a function that does unfold.
LEMMA TotalUnfolds ==
  ASSUME NEW f, NEW S, IsFiniteSet(S)
  PROVE  \E iter : Unfolds(f, S, iter) /\ Total(f, S) = iter[S]
<1>1. Unfolds(f, S, CHOOSE iter : Unfolds(f, S, iter))
  BY UnfoldsExists
<1>. QED BY <1>1, TotalIs

\* The same function has the sums over the subsets.
LEMMA TotalBelow ==
  ASSUME NEW f, NEW S, IsFiniteSet(S), NEW i, Unfolds(f, S, i), NEW R \in SUBSET S
  PROVE  Total(f, R) = i[R]
<1>1. IsFiniteSet(R)
  BY FS_Subset
<1>2. PICK j : Unfolds(f, R, j) /\ Total(f, R) = j[R]
  BY <1>1, TotalUnfolds
<1>. QED BY <1>1, <1>2, UnfoldsOnce

\* A sum is its picked item and the sum of the others.
LEMMA TotalPick ==
  ASSUME NEW f, NEW S, IsFiniteSet(S), S # {}
  PROVE  Pick(S) \in S /\ Total(f, S) = f[Pick(S)] + Total(f, S \ {Pick(S)})
<1>1. PICK i : Unfolds(f, S, i) /\ Total(f, S) = i[S]
  BY TotalUnfolds
<1>2. Pick(S) \in S /\ i[S] = f[Pick(S)] + i[S \ {Pick(S)}]
  BY <1>1, UnfoldsAt
<1>3. Total(f, S \ {Pick(S)}) = i[S \ {Pick(S)}]
  BY <1>1, TotalBelow
<1>. QED BY <1>1, <1>2, <1>3

\* The empty sum.
LEMMA TotalEmpty ==
  ASSUME NEW f
  PROVE  Total(f, {}) = 0
<1>1. PICK i : Unfolds(f, {}, i) /\ Total(f, {}) = i[{}]
  BY TotalUnfolds, FS_EmptySet
<1>. QED BY <1>1 DEF Unfolds

\* A sum of whole numbers is one.
LEMMA TotalInt ==
  ASSUME NEW S, IsFiniteSet(S), NEW f, \A x \in S : f[x] \in Int
  PROVE  Total(f, S) \in Int
<1>. DEFINE T == {t \in SUBSET S : Total(f, t) \notin Int}
<1>1. SUFFICES ASSUME T # {} PROVE FALSE
  OBVIOUS
<1>2. T \subseteq SUBSET S
  OBVIOUS
<1>. HIDE DEF T
<1>3. PICK t \in T : \A u \in T : ~ (u \subseteq t /\ u # t)
  BY <1>1, <1>2, SmallestSubset
<1>4. t \subseteq S /\ IsFiniteSet(t) /\ Total(f, t) \notin Int
  BY <1>2, FS_Subset DEF T
<1>5. t # {}
  BY <1>4, TotalEmpty
<1>6. Pick(t) \in t /\ Total(f, t) = f[Pick(t)] + Total(f, t \ {Pick(t)})
  BY <1>4, <1>5, TotalPick
<1>7. Total(f, t \ {Pick(t)}) \in Int
  BY <1>3, <1>4, <1>6 DEF T
<1>. QED BY <1>4, <1>6, <1>7

\* A sum is any of its items and the sum of the others.
LEMMA TotalTake ==
  ASSUME NEW S, IsFiniteSet(S), NEW f, \A x \in S : f[x] \in Int, NEW y \in S
  PROVE  Total(f, S) = f[y] + Total(f, S \ {y})
<1>. DEFINE T == {t \in SUBSET S : \E z \in t : Total(f, t) # f[z] + Total(f, t \ {z})}
<1>1. SUFFICES ASSUME T # {} PROVE FALSE
  OBVIOUS
<1>2. T \subseteq SUBSET S
  OBVIOUS
<1>. HIDE DEF T
<1>3. PICK t \in T : \A u \in T : ~ (u \subseteq t /\ u # t)
  BY <1>1, <1>2, SmallestSubset
<1>4. PICK z \in t : Total(f, t) # f[z] + Total(f, t \ {z})
  BY DEF T
<1>5. t \subseteq S /\ IsFiniteSet(t)
  BY <1>2, FS_Subset
<1>. DEFINE c == Pick(t)
<1>6. c \in t /\ Total(f, t) = f[c] + Total(f, t \ {c})
  BY <1>5, TotalPick
<1>. HIDE DEF c
<1>7. z # c
  BY <1>4, <1>6
<1>8. /\ t \ {c} \subseteq S /\ t \ {c} \notin T
      /\ t \ {z} \subseteq S /\ t \ {z} \notin T
  BY <1>3, <1>5, <1>6
<1>. DEFINE r == t \ {c, z}
<1>9. (t \ {c}) \ {z} = r /\ (t \ {z}) \ {c} = r
  OBVIOUS
<1>10. Total(f, t \ {c}) = f[z] + Total(f, r) /\ Total(f, t \ {z}) = f[c] + Total(f, r)
  BY <1>6, <1>7, <1>8, <1>9 DEF T
<1>11. Total(f, r) \in Int /\ f[c] \in Int /\ f[z] \in Int
  BY <1>5, <1>6, FS_Subset, TotalInt
<1>. QED BY <1>4, <1>6, <1>10, <1>11

\* A sum of natural numbers is one, and no smaller than any of them.
LEMMA TotalNat ==
  ASSUME NEW S, IsFiniteSet(S), NEW f, \A x \in S : f[x] \in Nat
  PROVE  Total(f, S) \in Nat
<1>. DEFINE T == {t \in SUBSET S : Total(f, t) \notin Nat}
<1>1. SUFFICES ASSUME T # {} PROVE FALSE
  OBVIOUS
<1>2. T \subseteq SUBSET S
  OBVIOUS
<1>. HIDE DEF T
<1>3. PICK t \in T : \A u \in T : ~ (u \subseteq t /\ u # t)
  BY <1>1, <1>2, SmallestSubset
<1>4. t \subseteq S /\ IsFiniteSet(t) /\ Total(f, t) \notin Nat
  BY <1>2, FS_Subset DEF T
<1>5. t # {}
  BY <1>4, TotalEmpty
<1>6. Pick(t) \in t /\ Total(f, t) = f[Pick(t)] + Total(f, t \ {Pick(t)})
  BY <1>4, <1>5, TotalPick
<1>7. Total(f, t \ {Pick(t)}) \in Nat
  BY <1>3, <1>4, <1>6 DEF T
<1>. QED BY <1>4, <1>6, <1>7

\* No item of a sum of natural numbers is larger than the sum.
LEMMA TotalBounds ==
  ASSUME NEW S, IsFiniteSet(S), NEW f, \A x \in S : f[x] \in Nat, NEW y \in S
  PROVE  f[y] <= Total(f, S)
<1>1. Total(f, S) = f[y] + Total(f, S \ {y})
  BY TotalTake
<1>2. Total(f, S \ {y}) \in Nat
  BY FS_Subset, TotalNat
<1>. QED BY <1>1, <1>2

\* One item more.
LEMMA TotalAdd ==
  ASSUME NEW S, IsFiniteSet(S), NEW y, y \notin S, NEW f, \A x \in S \cup {y} : f[x] \in Int
  PROVE  Total(f, S \cup {y}) = Total(f, S) + f[y]
<1>1. IsFiniteSet(S \cup {y}) /\ (S \cup {y}) \ {y} = S
  BY FS_AddElement
<1>2. Total(f, S) \in Int
  BY TotalInt
<1>. QED BY <1>1, <1>2, TotalTake

\* The sum over one element.
LEMMA TotalOne ==
  ASSUME NEW f, NEW y, f[y] \in Int
  PROVE  Total(f, {y}) = f[y]
<1>1. IsFiniteSet({y}) /\ {y} \ {y} = {}
  BY FS_Singleton
<1>2. Total(f, {y}) = f[y] + Total(f, {y} \ {y})
  BY <1>1, TotalTake
<1>. QED BY <1>1, <1>2, TotalEmpty

\* Equal items make equal sums.
LEMMA TotalSame ==
  ASSUME NEW S, IsFiniteSet(S), NEW f, NEW g, \A x \in S : f[x] = g[x]
  PROVE  Total(f, S) = Total(g, S)
<1>. DEFINE T == {t \in SUBSET S : Total(f, t) # Total(g, t)}
<1>1. SUFFICES ASSUME T # {} PROVE FALSE
  OBVIOUS
<1>2. T \subseteq SUBSET S
  OBVIOUS
<1>. HIDE DEF T
<1>3. PICK t \in T : \A u \in T : ~ (u \subseteq t /\ u # t)
  BY <1>1, <1>2, SmallestSubset
<1>4. t \subseteq S /\ IsFiniteSet(t) /\ Total(f, t) # Total(g, t)
  BY <1>2, FS_Subset DEF T
<1>5. t # {}
  BY <1>4, TotalEmpty
<1>6. /\ Pick(t) \in t
      /\ Total(f, t) = f[Pick(t)] + Total(f, t \ {Pick(t)})
      /\ Total(g, t) = g[Pick(t)] + Total(g, t \ {Pick(t)})
  BY <1>4, <1>5, TotalPick
<1>7. Total(f, t \ {Pick(t)}) = Total(g, t \ {Pick(t)})
  BY <1>3, <1>4, <1>6 DEF T
<1>. QED BY <1>4, <1>6, <1>7

\* The sum over two sets with nothing in common.
LEMMA TotalUnion ==
  ASSUME NEW A, IsFiniteSet(A), NEW B, IsFiniteSet(B), A \cap B = {},
         NEW f, \A x \in A \cup B : f[x] \in Int
  PROVE  Total(f, A \cup B) = Total(f, A) + Total(f, B)
<1>. DEFINE T == {t \in SUBSET B : Total(f, A \cup t) # Total(f, A) + Total(f, t)}
<1>1. SUFFICES ASSUME T # {} PROVE FALSE
  OBVIOUS
<1>2. T \subseteq SUBSET B
  OBVIOUS
<1>. HIDE DEF T
<1>3. PICK t \in T : \A u \in T : ~ (u \subseteq t /\ u # t)
  BY <1>1, <1>2, SmallestSubset
<1>4. t \subseteq B /\ IsFiniteSet(t) /\ Total(f, A \cup t) # Total(f, A) + Total(f, t)
  BY <1>2, FS_Subset DEF T
<1>5. Total(f, A) \in Int
  BY TotalInt
<1>6. t # {}
  BY <1>4, <1>5, TotalEmpty
<1>7. PICK y \in t : TRUE
  BY <1>6
<1>8. /\ t \ {y} \subseteq B /\ IsFiniteSet(t \ {y})
      /\ IsFiniteSet(A \cup (t \ {y}))
      /\ Total(f, A \cup (t \ {y})) = Total(f, A) + Total(f, t \ {y})
  <2>1. t \ {y} \subseteq B /\ t \ {y} \notin T
    BY <1>3, <1>4, <1>7
  <2>2. IsFiniteSet(t \ {y})
    BY <1>4, FS_Subset
  <2>3. IsFiniteSet(A \cup (t \ {y}))
    BY <2>2, FS_Union
  <2>. QED BY <2>1, <2>2, <2>3 DEF T
<1>9. Total(f, t) = Total(f, t \ {y}) + f[y]
  <2>1. (t \ {y}) \cup {y} = t
    BY <1>7
  <2>. QED BY <2>1, <1>4, <1>8, TotalAdd
<1>10. Total(f, A \cup t) = Total(f, A \cup (t \ {y})) + f[y]
  <2>1. (A \cup (t \ {y})) \cup {y} = A \cup t /\ y \notin A \cup (t \ {y})
    BY <1>4, <1>7
  <2>2. \A x \in (A \cup (t \ {y})) \cup {y} : f[x] \in Int
    BY <2>1, <1>4
  <2>. QED BY <2>1, <2>2, <1>8, TotalAdd
<1>11. f[y] \in Int /\ Total(f, t \ {y}) \in Int
  BY <1>4, <1>7, <1>8, TotalInt
<1>. QED BY <1>4, <1>5, <1>8, <1>9, <1>10, <1>11

\* Sums by owner, each on top of the same base, make the sum over everything.
LEMMA TotalGrouped ==
  ASSUME NEW U, IsFiniteSet(U), NEW S, IsFiniteSet(S), NEW f, \A x \in S : f[x] \in Int,
         NEW owner, \A x \in S : owner[x] \in U,
         NEW part, \A u \in U : part[u] \subseteq S,
         \A u \in U : \A x \in S : x \in part[u] <=> owner[x] = u,
         NEW base \in Int, NEW g, \A u \in U : g[u] = base + Total(f, part[u])
  PROVE  Total(g, U) = base * Cardinality(U) + Total(f, S)
<1>. DEFINE Of(V) == {x \in S : owner[x] \in V}
            T == {V \in SUBSET U : Total(g, V) # base * Cardinality(V) + Total(f, Of(V))}
<1>1. SUFFICES ASSUME T # {} PROVE FALSE
  <2>1. Of(U) = S
    OBVIOUS
  <2>2. U \notin T => Total(g, U) = base * Cardinality(U) + Total(f, Of(U))
    OBVIOUS
  <2>. HIDE DEF T, Of
  <2>. QED BY <2>1, <2>2
<1>2. T \subseteq SUBSET U
  OBVIOUS
<1>. HIDE DEF T
<1>3. PICK V \in T : \A W \in T : ~ (W \subseteq V /\ W # V)
  BY <1>1, <1>2, SmallestSubset
<1>4. /\ V \subseteq U /\ IsFiniteSet(V)
      /\ Total(g, V) # base * Cardinality(V) + Total(f, Of(V))
  BY <1>2, FS_Subset DEF T
<1>5. V # {}
  <2>1. Of({}) = {} /\ Cardinality({}) = 0
    BY FS_EmptySet
  <2>2. Total(f, {}) = 0 /\ Total(g, {}) = 0
    BY TotalEmpty
  <2>3. Total(f, Of({})) = 0
    BY <2>1, <2>2
  <2>4. base * Cardinality({}) = 0
    BY <2>1
  <2>. HIDE DEF Of
  <2>5. Total(g, {}) = base * Cardinality({}) + Total(f, Of({}))
    BY <2>2, <2>3, <2>4
  <2>. QED BY <1>4, <2>5
<1>6. PICK u \in V : TRUE
  BY <1>5
<1>. DEFINE W == V \ {u}
            mine == part[u]
<1>7. /\ W \subseteq U /\ IsFiniteSet(W) /\ Cardinality(W) \in Nat
      /\ Cardinality(V) = Cardinality(W) + 1
  BY <1>4, <1>6, FS_Subset, FS_RemoveElement, FS_CardinalityType
<1>8. Total(g, W) = base * Cardinality(W) + Total(f, Of(W))
  BY <1>3, <1>6, <1>7 DEF T
<1>9. /\ Of(V) = Of(W) \cup mine /\ Of(W) \cap mine = {}
      /\ Of(W) \subseteq S /\ mine \subseteq S
  <2>1. u \in U /\ mine \subseteq S /\ \A x \in S : x \in mine <=> owner[x] = u
    BY <1>4, <1>6
  <2>. HIDE DEF mine
  <2>. QED BY <1>6, <2>1
<1>10. /\ IsFiniteSet(Of(W)) /\ IsFiniteSet(mine)
       /\ Total(f, Of(W)) \in Int /\ Total(f, mine) \in Int
  BY <1>9, FS_Subset, TotalInt
<1>11. Total(f, Of(V)) = Total(f, Of(W)) + Total(f, mine)
  <2>. HIDE DEF Of, mine
  <2>1. \A x \in Of(W) \cup mine : f[x] \in Int
    BY <1>9
  <2>3. PICK A, B : A = Of(W) /\ B = mine
    OBVIOUS
  <2>4. /\ IsFiniteSet(A) /\ IsFiniteSet(B) /\ A \cap B = {}
        /\ \A x \in A \cup B : f[x] \in Int
    BY <1>9, <1>10, <2>1, <2>3
  <2>5. Total(f, A \cup B) = Total(f, A) + Total(f, B)
    BY <2>4, TotalUnion
  <2>2. Total(f, Of(W) \cup mine) = Total(f, Of(W)) + Total(f, mine)
    BY <2>3, <2>5
  <2>. QED BY <1>9, <2>2
<1>12. \A v \in U : g[v] \in Int
  <2>. SUFFICES ASSUME NEW v \in U PROVE g[v] \in Int
    OBVIOUS
  <2>1. Total(f, part[v]) \in Int
    BY FS_Subset, TotalInt
  <2>. QED BY <2>1
<1>13. Total(g, V) = g[u] + Total(g, W) /\ g[u] = base + Total(f, mine)
  BY <1>4, <1>6, <1>12, TotalTake
<1>14. base * (Cardinality(W) + 1) = base * Cardinality(W) + base
  BY <1>7
<1>. HIDE DEF Of, mine, W
<1>15. base * Cardinality(W) \in Int
  BY <1>7
<1>. QED BY <1>4, <1>7, <1>8, <1>10, <1>11, <1>13, <1>14, <1>15

\* Items that come in pairs of opposite values come to nothing.
LEMMA TotalPaired ==
  ASSUME NEW S, IsFiniteSet(S), NEW f, \A x \in S : f[x] \in Int,
         NEW twin,
         \A x \in S : twin[x] \in S /\ twin[x] # x /\ twin[twin[x]] = x /\ f[twin[x]] = - f[x]
  PROVE  Total(f, S) = 0
<1>. DEFINE T == {t \in SUBSET S : (\A x \in t : twin[x] \in t) /\ Total(f, t) # 0}
<1>1. SUFFICES ASSUME T # {} PROVE FALSE
  BY DEF T
<1>2. T \subseteq SUBSET S
  OBVIOUS
<1>. HIDE DEF T
<1>3. PICK t \in T : \A u \in T : ~ (u \subseteq t /\ u # t)
  BY <1>1, <1>2, SmallestSubset
<1>4. t \subseteq S /\ IsFiniteSet(t) /\ (\A x \in t : twin[x] \in t) /\ Total(f, t) # 0
  BY <1>2, FS_Subset DEF T
<1>5. t # {}
  BY <1>4, TotalEmpty
<1>6. PICK x \in t : TRUE
  BY <1>5
<1>7. PICK y : y = twin[x]
  OBVIOUS
<1>8. y \in t /\ y # x /\ twin[y] = x /\ f[y] = - f[x] /\ f[x] \in Int
  BY <1>4, <1>6, <1>7
<1>. DEFINE u == (t \ {x}) \ {y}
<1>9. \A z \in u : twin[z] \in u
  BY <1>4, <1>6, <1>7, <1>8
<1>10. Total(f, u) = 0
  BY <1>3, <1>4, <1>6, <1>9 DEF T
<1>11. IsFiniteSet(t \ {x}) /\ y \in t \ {x}
  BY <1>4, <1>6, <1>8, FS_Subset
<1>12. Total(f, t) = f[x] + Total(f, t \ {x})
  BY <1>4, <1>6, TotalTake
<1>13. \A z \in t \ {x} : f[z] \in Int
  BY <1>4
<1>14. Total(f, t \ {x}) = f[y] + Total(f, u)
  BY <1>11, <1>13, TotalTake
<1>. HIDE DEF u
<1>. QED BY <1>4, <1>8, <1>10, <1>12, <1>14

\* Sums of sums, item by item.
LEMMA TotalPlus ==
  ASSUME NEW S, IsFiniteSet(S), NEW f, NEW g, \A x \in S : f[x] \in Int /\ g[x] \in Int,
         NEW h, \A x \in S : h[x] = f[x] + g[x]
  PROVE  Total(h, S) = Total(f, S) + Total(g, S)
<1>. DEFINE T == {t \in SUBSET S : Total(h, t) # Total(f, t) + Total(g, t)}
<1>1. SUFFICES ASSUME T # {} PROVE FALSE
  OBVIOUS
<1>2. T \subseteq SUBSET S
  OBVIOUS
<1>. HIDE DEF T
<1>3. PICK t \in T : \A u \in T : ~ (u \subseteq t /\ u # t)
  BY <1>1, <1>2, SmallestSubset
<1>4. t \subseteq S /\ IsFiniteSet(t) /\ Total(h, t) # Total(f, t) + Total(g, t)
  BY <1>2, FS_Subset DEF T
<1>5. t # {}
  <2>1. 0 = 0 + 0
    OBVIOUS
  <2>2. Total(f, {}) = 0 /\ Total(g, {}) = 0 /\ Total(h, {}) = 0
    BY TotalEmpty
  <2>. QED BY <1>4, <2>1, <2>2
<1>. DEFINE c == Pick(t)
            rest == t \ {c}
<1>6. /\ c \in t
      /\ Total(f, t) = f[c] + Total(f, rest)
      /\ Total(g, t) = g[c] + Total(g, rest)
      /\ Total(h, t) = h[c] + Total(h, rest)
  BY <1>4, <1>5, TotalPick
<1>7. rest \subseteq S /\ IsFiniteSet(rest) /\ rest \notin T
  BY <1>3, <1>4, <1>6, FS_Subset
<1>8. Total(h, rest) = Total(f, rest) + Total(g, rest)
  BY <1>7 DEF T
<1>9. Total(f, rest) \in Int /\ Total(g, rest) \in Int
  BY <1>7, TotalInt
<1>10. f[c] \in Int /\ g[c] \in Int /\ h[c] = f[c] + g[c]
  BY <1>4, <1>6
<1>. HIDE DEF c, rest
<1>. QED BY <1>4, <1>6, <1>8, <1>9, <1>10

\* A sum of zeros.
LEMMA TotalZero ==
  ASSUME NEW S, IsFiniteSet(S), NEW f, \A x \in S : f[x] = 0
  PROVE  Total(f, S) = 0
<1>1. Total(f, S) = Total(f, S) + Total(f, S)
  BY TotalPlus
<1>2. Total(f, S) \in Int
  BY TotalInt
<1>. QED BY <1>1, <1>2, SMTT(30)

\* Items that are nothing outside a part of the set.
LEMMA TotalOn ==
  ASSUME NEW S, IsFiniteSet(S), NEW A, A \subseteq S, NEW f, NEW g,
         \A x \in S : f[x] = IF x \in A THEN g[x] ELSE 0, \A x \in A : g[x] \in Int
  PROVE  Total(f, S) = Total(g, A)
<1>1. IsFiniteSet(A) /\ IsFiniteSet(S \ A)
  BY FS_Subset
<1>2. Total(f, A) = Total(g, A) /\ Total(f, S \ A) = 0 /\ Total(g, A) \in Int
  BY <1>1, TotalSame, TotalZero, TotalInt
<1>3. A \cup (S \ A) = S /\ A \cap (S \ A) = {} /\ \A x \in S : f[x] \in Int
  OBVIOUS
<1>4. Total(f, A \cup (S \ A)) = Total(f, A) + Total(f, S \ A)
  BY <1>1, <1>3, TotalUnion
<1>5. Total(f, S) = Total(g, A) + 0
  BY <1>2, <1>3, <1>4
<1>. QED BY <1>2, <1>5

\* As many as there are, each worth one.
LEMMA TotalOnes ==
  ASSUME NEW S, IsFiniteSet(S), NEW f, \A x \in S : f[x] = 1
  PROVE  Total(f, S) = Cardinality(S)
<1>. DEFINE none == [x \in S |-> {}]
<1>1. \A x \in S : f[x] = 1 + Total(f, none[x])
  BY TotalEmpty
<1>2. IsFiniteSet({}) /\ \A x \in S : none[x] \subseteq {}
  BY FS_EmptySet
<1>3. \A x \in S : \A y \in {} : y \in none[x] <=> f[y] = x
  OBVIOUS
<1>. HIDE DEF none
<1>4. Total(f, S) = 1 * Cardinality(S) + Total(f, {})
  BY <1>1, <1>2, <1>3, TotalGrouped
<1>5. Cardinality(S) \in Nat
  BY FS_CardinalityType
<1>. QED BY <1>4, <1>5, TotalEmpty

\* The items of T are those of S under other names, each under its own.
Renamed(name, S, f, T, g) ==
    /\ \A x, y \in S : name[x] = name[y] => x = y
    /\ T = {name[x] : x \in S}
    /\ \A x \in S : f[x] \in Int /\ g[name[x]] = f[x]

\* They come to the same sum.
LEMMA TotalRenamed ==
  ASSUME NEW S, IsFiniteSet(S), NEW name, NEW f, NEW T, NEW g, Renamed(name, S, f, T, g)
  PROVE  IsFiniteSet(T) /\ Total(g, T) = Total(f, S) /\ \A y \in T : g[y] \in Int
<1>1. IsFiniteSet(T)
  <2>. DEFINE i == [x \in S |-> name[x]]
  <2>1. i \in Bijection(S, T)
    BY DEF Renamed, Bijection, Injection, Surjection, IsInjective
  <2>2. ExistsBijection(S, T)
    BY <2>1 DEF ExistsBijection
  <2>. QED BY <2>2, FS_Bijection
<1>. DEFINE owner == [y \in T |-> CHOOSE x \in S : name[x] = y]
            part == [x \in S |-> {name[x]}]
<1>2. \A y \in T : owner[y] \in S /\ name[owner[y]] = y
  BY DEF Renamed
<1>3. \A x \in S : part[x] = {name[x]} /\ name[x] \in T
  BY DEF Renamed
<1>4. \A y \in T : g[y] \in Int
  BY DEF Renamed
<1>. HIDE DEF owner, part
<1>5. \A x \in S : part[x] \subseteq T /\ \A y \in T : y \in part[x] <=> owner[y] = x
  BY <1>2, <1>3 DEF Renamed
<1>. PICK base \in Int : base = 0
  OBVIOUS
<1>6. \A x \in S : f[x] = base + Total(g, part[x])
  <2>. SUFFICES ASSUME NEW x \in S PROVE f[x] = base + Total(g, {name[x]})
    BY <1>3
  <2>1. g[name[x]] \in Int /\ g[name[x]] = f[x]
    BY DEF Renamed
  <2>2. Total(g, {name[x]}) = g[name[x]]
    BY <2>1, TotalOne
  <2>. QED BY <2>1, <2>2
<1>7. Total(f, S) = base * Cardinality(S) + Total(g, T)
  <2>1. /\ \A y \in T : owner[y] \in S
        /\ \A x \in S : part[x] \subseteq T
        /\ \A x \in S : \A y \in T : y \in part[x] <=> owner[y] = x
    BY <1>2, <1>5
  <2>. QED BY <1>1, <1>4, <1>6, <2>1, TotalGrouped
<1>8. Cardinality(S) \in Nat /\ Total(g, T) \in Int
  BY <1>1, <1>4, FS_CardinalityType, TotalInt
<1>. QED BY <1>1, <1>4, <1>7, <1>8

\* What holds between the multiples of the items holds between those of the sums.
LEMMA TotalBound ==
  ASSUME NEW S, IsFiniteSet(S), NEW f, NEW g, NEW j \in Int, NEW k \in Int,
         \A x \in S : f[x] \in Int /\ g[x] \in Int /\ f[x] * j <= g[x] * k
  PROVE  Total(f, S) * j <= Total(g, S) * k
<1>. DEFINE T == {t \in SUBSET S : ~ (Total(f, t) * j <= Total(g, t) * k)}
<1>1. SUFFICES ASSUME T # {} PROVE FALSE
  OBVIOUS
<1>2. T \subseteq SUBSET S
  OBVIOUS
<1>. HIDE DEF T
<1>3. PICK t \in T : \A u \in T : ~ (u \subseteq t /\ u # t)
  BY <1>1, <1>2, SmallestSubset
<1>4. t \subseteq S /\ IsFiniteSet(t) /\ ~ (Total(f, t) * j <= Total(g, t) * k)
  BY <1>2, FS_Subset DEF T
<1>5. t # {}
  <2>1. 0 * j <= 0 * k
    BY SMT
  <2>. QED BY <1>4, <2>1, TotalEmpty
<1>. DEFINE c == Pick(t)
            rest == t \ {c}
<1>6. /\ c \in t
      /\ Total(f, t) = f[c] + Total(f, rest)
      /\ Total(g, t) = g[c] + Total(g, rest)
  BY <1>4, <1>5, TotalPick
<1>7. rest \subseteq S /\ IsFiniteSet(rest) /\ rest \notin T
  BY <1>3, <1>4, <1>6, FS_Subset
<1>8. Total(f, rest) * j <= Total(g, rest) * k
  BY <1>7 DEF T
<1>9. Total(f, rest) \in Int /\ Total(g, rest) \in Int
  BY <1>7, TotalInt
<1>10. f[c] \in Int /\ g[c] \in Int /\ f[c] * j <= g[c] * k
  BY <1>4, <1>6
<1>. HIDE DEF c, rest
<1>11. \A a, b, u, v \in Int : a * j <= u * k /\ b * j <= v * k => (a + b) * j <= (u + v) * k
  <2>1. \A a, b \in Int : (a + b) * k = a * k + b * k /\ a * k \in Int /\ b * k \in Int
    BY SMT
  <2>2. \A a, b \in Int : (a + b) * j = a * j + b * j /\ a * j \in Int /\ b * j \in Int
    BY SMT
  <2>. QED BY <2>1, <2>2
<1>12. (f[c] + Total(f, rest)) * j <= (g[c] + Total(g, rest)) * k
  BY <1>8, <1>9, <1>10, <1>11
<1>. QED BY <1>4, <1>6, <1>12

-----------------------------------------------------------------------------
(* Rounded amounts                                                          *)

\* Rounding a whole number of hundredths gives a whole number.
LEMMA RoundType == \A x \in Int : RoundHalfEven(x) \in Int
  BY SMT DEF RoundHalfEven, Hundredths

\* A liability is a whole number.
LEMMA LiabilityType ==
  \A side \in Sides, price \in Prices, size \in Int :
    /\ LiabilityMinor(side, price, size) \in Int
    /\ ReleaseAmount(side, price, size) \in Int
    /\ Winnings(price, size) \in Int
<1>1. \A price \in Prices, size \in Int : size * (price - Hundredths) \in Int
  BY SMT DEF Prices, Hundredths
<1>2. \A price \in Prices, size \in Int : Winnings(price, size) \in Int
  BY <1>1, RoundType DEF Winnings
<1>. QED BY <1>2 DEF LiabilityMinor, ReleaseAmount

\* So are both deltas of a settlement.
LEMMA SettleType ==
  ASSUME NEW side \in Sides, NEW price \in Prices, NEW stake \in Int, NEW won \in BOOLEAN
  PROVE  /\ SettleBetDeltas(side, price, stake, won).balance \in Int
         /\ SettleBetDeltas(side, price, stake, won).reserved \in Int
<1>1. LiabilityMinor("LAY", price, stake) \in Int /\ Winnings(price, stake) \in Int
  BY LiabilityType DEF Sides
<1>. QED BY <1>1, SMT DEF SettleBetDeltas

\* What a bet of this side and price risks for each hundred units of its stake.
Rate(side, price) == IF side = "BACK" THEN Hundredths ELSE price - Hundredths

\* Rounding moves an amount by half a unit at most, and a whole one not at all.
LEMMA Rounded ==
  ASSUME NEW x \in Int
  PROVE  /\ RoundHalfEven(x) \in Int
         /\ Hundredths * RoundHalfEven(x) <= x + 50
         /\ x - 50 <= Hundredths * RoundHalfEven(x)
         /\ x % Hundredths = 0 => Hundredths * RoundHalfEven(x) = x
<1>1. /\ x \div Hundredths \in Int /\ x % Hundredths \in 0 .. 99
      /\ x = Hundredths * (x \div Hundredths) + (x % Hundredths)
  BY SMT DEF Hundredths
<1>2. PICK q, n : q = x \div Hundredths /\ n = x % Hundredths
  OBVIOUS
<1>3. RoundHalfEven(x) = IF 2 * n > 100 \/ (2 * n = 100 /\ q % 2 = 1) THEN q + 1 ELSE q
  BY <1>2 DEF RoundHalfEven, Hundredths
<1>4. q \in Int /\ n \in 0 .. 99 /\ x = 100 * q + n
  BY <1>1, <1>2 DEF Hundredths
<1>5. n = 0 => RoundHalfEven(x) = q
  BY <1>3, <1>4
<1>6. RoundHalfEven(x) = q \/ (RoundHalfEven(x) = q + 1 /\ n >= 50)
  BY <1>3, <1>4
<1>7. RoundHalfEven(x) = q => n <= 50
  BY <1>3, <1>4
<1>. QED BY <1>2, <1>4, <1>5, <1>6, <1>7 DEF Hundredths

\* A fill risks for its taker no more than the price the taker asked for would.
LEMMA RateCrossed ==
  ASSUME NEW side \in Sides, NEW limit \in Prices, NEW price \in Prices, Crosses(side, limit, price)
  PROVE  Rate(side, price) <= Rate(side, limit)
  BY DEF Rate, Crosses, Prices, Hundredths

\* No size risks less than nothing.
LEMMA LiabilityNat ==
  \A side \in Sides, price \in Prices, size \in Nat :
    LiabilityMinor(side, price, size) >= 0 /\ Winnings(price, size) >= 0
<1>1. \A x \in Nat : RoundHalfEven(x) >= 0
  BY SMT DEF RoundHalfEven, Hundredths
<1>2. \A price \in Prices : price - Hundredths \in Nat
  BY DEF Prices, Hundredths
<1>3. \A x, y \in Nat : x * y \in Nat
  BY SMT
<1>4. \A price \in Prices, size \in Nat : Winnings(price, size) >= 0
  BY <1>1, <1>2, <1>3 DEF Winnings
<1>. QED BY <1>4 DEF LiabilityMinor

\* What is at risk is each size's share of the rate, but for half of this slack.
Within(side, price, slack) ==
    \A n \in Int :
        /\ n * Rate(side, price) \in Int /\ LiabilityMinor(side, price, n) \in Int
        /\ 100 * LiabilityMinor(side, price, n) <= n * Rate(side, price) + 50 * slack
        /\ n * Rate(side, price) - 50 * slack <= 100 * LiabilityMinor(side, price, n)

\* A lay may be rounded once, unless the odds are whole; a back never is.
LEMMA RoundedOnce ==
  ASSUME NEW side \in Sides, NEW price \in Prices
  PROVE  /\ Rate(side, price) \in Nat
         /\ side = "BACK" => Within(side, price, 0)
         /\ side = "LAY" => Within(side, price, 1)
         /\ price % Hundredths = 0 => Within(side, price, 0)
<1>1. price \in Nat /\ price > 100
  BY DEF Prices, Hundredths
<1>2. Rate(side, price) \in Nat
  BY <1>1 DEF Rate, Hundredths
<1>3. CASE side = "BACK"
  <2>1. Rate(side, price) = 100 /\ \A n \in Int : LiabilityMinor(side, price, n) = n
    BY <1>3 DEF Rate, LiabilityMinor, Hundredths
  <2>2. Within(side, price, 0)
    BY <2>1 DEF Within
  <2>. QED BY <1>2, <1>3, <2>2
<1>4. CASE side = "LAY"
  <2>. DEFINE k == price - 100
  <2>1. /\ Rate(side, price) = k
        /\ \A n \in Int : LiabilityMinor(side, price, n) = RoundHalfEven(n * k)
    BY <1>4 DEF Rate, LiabilityMinor, Hundredths, Winnings
  <2>2. k \in Nat
    BY <1>1
  <2>3. \A n \in Int : n * k \in Int
    BY <2>2, SMT
  <2>4. price % 100 = 0 => \A n \in Int : (n * k) % 100 = 0
    <3>. SUFFICES ASSUME price % 100 = 0, NEW n \in Int PROVE (n * k) % 100 = 0
      OBVIOUS
    <3>1. PICK j \in Int : k = 100 * j
      <4>1. price = 100 * (price \div 100) + (price % 100) /\ price \div 100 \in Int
        BY <1>1, SMT
      <4>2. PICK q \in Int : price = 100 * q
        BY <4>1
      <4>3. k = 100 * (q - 1) /\ q - 1 \in Int
        BY <4>2
      <4>. QED BY <4>3, Zenon
    <3>2. \A i \in Int : n * (100 * i) = 100 * (n * i) /\ n * i \in Int
      BY SMT
    <3>3. \A i \in Int : (100 * i) % 100 = 0
      BY SMT
    <3>. QED BY <3>1, <3>2, <3>3
  <2>. HIDE DEF k
  <2>5. \A x \in Int : /\ RoundHalfEven(x) \in Int
                       /\ 100 * RoundHalfEven(x) <= x + 50 /\ x - 50 <= 100 * RoundHalfEven(x)
                       /\ x % 100 = 0 => 100 * RoundHalfEven(x) = x
    BY Rounded DEF Hundredths
  <2>6. Within(side, price, 1)
    <3>. SUFFICES ASSUME NEW n \in Int
         PROVE  /\ n * k \in Int /\ RoundHalfEven(n * k) \in Int
                /\ 100 * RoundHalfEven(n * k) <= n * k + 50 * 1
                /\ n * k - 50 * 1 <= 100 * RoundHalfEven(n * k)
      BY <2>1 DEF Within
    <3>1. PICK x \in Int : x = n * k
      BY <2>3
    <3>2. /\ RoundHalfEven(x) \in Int
          /\ 100 * RoundHalfEven(x) <= x + 50 /\ x - 50 <= 100 * RoundHalfEven(x)
      BY <2>5
    <3>. QED BY <3>1, <3>2
  <2>7. price % 100 = 0 => Within(side, price, 0)
    <3>. SUFFICES ASSUME price % 100 = 0, NEW n \in Int
         PROVE  /\ n * k \in Int /\ RoundHalfEven(n * k) \in Int
                /\ 100 * RoundHalfEven(n * k) <= n * k + 50 * 0
                /\ n * k - 50 * 0 <= 100 * RoundHalfEven(n * k)
      BY <2>1 DEF Within
    <3>1. PICK x \in Int : x = n * k /\ x % 100 = 0
      BY <2>3, <2>4
    <3>2. RoundHalfEven(x) \in Int /\ 100 * RoundHalfEven(x) = x
      BY <2>5, <3>1
    <3>. QED BY <3>1, <3>2
  <2>. QED BY <1>2, <1>4, <2>6, <2>7 DEF Hundredths
<1>. QED BY <1>3, <1>4 DEF Sides

\* An order that is matched by n loses of its rest what it gets in a bet, but for
\* the slack.
LEMMA SplitDues ==
  ASSUME NEW side \in Sides, NEW price \in Prices, NEW slack \in {0, 1}, Within(side, price, slack),
         NEW a \in Int, NEW n \in Int
  PROVE  /\ LiabilityMinor(side, price, a - n) + (LiabilityMinor(side, price, n) - slack)
              <= LiabilityMinor(side, price, a)
         /\ \A x \in {a, n, a - n} : LiabilityMinor(side, price, x) \in Int
<1>. DEFINE k == Rate(side, price)
            L(x) == LiabilityMinor(side, price, x)
<1>1. k \in Nat
  BY RoundedOnce
<1>2. a \in Int /\ n \in Int /\ a - n \in Int
  OBVIOUS
<1>3. \A x \in Int : /\ x * k \in Int /\ L(x) \in Int
                     /\ 100 * L(x) <= x * k + 50 * slack /\ x * k - 50 * slack <= 100 * L(x)
  BY DEF Within
<1>. HIDE DEF k, L
<1>4. (a - n) * k + n * k = a * k
  <2>1. \A i, j \in Int : (i - j) * k + j * k = i * k
    BY <1>1, SMT
  <2>. QED BY <2>1
<1>5. PICK x, y, z \in Int : x = L(a) /\ y = L(a - n) /\ z = L(n)
  BY <1>2, <1>3, Zenon
<1>6. PICK ak, bk, nk \in Int : ak = a * k /\ bk = (a - n) * k /\ nk = n * k
  BY <1>2, <1>3, Zenon
<1>7. /\ ak - 50 * slack <= 100 * x /\ 100 * y <= bk + 50 * slack /\ 100 * z <= nk + 50 * slack
      /\ bk + nk = ak
  BY <1>2, <1>3, <1>4, <1>5, <1>6
<1>8. y + (z - slack) <= x
  BY <1>7
<1>. QED BY <1>5, <1>8 DEF L

\* Nothing is at risk on nothing.
LEMMA NothingAtRisk ==
  ASSUME NEW side \in Sides, NEW price \in Prices, NEW slack \in {0, 1}, Within(side, price, slack)
  PROVE  LiabilityMinor(side, price, 0) = 0
<1>1. Rate(side, price) \in Nat
  BY RoundedOnce
<1>2. 0 * Rate(side, price) = 0
  BY <1>1, SMT
<1>3. /\ LiabilityMinor(side, price, 0) \in Int
      /\ 100 * LiabilityMinor(side, price, 0) <= 0 * Rate(side, price) + 50 * slack
      /\ 0 * Rate(side, price) - 50 * slack <= 100 * LiabilityMinor(side, price, 0)
  BY DEF Within
<1>. QED BY <1>2, <1>3

\* Fills of these sizes at this limit or better odds, and what their bets need but for
\* the slack.
FairFills(side, limit, slack, S, size, price, need) ==
    \A m \in S : /\ size[m] \in Nat /\ price[m] \in Prices /\ Crosses(side, limit, price[m])
                 /\ Within(side, price[m], slack)
                 /\ need[m] = LiabilityMinor(side, price[m], size[m]) - slack

\* A new order that trades at once, at its own price or better ones, has of its rest
\* and its bets no more to lose than the whole order had, but for the slack of each bet.
LEMMA FreshDues ==
  ASSUME NEW side \in Sides, NEW limit \in Prices, NEW slack \in {0, 1}, Within(side, limit, slack),
         NEW stake \in Nat, NEW S, IsFiniteSet(S), NEW size, NEW price, NEW need,
         FairFills(side, limit, slack, S, size, price, need),
         NEW total \in Int, total = Total(size, S), total <= stake
  PROVE  /\ Total(need, S) \in Int /\ \A m \in S : need[m] \in Int
         /\ LiabilityMinor(side, limit, stake - total) + Total(need, S)
              <= LiabilityMinor(side, limit, stake)
<1>. DEFINE k == Rate(side, limit)
            L(n) == LiabilityMinor(side, limit, n)
<1>1. k \in Nat
  BY RoundedOnce
<1>2. ASSUME NEW m \in S
      PROVE  /\ size[m] \in Int /\ need[m] \in Int
             /\ need[m] * 100 <= size[m] * k - 50 * slack
             /\ need[m] * 100 <= size[m] * k
  <2>1. /\ size[m] \in Nat /\ price[m] \in Prices /\ Crosses(side, limit, price[m])
        /\ need[m] = LiabilityMinor(side, price[m], size[m]) - slack
    BY DEF FairFills
  <2>2. PICK j \in Nat : j = Rate(side, price[m]) /\ j <= k
    BY <2>1, RoundedOnce, RateCrossed
  <2>3. PICK l \in Int : l = LiabilityMinor(side, price[m], size[m]) /\ 100 * l <= size[m] * j + 50 * slack
    <3>1. size[m] \in Int /\ Within(side, price[m], slack)
      BY <2>1 DEF FairFills
    <3>2. /\ LiabilityMinor(side, price[m], size[m]) \in Int
          /\ 100 * LiabilityMinor(side, price[m], size[m])
               <= size[m] * Rate(side, price[m]) + 50 * slack
      BY <3>1 DEF Within
    <3>. QED BY <2>2, <3>2
  <2>. HIDE DEF k
  <2>4. size[m] * j <= size[m] * k /\ size[m] * j \in Int /\ size[m] * k \in Int
    <3>1. \A n, x, y \in Nat : x <= y => n * x <= n * y /\ n * x \in Int /\ n * y \in Int
      BY SMT
    <3>. QED BY <1>1, <2>1, <2>2, <3>1
  <2>5. PICK sj, sk \in Int : sj = size[m] * j /\ sk = size[m] * k
    BY <2>4
  <2>6. need[m] = l - slack /\ 100 * l <= sj + 50 * slack /\ sj <= sk
    BY <2>1, <2>3, <2>4, <2>5
  <2>7. need[m] \in Int /\ need[m] * 100 <= sk - 50 * slack /\ need[m] * 100 <= sk
    BY <2>6
  <2>. QED BY <2>1, <2>5, <2>7
<1>3. \A n \in Int : /\ n * k \in Int /\ L(n) \in Int
                     /\ 100 * L(n) <= n * k + 50 * slack /\ n * k - 50 * slack <= 100 * L(n)
  BY DEF Within
<1>4. L(0) = 0
  BY NothingAtRisk
<1>. HIDE DEF k, L
<1>5. /\ Total(need, S) \in Int /\ \A R \in SUBSET S : Total(need, R) \in Int /\ Total(size, R) \in Int
  <2>1. \A R \in SUBSET S : IsFiniteSet(R)
    BY FS_Subset
  <2>. QED BY <1>2, <2>1, TotalInt
<1>6. total \in Int /\ stake \in Int /\ stake - total \in Int
  BY <1>5
<1>7. L(stake - total) + Total(need, S) <= L(stake)
  <2>1. CASE S = {}
    <3>1. Total(need, S) = 0 /\ total = 0
      BY <2>1, TotalEmpty
    <3>2. L(stake) \in Int
      BY <1>3, <1>6
    <3>3. stake - total = stake
      BY <1>6, <3>1
    <3>. QED BY <3>1, <3>2, <3>3
  <2>2. CASE S # {}
    <3>1. PICK b \in S : TRUE
      BY <2>2
    <3>. DEFINE others == S \ {b}
    <3>2. IsFiniteSet(others) /\ others \in SUBSET S
      BY FS_Subset
    <3>3. /\ Total(need, S) = need[b] + Total(need, others)
          /\ Total(size, S) = size[b] + Total(size, others)
      BY <1>2, TotalTake
    <3>. HIDE DEF others
    <3>4. Total(need, others) * 100 <= Total(size, others) * k
      <4>1. \A c \in others : need[c] \in Int /\ size[c] \in Int /\ need[c] * 100 <= size[c] * k
        BY <1>2, <3>2
      <4>2. k \in Int /\ 100 \in Int
        BY <1>1
      <4>. QED BY <3>2, <4>1, <4>2, TotalBound
    <3>5. PICK x, y, v, w \in Int : /\ x = need[b] /\ y = Total(need, others)
                                    /\ v = size[b] /\ w = Total(size, others)
      BY <1>2, <1>5, <3>2
    <3>6. /\ x * 100 <= v * k - 50 * slack /\ y * 100 <= w * k
          /\ total = v + w /\ Total(need, S) = x + y
      BY <1>2, <3>3, <3>4, <3>5
    <3>7. PICK vk, wk, tk, ak, bk \in Int :
            /\ vk = v * k /\ wk = w * k /\ tk = total * k /\ ak = stake * k /\ bk = (stake - total) * k
      BY <1>3, <1>6, <3>5, Zenon
    <3>8. vk + wk = tk /\ bk + tk = ak
      <4>1. \A a, c \in Int : a * k + c * k = (a + c) * k
        BY <1>1, SMT
      <4>2. vk + wk = (v + w) * k
        BY <3>7, <4>1
      <4>3. bk + tk = ((stake - total) + total) * k
        BY <1>6, <3>7, <4>1
      <4>4. (stake - total) + total = stake
        BY <1>6
      <4>. QED BY <3>6, <3>7, <4>2, <4>3, <4>4
    <3>9. PICK rest, whole \in Int : rest = L(stake - total) /\ whole = L(stake)
      BY <1>3, <1>6, Zenon
    <3>10. 100 * rest <= bk + 50 * slack /\ ak - 50 * slack <= 100 * whole
      BY <1>3, <1>6, <3>7, <3>9
    <3>11. x * 100 <= vk - 50 * slack /\ y * 100 <= wk
      BY <3>6, <3>7
    <3>12. rest + (x + y) <= whole
      BY <3>8, <3>10, <3>11
    <3>. QED BY <3>6, <3>9, <3>12
  <2>. QED BY <2>1, <2>2
<1>. QED BY <1>2, <1>5, <1>7 DEF L

=============================================================================

--------------------------------- MODULE Sums ---------------------------------
(***************************************************************************)
(* Lemmas about SumFunctionOnSet of the community module Functions: what a *)
(* sum over a finite set of integers is, whichever order its elements are  *)
(* taken in; and about the arrays of Ordering: what filter() keeps and     *)
(* sort() returns.  The proofs that add up, filter or sort amounts cite    *)
(* them.                                                                   *)
(*                                                                         *)
(* Induction is on subsets of one finite set, through a smallest           *)
(* counterexample, or on numbers, through a least or a greatest one.       *)
(***************************************************************************)
EXTENDS Integers, FiniteSets, Functions, Ordering, FiniteSetTheorems, WellFoundedInduction, TLAPS

\* The smallest of the sets in B.
LEMMA Smallest ==
  ASSUME NEW U, IsFiniteSet(U), NEW B \in SUBSET (SUBSET U), B # {}
  PROVE  \E s \in B : \A t \in B : ~(t \subseteq s /\ t # s)
<1>1. IsWellFoundedOn(StrictSubsetOrdering(U), FiniteSubsetsOf(U))
  BY FS_StrictSubsetOrderingWellFounded
<1>2. B \subseteq FiniteSubsetsOf(U)
  BY FS_Subset DEF FiniteSubsetsOf
<1>3. PICK s \in B : \A t \in B : <<t, s>> \notin StrictSubsetOrdering(U)
  BY <1>1, <1>2, WFMin
<1>4. \A t \in B : t \subseteq s /\ t # s => <<t, s>> \in StrictSubsetOrdering(U)
  BY <1>3 DEF StrictSubsetOrdering
<1>5. \A t \in B : ~(t \subseteq s /\ t # s)
  BY <1>3, <1>4
<1>6. s \in B
  OBVIOUS
<1> QED
  BY <1>5, <1>6

Pick(s) == CHOOSE x \in s : TRUE

\* What the fold's recursive function satisfies.
IsFold(g, f, S) ==
  g = [s \in SUBSET S |-> IF s = {} THEN 0 ELSE f[Pick(s)] + g[s \ {Pick(s)}]]

LEMMA SumIs ==
  ASSUME NEW f, NEW S
  PROVE  SumFunctionOnSet(f, S) = (CHOOSE g : IsFold(g, f, S))[S]
BY DEF SumFunctionOnSet, FoldFunctionOnSet, MapThenFoldSet, IsFold, Pick

LEMMA FoldsAt ==
  ASSUME NEW f, NEW S, NEW g, IsFold(g, f, S), NEW s \in SUBSET S
  PROVE  /\ s = {} => g[s] = 0
         /\ s # {} => Pick(s) \in s /\ g[s] = f[Pick(s)] + g[s \ {Pick(s)}]
<1>1. g[s] = IF s = {} THEN 0 ELSE f[Pick(s)] + g[s \ {Pick(s)}]
  BY DEF IsFold
<1>2. s # {} => Pick(s) \in s
  BY DEF Pick
<1> QED
  BY <1>1, <1>2

\* Two such functions agree where both are defined.
LEMMA FoldsAgree ==
  ASSUME NEW f, NEW S, NEW T, IsFiniteSet(S), NEW g, IsFold(g, f, S), NEW h, IsFold(h, f, T),
         NEW u \in SUBSET S, u \subseteq T
  PROVE  g[u] = h[u]
<1> DEFINE B == {s \in SUBSET S : s \subseteq T /\ g[s] # h[s]}
<1> SUFFICES ASSUME B # {} PROVE FALSE
  OBVIOUS
<1>1. PICK s \in B : \A t \in B : ~(t \subseteq s /\ t # s)
  <2>1. B \in SUBSET (SUBSET S)
    OBVIOUS
  <2> HIDE DEF B
  <2> QED
    BY <2>1, Smallest
<1>2. s \in SUBSET S /\ s \in SUBSET T /\ g[s] # h[s]
  BY <1>1
<1>3. s # {} /\ Pick(s) \in s
  BY <1>2, FoldsAt
<1>4. g[s \ {Pick(s)}] = h[s \ {Pick(s)}]
  BY <1>1, <1>2, <1>3
<1> QED
  BY <1>2, <1>3, <1>4, FoldsAt

\* There is such a function.
LEMMA FoldsExist ==
  ASSUME NEW f, NEW S, IsFiniteSet(S)
  PROVE  \E g : IsFold(g, f, S)
<1> DEFINE B == {s \in SUBSET S : ~\E g : IsFold(g, f, s)}
<1> SUFFICES ASSUME B # {} PROVE FALSE
  BY DEF B
<1>1. PICK s \in B : \A t \in B : ~(t \subseteq s /\ t # s)
  <2>1. B \in SUBSET (SUBSET S)
    OBVIOUS
  <2> HIDE DEF B
  <2> QED
    BY <2>1, Smallest
<1>2. s \in SUBSET S /\ ~\E g : IsFold(g, f, s)
  BY <1>1
<1>3. PICK G : \A t \in SUBSET s : t # s => IsFold(G[t], f, t)
  <2> DEFINE H == [t \in SUBSET s |-> CHOOSE g : IsFold(g, f, t)]
  <2>1. ASSUME NEW t \in SUBSET s, t # s PROVE IsFold(H[t], f, t)
    <3>1. \E g : IsFold(g, f, t)
      BY <1>1, <1>2, <2>1
    <3>2. IsFold(CHOOSE g : IsFold(g, f, t), f, t)
      BY <3>1
    <3>3. H[t] = CHOOSE g : IsFold(g, f, t)
      OBVIOUS
    <3> QED
      BY <3>2, <3>3
  <2> HIDE DEF H
  <2> QED
    BY <2>1
<1>4. PICK rest : \A t \in SUBSET s : rest[t] = t \ {Pick(t)}
  <2>1. PICK r : r = [t \in SUBSET s |-> t \ {Pick(t)}]
    OBVIOUS
  <2>2. \A t \in SUBSET s : r[t] = t \ {Pick(t)}
    BY <2>1
  <2> QED
    BY <2>2
<1>5. PICK g : g = [t \in SUBSET s |-> IF t = {} THEN 0 ELSE f[Pick(t)] + G[rest[t]][rest[t]]]
  OBVIOUS
<1>6. /\ g = [t \in SUBSET s |-> g[t]]
      /\ \A t \in SUBSET s : g[t] = IF t = {} THEN 0 ELSE f[Pick(t)] + G[rest[t]][rest[t]]
  BY <1>5
<1>7. \A t \in SUBSET s : t # {} => Pick(t) \in t /\ rest[t] \in SUBSET t /\ rest[t] # t
  BY <1>4 DEF Pick
<1>8. ASSUME NEW t \in SUBSET s, t # s PROVE g[t] = G[t][t]
  <2>1. PICK h : h = G[t]
    OBVIOUS
  <2>2. IsFold(h, f, t) /\ t \in SUBSET t
    BY <1>3, <1>8, <2>1
  <2>3. CASE t = {}
    <3>1. h[t] = 0
      BY <2>2, <2>3, FoldsAt
    <3> QED
      BY <1>6, <2>1, <2>3, <3>1
  <2>4. CASE t # {}
    <3>1. PICK u : u = rest[t]
      OBVIOUS
    <3>2. u \in SUBSET s /\ u # s /\ u \in SUBSET t /\ u \in SUBSET u
      BY <1>7, <1>8, <2>4, <3>1
    <3>3. h[t] = f[Pick(t)] + h[u]
      <4>1. h[t] = f[Pick(t)] + h[t \ {Pick(t)}]
        BY <2>2, <2>4, FoldsAt
      <4>2. u = t \ {Pick(t)}
        BY <1>4, <1>8, <3>1
      <4> QED
        BY <4>1, <4>2
    <3>4. PICK k : k = G[u]
      OBVIOUS
    <3>5. IsFold(k, f, u) /\ IsFiniteSet(u)
      BY <1>2, <1>3, <3>2, <3>4, FS_Subset
    <3>6. k[u] = h[u]
      BY <2>2, <3>2, <3>5, FoldsAgree
    <3> QED
      BY <1>6, <2>1, <2>4, <3>1, <3>3, <3>4, <3>6
  <2> QED
    BY <2>3, <2>4
<1>9. ASSUME NEW t \in SUBSET s, t # {} PROVE g[t] = f[Pick(t)] + g[t \ {Pick(t)}]
  <2>1. rest[t] \in SUBSET s /\ rest[t] # s
    BY <1>7, <1>9
  <2>2. g[rest[t]] = G[rest[t]][rest[t]]
    BY <1>8, <2>1
  <2> QED
    BY <1>4, <1>6, <1>9, <2>2
<1>10. g = [t \in SUBSET s |-> IF t = {} THEN 0 ELSE f[Pick(t)] + g[t \ {Pick(t)}]]
  BY <1>6, <1>9
<1> QED
  BY <1>2, <1>10 DEF IsFold

-----------------------------------------------------------------------------
(* Sums. *)

\* The sum over a set is that without the element picked first, and this one.
LEMMA SumPick ==
  ASSUME NEW f, NEW S, IsFiniteSet(S)
  PROVE  /\ S = {} => SumFunctionOnSet(f, S) = 0
         /\ S # {} => /\ Pick(S) \in S
                      /\ SumFunctionOnSet(f, S) = f[Pick(S)] + SumFunctionOnSet(f, S \ {Pick(S)})
<1>1. PICK g : g = CHOOSE h : IsFold(h, f, S)
  OBVIOUS
<1>2. IsFold(g, f, S)
  BY <1>1, FoldsExist
<1>3. SumFunctionOnSet(f, S) = g[S] /\ S \in SUBSET S
  BY <1>1, SumIs
<1>4. ASSUME S # {}
      PROVE  g[S \ {Pick(S)}] = SumFunctionOnSet(f, S \ {Pick(S)})
  <2>1. PICK T : T = S \ {Pick(S)}
    OBVIOUS
  <2>2. T \in SUBSET S /\ IsFiniteSet(T) /\ T \in SUBSET T
    BY <2>1, FS_Subset
  <2>3. PICK h : h = CHOOSE k : IsFold(k, f, T)
    OBVIOUS
  <2>4. IsFold(h, f, T)
    BY <2>2, <2>3, FoldsExist
  <2>5. g[T] = h[T]
    BY <1>2, <2>2, <2>4, FoldsAgree
  <2> QED
    BY <2>1, <2>3, <2>5, SumIs
<1> QED
  BY <1>2, <1>3, <1>4, FoldsAt

LEMMA SumEmpty == ASSUME NEW f PROVE SumFunctionOnSet(f, {}) = 0
BY SumPick, FS_EmptySet

\* A sum of integers is one; of naturals, a natural.
LEMMA SumType ==
  ASSUME NEW S, IsFiniteSet(S), NEW f, \A x \in S : f[x] \in Int
  PROVE  /\ SumFunctionOnSet(f, S) \in Int
         /\ (\A x \in S : f[x] >= 0) => SumFunctionOnSet(f, S) >= 0
<1> DEFINE ok(s) == /\ SumFunctionOnSet(f, s) \in Int
                    /\ (\A x \in s : f[x] >= 0) => SumFunctionOnSet(f, s) >= 0
           B == {s \in SUBSET S : ~ok(s)}
<1> SUFFICES ASSUME B # {} PROVE FALSE
  OBVIOUS
<1>1. PICK s \in B : \A t \in B : ~(t \subseteq s /\ t # s)
  <2>1. B \in SUBSET (SUBSET S)
    OBVIOUS
  <2> HIDE DEF B
  <2> QED
    BY <2>1, Smallest
<1>2. s \in SUBSET S /\ IsFiniteSet(s) /\ ~ok(s)
  BY <1>1, FS_Subset
<1>3. s # {}
  <2> SUFFICES ASSUME s = {} PROVE ok(s)
    BY <1>2
  <2>1. SumFunctionOnSet(f, s) = 0
    BY SumEmpty
  <2> QED
    BY <2>1
<1>4. Pick(s) \in s /\ SumFunctionOnSet(f, s) = f[Pick(s)] + SumFunctionOnSet(f, s \ {Pick(s)})
  BY <1>2, <1>3, SumPick
<1>5. ok(s \ {Pick(s)})
  <2>1. PICK t : t = s \ {Pick(s)}
    OBVIOUS
  <2>2. t \in SUBSET S /\ t \subseteq s /\ t # s
    BY <1>2, <1>4, <2>1
  <2> QED
    BY <1>1, <2>1, <2>2
<1> QED
  BY <1>2, <1>4, <1>5

\* Any element can be taken out.
LEMMA SumRemove ==
  ASSUME NEW S, IsFiniteSet(S), NEW f, \A x \in S : f[x] \in Int, NEW y \in S
  PROVE  SumFunctionOnSet(f, S) = f[y] + SumFunctionOnSet(f, S \ {y})
<1> DEFINE ok(s) == \A z \in s : SumFunctionOnSet(f, s) = f[z] + SumFunctionOnSet(f, s \ {z})
           B == {s \in SUBSET S : ~ok(s)}
<1> SUFFICES ASSUME B # {} PROVE FALSE
  OBVIOUS
<1>1. PICK s \in B : \A t \in B : ~(t \subseteq s /\ t # s)
  <2>1. B \in SUBSET (SUBSET S)
    OBVIOUS
  <2> HIDE DEF B
  <2> QED
    BY <2>1, Smallest
<1>2. s \in SUBSET S /\ IsFiniteSet(s) /\ ~ok(s)
  BY <1>1, FS_Subset
<1>3. PICK z \in s : SumFunctionOnSet(f, s) # f[z] + SumFunctionOnSet(f, s \ {z})
  BY <1>2
<1>4. PICK p : p = Pick(s)
  OBVIOUS
<1>5. p \in s /\ SumFunctionOnSet(f, s) = f[p] + SumFunctionOnSet(f, s \ {p})
  BY <1>2, <1>3, <1>4, SumPick
<1>6. z # p
  BY <1>3, <1>5
<1>7. ASSUME NEW w \in s PROVE ok(s \ {w}) /\ IsFiniteSet(s \ {w})
  <2>1. PICK t : t = s \ {w}
    OBVIOUS
  <2>2. t \in SUBSET S /\ t \subseteq s /\ t # s
    BY <1>2, <2>1
  <2> QED
    BY <1>1, <1>2, <2>1, <2>2, FS_Subset
<1>8. (s \ {p}) \ {z} = (s \ {z}) \ {p}
  OBVIOUS
<1>9. /\ SumFunctionOnSet(f, s \ {p}) = f[z] + SumFunctionOnSet(f, (s \ {p}) \ {z})
      /\ SumFunctionOnSet(f, s \ {z}) = f[p] + SumFunctionOnSet(f, (s \ {z}) \ {p})
  BY <1>5, <1>6, <1>7
<1>10. SumFunctionOnSet(f, (s \ {p}) \ {z}) \in Int
  <2>1. IsFiniteSet((s \ {p}) \ {z}) /\ \A x \in (s \ {p}) \ {z} : f[x] \in Int
    BY <1>2, FS_Difference
  <2> QED
    BY <2>1, SumType
<1>11. f[z] \in Int /\ f[p] \in Int
  BY <1>2, <1>5
<1>12. PICK a : a = SumFunctionOnSet(f, (s \ {p}) \ {z})
  OBVIOUS
<1>13. SumFunctionOnSet(f, s \ {p}) = f[z] + a /\ SumFunctionOnSet(f, s \ {z}) = f[p] + a
  BY <1>8, <1>9, <1>12
<1>14. SumFunctionOnSet(f, s) = f[p] + (f[z] + a)
  BY <1>5, <1>13
<1>15. SumFunctionOnSet(f, s) # f[z] + (f[p] + a)
  BY <1>3, <1>13
<1>16. a \in Int
  BY <1>10, <1>12
<1> QED
  BY <1>11, <1>14, <1>15, <1>16

\* An element is added to a set.
LEMMA SumAdd ==
  ASSUME NEW S, IsFiniteSet(S), NEW f, \A x \in S : f[x] \in Int, NEW y, y \notin S, f[y] \in Int
  PROVE  SumFunctionOnSet(f, S \cup {y}) = f[y] + SumFunctionOnSet(f, S)
<1>1. PICK T : T = S \cup {y}
  OBVIOUS
<1>2. IsFiniteSet(T) /\ y \in T /\ T \ {y} = S /\ \A x \in T : f[x] \in Int
  BY <1>1, FS_AddElement
<1>3. SumFunctionOnSet(f, T) = f[y] + SumFunctionOnSet(f, T \ {y})
  BY <1>2, SumRemove
<1> QED
  BY <1>1, <1>2, <1>3

\* Sums of the same amounts are equal.
LEMMA SumSame ==
  ASSUME NEW S, IsFiniteSet(S), NEW f, NEW g, \A x \in S : f[x] = g[x]
  PROVE  SumFunctionOnSet(f, S) = SumFunctionOnSet(g, S)
<1> DEFINE ok(s) == SumFunctionOnSet(f, s) = SumFunctionOnSet(g, s)
           B == {s \in SUBSET S : ~ok(s)}
<1> SUFFICES ASSUME B # {} PROVE FALSE
  OBVIOUS
<1>1. PICK s \in B : \A t \in B : ~(t \subseteq s /\ t # s)
  <2>1. B \in SUBSET (SUBSET S)
    OBVIOUS
  <2> HIDE DEF B
  <2> QED
    BY <2>1, Smallest
<1>2. s \in SUBSET S /\ IsFiniteSet(s) /\ ~ok(s)
  BY <1>1, FS_Subset
<1>3. s # {}
  BY <1>2, SumEmpty
<1>4. PICK t : t = s \ {Pick(s)}
  OBVIOUS
<1>5. /\ Pick(s) \in s
      /\ SumFunctionOnSet(f, s) = f[Pick(s)] + SumFunctionOnSet(f, t)
      /\ SumFunctionOnSet(g, s) = g[Pick(s)] + SumFunctionOnSet(g, t)
  BY <1>2, <1>3, <1>4, SumPick
<1>6. t \in SUBSET S /\ t \subseteq s /\ t # s
  BY <1>2, <1>4, <1>5
<1>7. ok(t)
  BY <1>1, <1>6
<1> QED
  BY <1>2, <1>5, <1>7

\* With nothing negative, more adds up to no less.
LEMMA SumGrows ==
  ASSUME NEW T, IsFiniteSet(T), NEW S \in SUBSET T, NEW f, \A x \in T : f[x] \in Nat
  PROVE  SumFunctionOnSet(f, S) <= SumFunctionOnSet(f, T)
<1> DEFINE ok(s) == SumFunctionOnSet(f, S) <= SumFunctionOnSet(f, s)
           B == {s \in SUBSET T : S \subseteq s /\ ~ok(s)}
<1> SUFFICES ASSUME B # {} PROVE FALSE
  OBVIOUS
<1>1. PICK s \in B : \A t \in B : ~(t \subseteq s /\ t # s)
  <2>1. B \in SUBSET (SUBSET T)
    OBVIOUS
  <2> HIDE DEF B
  <2> QED
    BY <2>1, Smallest
<1>2. s \in SUBSET T /\ IsFiniteSet(s) /\ S \subseteq s /\ ~ok(s) /\ \A x \in s : f[x] \in Int
  BY <1>1, FS_Subset
<1>3. SumFunctionOnSet(f, s) \in Int
  BY <1>2, SumType
<1>4. PICK y \in s : y \notin S
  BY <1>2, <1>3
<1>5. PICK t : t = s \ {y}
  OBVIOUS
<1>6. t \in SUBSET T /\ t \subseteq s /\ t # s /\ S \subseteq t
  BY <1>2, <1>4, <1>5
<1>7. SumFunctionOnSet(f, s) = f[y] + SumFunctionOnSet(f, t)
  BY <1>2, <1>4, <1>5, SumRemove
<1>8. ok(t)
  BY <1>1, <1>6
<1>9. IsFiniteSet(S) /\ IsFiniteSet(t) /\ \A x \in S \cup t : f[x] \in Int
  BY <1>6, FS_Subset
<1>10. SumFunctionOnSet(f, S) \in Int /\ SumFunctionOnSet(f, t) \in Int /\ f[y] \in Nat
  BY <1>2, <1>4, <1>9, SumType
<1> QED
  BY <1>2, <1>3, <1>7, <1>8, <1>10

-----------------------------------------------------------------------------
(* Induction over numbers, in the form the provers can use: a least one. *)

LEMMA LeastNumber ==
  ASSUME NEW B \in SUBSET Nat, B # {}
  PROVE  \E m \in B : \A k \in B : m <= k
<1>1. PICK b \in B : TRUE
  OBVIOUS
<1> DEFINE F == {0 .. k : k \in {n \in B : n <= b}}
<1>2. b \in Nat /\ IsFiniteSet(0 .. b)
  BY <1>1, FS_Interval
<1>3. F \in SUBSET (SUBSET (0 .. b))
  <2>1. \A k \in Nat : k <= b => 0 .. k \in SUBSET (0 .. b)
    BY <1>2
  <2>2. \A n \in B : n \in Nat
    OBVIOUS
  <2> QED
    BY <2>1, <2>2 DEF F
<1>4. 0 .. b \in F
  BY <1>1, <1>2
<1> HIDE DEF F
<1>5. PICK s \in F : \A t \in F : ~(t \subseteq s /\ t # s)
  <2>1. PICK U : U = 0 .. b
    OBVIOUS
  <2>2. IsFiniteSet(U) /\ F \in SUBSET (SUBSET U) /\ F # {}
    BY <1>2, <1>3, <1>4, <2>1
  <2> QED
    BY <2>2, Smallest
<1>6. PICK m \in B : m <= b /\ s = 0 .. m
  BY <1>5 DEF F
<1>7. ASSUME NEW k \in B, k < m PROVE FALSE
  <2>1. k \in Nat /\ m \in Nat
    OBVIOUS
  <2>2. k <= b
    BY <1>2, <1>6, <1>7, <2>1
  <2>3. 0 .. k \in F
    BY <2>2 DEF F
  <2>4. 0 .. k \subseteq 0 .. m
    BY <1>7, <2>1
  <2>5. m \in 0 .. m /\ m \notin 0 .. k
    BY <1>7, <2>1
  <2> QED
    BY <1>5, <1>6, <2>3, <2>4, <2>5
<1>8. \A k \in B : m <= k
  BY <1>7
<1> QED
  BY <1>8

\* Totals that each add one amount to the total numbered just before, from 0 on.
IsChain(n, f, by, number, total) ==
  /\ number \in [1 .. n -> Nat]
  /\ total \in [1 .. n -> Int]
  /\ \A i, j \in 1 .. n : number[i] = number[j] => i = j
  /\ \A i, j \in 1 .. n : by[i] = by[j] => i = j
  /\ \A i \in 1 .. n : f[by[i]] \in Int
  /\ \A i \in 1 .. n : number[i] = 0 => total[i] - f[by[i]] = 0
  /\ \A i \in 1 .. n : number[i] # 0 =>
       \E j \in 1 .. n : number[j] = number[i] - 1 /\ total[j] = total[i] - f[by[i]]

UpTo(n, by, number, m) == {by[j] : j \in {k \in 1 .. n : number[k] <= m}}

\* They are sums of the amounts numbered so far.
LEMMA ChainSums ==
  ASSUME NEW n \in Nat, NEW f, NEW by, NEW number, NEW total, IsChain(n, f, by, number, total),
         NEW i \in 1 .. n
  PROVE  total[i] = SumFunctionOnSet(f, UpTo(n, by, number, number[i]))
<1>chain. /\ number \in [1 .. n -> Nat]
          /\ total \in [1 .. n -> Int]
          /\ \A x, y \in 1 .. n : number[x] = number[y] => x = y
          /\ \A x, y \in 1 .. n : by[x] = by[y] => x = y
          /\ \A x \in 1 .. n : f[by[x]] \in Int
          /\ \A x \in 1 .. n : number[x] = 0 => total[x] - f[by[x]] = 0
          /\ \A x \in 1 .. n : number[x] # 0 =>
               \E j \in 1 .. n : number[j] = number[x] - 1 /\ total[j] = total[x] - f[by[x]]
  BY DEF IsChain
<1> DEFINE upto(m) == {by[j] : j \in {k \in 1 .. n : number[k] <= m}}
           bad == {m \in Nat : \E k \in 1 .. n : number[k] = m /\ total[k] # SumFunctionOnSet(f, upto(m))}
<1> SUFFICES ASSUME bad # {} PROVE FALSE
  <2>1. PICK m : m = number[i]
    OBVIOUS
  <2>2. m \in Nat
    BY <1>chain, <2>1
  <2>5. upto(m) = UpTo(n, by, number, m)
    BY DEF UpTo
  <2> HIDE DEF upto
  <2>3. ASSUME total[i] # SumFunctionOnSet(f, upto(m)) PROVE m \in bad
    BY <2>1, <2>2, <2>3
  <2> HIDE DEF bad
  <2>4. total[i] = SumFunctionOnSet(f, upto(m))
    BY <2>3
  <2> QED
    BY <2>1, <2>4, <2>5
<1>1. PICK m \in bad : \A k \in bad : m <= k
  <2>1. bad \in SUBSET Nat
    OBVIOUS
  <2> HIDE DEF bad
  <2> QED
    BY <2>1, LeastNumber
<1>2. PICK k \in 1 .. n : number[k] = m /\ total[k] # SumFunctionOnSet(f, upto(m))
  BY <1>1
<1>3. m \in Nat /\ f[by[k]] \in Int /\ total[k] \in Int
  BY <1>chain, <1>1
<1>4. PICK before : before = {by[j] : j \in {l \in 1 .. n : number[l] < m}}
  OBVIOUS
<1>5. upto(m) = before \cup {by[k]}
  <2>1. \A j \in 1 .. n : number[j] <= m <=> number[j] < m \/ j = k
    BY <1>chain, <1>2, <1>3
  <2>2. {l \in 1 .. n : number[l] <= m} = {l \in 1 .. n : number[l] < m} \cup {k}
    BY <2>1
  <2>3. PICK A : A = {l \in 1 .. n : number[l] < m}
    OBVIOUS
  <2>4. upto(m) = {by[j] : j \in A \cup {k}}
    BY <2>2, <2>3
  <2>5. {by[j] : j \in A \cup {k}} = {by[j] : j \in A} \cup {by[k]}
    OBVIOUS
  <2> QED
    BY <1>4, <2>3, <2>4, <2>5
<1>6. by[k] \notin before
  BY <1>chain, <1>2, <1>4
<1>7. IsFiniteSet(before) /\ \A x \in before : f[x] \in Int
  <2>1. PICK D : D = {l \in 1 .. n : number[l] < m}
    OBVIOUS
  <2>2. IsFiniteSet(D)
    <3>1. IsFiniteSet(1 .. n) /\ D \subseteq 1 .. n
      BY <2>1, FS_Interval
    <3> QED
      BY <3>1, FS_Subset
  <2>3. PICK g : g = [j \in D |-> by[j]]
    OBVIOUS
  <2>4. g \in Surjection(D, before)
    BY <1>4, <2>1, <2>3 DEF Surjection
  <2>5. IsFiniteSet(before)
    BY <2>2, <2>4, FS_Surjection
  <2> QED
    BY <1>chain, <1>4, <2>5
<1>8. SumFunctionOnSet(f, upto(m)) = f[by[k]] + SumFunctionOnSet(f, before)
  <2>1. SumFunctionOnSet(f, before \cup {by[k]}) = f[by[k]] + SumFunctionOnSet(f, before)
    BY <1>3, <1>6, <1>7, SumAdd
  <2> QED
    BY <1>5, <2>1
<1>9. SumFunctionOnSet(f, before) \in Int
  BY <1>7, SumType
<1>10. CASE m = 0
  <2>1. before = {}
    BY <1>chain, <1>4, <1>10
  <2>2. SumFunctionOnSet(f, before) = 0
    BY <2>1, SumEmpty
  <2>3. total[k] - f[by[k]] = 0
    BY <1>chain, <1>2, <1>10
  <2> QED
    BY <1>2, <1>3, <1>8, <2>2, <2>3
<1>11. CASE m # 0
  <2>1. PICK j \in 1 .. n : number[j] = m - 1 /\ total[j] = total[k] - f[by[k]]
    BY <1>chain, <1>2, <1>11
  <2>2. m - 1 \in Nat /\ ~(m <= m - 1)
    BY <1>3, <1>11
  <2>3. total[j] = SumFunctionOnSet(f, upto(m - 1))
    BY <1>chain, <1>1, <2>1, <2>2
  <2>4. upto(m - 1) = before
    <3>1. \A l \in 1 .. n : number[l] <= m - 1 <=> number[l] < m
      BY <1>chain, <1>3
    <3>2. {l \in 1 .. n : number[l] <= m - 1} = {l \in 1 .. n : number[l] < m}
      BY <3>1
    <3> QED
      BY <1>4, <3>2
  <2>5. SumFunctionOnSet(f, upto(m - 1)) = SumFunctionOnSet(f, before)
    BY <2>4
  <2> QED
    BY <1>2, <1>3, <1>8, <1>9, <2>1, <2>3, <2>5
<1> QED
  BY <1>10, <1>11

\* A sum does not depend on what its terms are called.
LEMMA SumRenamed ==
  ASSUME NEW S, IsFiniteSet(S), NEW f, NEW g, NEW by,
         \A i \in S : f[i] \in Int /\ g[by[i]] = f[i],
         \A i, j \in S : by[i] = by[j] => i = j
  PROVE  SumFunctionOnSet(f, S) = SumFunctionOnSet(g, {by[i] : i \in S})
<1> DEFINE image(s) == {by[i] : i \in s}
           ok(s) == IsFiniteSet(image(s)) /\ SumFunctionOnSet(f, s) = SumFunctionOnSet(g, image(s))
           B == {s \in SUBSET S : ~ok(s)}
<1> SUFFICES ASSUME B # {} PROVE FALSE
  OBVIOUS
<1>1. PICK s \in B : \A t \in B : ~(t \subseteq s /\ t # s)
  <2>1. B \in SUBSET (SUBSET S)
    OBVIOUS
  <2> HIDE DEF B
  <2> QED
    BY <2>1, Smallest
<1>2. s \in SUBSET S /\ ~ok(s)
  OBVIOUS
<1>3. s # {}
  <2> SUFFICES ASSUME s = {} PROVE FALSE
    OBVIOUS
  <2>1. PICK T : T = image(s)
    OBVIOUS
  <2>2. T = {}
    BY <2>1
  <2>3. IsFiniteSet(T) /\ SumFunctionOnSet(f, s) = SumFunctionOnSet(g, T)
    BY <2>2, FS_EmptySet, SumEmpty
  <2> HIDE DEF image
  <2>4. IsFiniteSet(image(s)) /\ SumFunctionOnSet(f, s) = SumFunctionOnSet(g, image(s))
    BY <2>1, <2>3
  <2> QED
    BY <1>2, <2>4
<1>4. PICK y \in s : TRUE
  BY <1>3
<1>5. PICK rest : rest = s \ {y}
  OBVIOUS
<1>6. /\ rest \in SUBSET S /\ IsFiniteSet(rest) /\ IsFiniteSet(s)
      /\ y \notin rest /\ s = rest \cup {y} /\ y \in S
  <2>1. IsFiniteSet(s)
    BY <1>2, FS_Subset
  <2> QED
    BY <1>2, <1>4, <1>5, <2>1, FS_RemoveElement
<1>7. ok(rest)
  BY <1>1, <1>4, <1>5, <1>6
<1>8. image(s) = image(rest) \cup {by[y]} /\ by[y] \notin image(rest)
  BY <1>6
<1>9. IsFiniteSet(image(s))
  <2>1. PICK T : T = image(rest)
    OBVIOUS
  <2>2. IsFiniteSet(T) /\ image(s) = T \cup {by[y]}
    BY <1>7, <1>8, <2>1
  <2>3. IsFiniteSet(T \cup {by[y]})
    BY <2>2, FS_AddElement
  <2> HIDE DEF image
  <2> QED
    BY <2>2, <2>3
<1>10. SumFunctionOnSet(f, s) = f[y] + SumFunctionOnSet(f, rest)
  <2>1. \A i \in rest : f[i] \in Int
    BY <1>6
  <2> QED
    BY <1>6, <2>1, SumAdd
<1>11. SumFunctionOnSet(g, image(s)) = g[by[y]] + SumFunctionOnSet(g, image(rest))
  <2>1. PICK T : T = image(rest)
    OBVIOUS
  <2>2. (\A z \in T : g[z] \in Int) /\ g[by[y]] \in Int
    BY <1>6, <2>1
  <2>3. by[y] \notin T /\ IsFiniteSet(T) /\ image(s) = T \cup {by[y]}
    BY <1>7, <1>8, <2>1
  <2> HIDE DEF image
  <2>4. SumFunctionOnSet(g, T \cup {by[y]}) = g[by[y]] + SumFunctionOnSet(g, T)
    BY <2>2, <2>3, SumAdd
  <2> QED
    BY <2>1, <2>3, <2>4
<1>12. g[by[y]] = f[y]
  BY <1>6
<1> QED
  BY <1>2, <1>7, <1>9, <1>10, <1>11, <1>12

\* Counting is adding ones.
LEMMA SumOfOnes ==
  ASSUME NEW S, IsFiniteSet(S), NEW f, \A x \in S : f[x] = 1
  PROVE  SumFunctionOnSet(f, S) = Cardinality(S)
<1> DEFINE ok(s) == SumFunctionOnSet(f, s) = Cardinality(s)
           B == {s \in SUBSET S : ~ok(s)}
<1> SUFFICES ASSUME B # {} PROVE FALSE
  OBVIOUS
<1>1. PICK s \in B : \A t \in B : ~(t \subseteq s /\ t # s)
  <2>1. B \in SUBSET (SUBSET S)
    OBVIOUS
  <2> HIDE DEF B
  <2> QED
    BY <2>1, Smallest
<1>2. s \in SUBSET S /\ SumFunctionOnSet(f, s) # Cardinality(s)
  OBVIOUS
<1>3. IsFiniteSet(s)
  BY <1>2, FS_Subset
<1>4. s # {}
  BY <1>2, SumEmpty, FS_EmptySet
<1>5. PICK y \in s : TRUE
  BY <1>4
<1>6. PICK rest : rest = s \ {y}
  OBVIOUS
<1>7. rest \in SUBSET S /\ rest \subseteq s /\ rest # s
  BY <1>2, <1>5, <1>6
<1>8. SumFunctionOnSet(f, rest) = Cardinality(rest)
  BY <1>1, <1>7
<1>9. IsFiniteSet(rest) /\ Cardinality(s) = Cardinality(rest) + 1
  <2>1. IsFiniteSet(rest) /\ Cardinality(rest) = Cardinality(s) - 1
    BY <1>3, <1>5, <1>6, FS_RemoveElement
  <2>2. Cardinality(s) \in Nat
    BY <1>3, FS_CardinalityType
  <2> QED
    BY <2>1, <2>2
<1>10. SumFunctionOnSet(f, s) = f[y] + SumFunctionOnSet(f, rest)
  <2>1. \A x \in s : f[x] \in Int
    BY <1>2
  <2> QED
    BY <1>3, <1>6, <2>1, SumRemove
<1>11. f[y] = 1 /\ Cardinality(rest) \in Nat
  BY <1>2, <1>5, <1>9, FS_CardinalityType
<1> QED
  BY <1>2, <1>8, <1>9, <1>10, <1>11

\* A sum is that of two parts.
LEMMA SumSplit ==
  ASSUME NEW A, IsFiniteSet(A), NEW f, \A x \in A : f[x] \in Int, NEW K
  PROVE  SumFunctionOnSet(f, A) = SumFunctionOnSet(f, A \ K) + SumFunctionOnSet(f, K \cap A)
<1> DEFINE ok(s) == SumFunctionOnSet(f, s) = SumFunctionOnSet(f, s \ K) + SumFunctionOnSet(f, K \cap s)
           B == {s \in SUBSET A : ~ok(s)}
<1> SUFFICES ASSUME B # {} PROVE FALSE
  OBVIOUS
<1>1. PICK s \in B : \A t \in B : ~(t \subseteq s /\ t # s)
  <2>1. B \in SUBSET (SUBSET A)
    OBVIOUS
  <2> HIDE DEF B
  <2> QED
    BY <2>1, Smallest
<1>2. s \in SUBSET A /\ ~ok(s)
  OBVIOUS
<1>3. s # {}
  <2> SUFFICES ASSUME s = {} PROVE FALSE
    OBVIOUS
  <2>1. s \ K = {} /\ K \cap s = {}
    OBVIOUS
  <2>2. SumFunctionOnSet(f, {}) = 0
    BY SumEmpty
  <2> QED
    BY <1>2, <2>1, <2>2
<1>4. PICK y \in s : TRUE
  BY <1>3
<1>5. PICK rest, out, in : rest = s \ {y} /\ out = rest \ K /\ in = K \cap rest
  OBVIOUS
<1>6. /\ rest \in SUBSET A /\ rest \subseteq s /\ rest # s /\ out \subseteq A /\ in \subseteq A
      /\ y \notin out /\ y \notin in /\ y \in A /\ y \notin rest /\ s = rest \cup {y}
  BY <1>2, <1>4, <1>5
<1>7. IsFiniteSet(rest) /\ IsFiniteSet(out) /\ IsFiniteSet(in)
  BY <1>6, FS_Subset
<1>8. SumFunctionOnSet(f, rest) = SumFunctionOnSet(f, out) + SumFunctionOnSet(f, in)
  BY <1>1, <1>5, <1>6
<1>9. /\ f[y] \in Int
      /\ \A x \in rest : f[x] \in Int
      /\ \A x \in out : f[x] \in Int
      /\ \A x \in in : f[x] \in Int
  BY <1>6
<1>10. /\ SumFunctionOnSet(f, s) = f[y] + SumFunctionOnSet(f, rest)
       /\ SumFunctionOnSet(f, out \cup {y}) = f[y] + SumFunctionOnSet(f, out)
       /\ SumFunctionOnSet(f, in \cup {y}) = f[y] + SumFunctionOnSet(f, in)
  BY <1>6, <1>7, <1>9, SumAdd
<1>11. PICK a, b, e : a = SumFunctionOnSet(f, out) /\ b = SumFunctionOnSet(f, in) /\ e = f[y]
  OBVIOUS
<1>12. a \in Int /\ b \in Int /\ e \in Int
  BY <1>7, <1>9, <1>11, SumType
<1>13. SumFunctionOnSet(f, s) = e + (a + b) /\ e + (a + b) = a + (e + b) /\ e + (a + b) = (e + a) + b
  BY <1>8, <1>10, <1>11, <1>12
<1>14. CASE y \in K
  <2>1. s \ K = out /\ K \cap s = in \cup {y}
    BY <1>5, <1>6, <1>14
  <2>2. SumFunctionOnSet(f, K \cap s) = e + b /\ SumFunctionOnSet(f, s \ K) = a
    BY <1>10, <1>11, <2>1
  <2>3. SumFunctionOnSet(f, s) = SumFunctionOnSet(f, s \ K) + SumFunctionOnSet(f, K \cap s)
    BY <1>13, <2>2
  <2> QED
    BY <1>2, <2>3
<1>15. CASE y \notin K
  <2>1. s \ K = out \cup {y} /\ K \cap s = in
    BY <1>5, <1>6, <1>15
  <2>2. SumFunctionOnSet(f, s \ K) = e + a /\ SumFunctionOnSet(f, K \cap s) = b
    BY <1>10, <1>11, <2>1
  <2>3. SumFunctionOnSet(f, s) = SumFunctionOnSet(f, s \ K) + SumFunctionOnSet(f, K \cap s)
    BY <1>13, <2>2
  <2> QED
    BY <1>2, <2>3
<1> QED
  BY <1>14, <1>15

\* There are n numbers from 1 to n.
LEMMA UpToN ==
  ASSUME NEW n \in Nat
  PROVE  IsFiniteSet(1 .. n) /\ Cardinality(1 .. n) = n
BY FS_Interval

-----------------------------------------------------------------------------
(* Elements in order (Ordering). *)

\* What comes up to each element grows from one element to the next.
IsOrder(S, upTo) ==
  /\ \A x \in S : upTo[x] \subseteq S /\ x \in upTo[x]
  /\ \A x, y \in S : upTo[x] \subseteq upTo[y] \/ upTo[y] \subseteq upTo[x]
  /\ \A x, y \in S : upTo[x] = upTo[y] => x = y

\* Then every element has one place, and what is placed first comes up to what follows.
LEMMA OrderIs ==
  ASSUME NEW S, IsFiniteSet(S), NEW upTo, IsOrder(S, upTo), NEW o, o = InOrder(S, upTo)
  PROVE  /\ Cardinality(S) \in Nat /\ o \in [1 .. Cardinality(S) -> S]
         /\ \A x \in S : \E i \in 1 .. Cardinality(S) : o[i] = x
         /\ \A i, j \in 1 .. Cardinality(S) : o[i] = o[j] => i = j
         /\ \A i, j \in 1 .. Cardinality(S) : i <= j => o[i] \in upTo[o[j]]
<1>order. /\ \A x \in S : upTo[x] \in SUBSET S /\ x \in upTo[x]
          /\ \A x, y \in S : upTo[x] \subseteq upTo[y] \/ upTo[y] \subseteq upTo[x]
          /\ \A x, y \in S : upTo[x] = upTo[y] => x = y
  BY DEF IsOrder
<1>1. PICK n \in Nat : n = Cardinality(S)
  BY FS_CardinalityType
<1>2. PICK rank : rank = [x \in S |-> Cardinality(upTo[x])]
  OBVIOUS
<1>3. \A x \in S : /\ IsFiniteSet(upTo[x]) /\ rank[x] = Cardinality(upTo[x])
                   /\ rank[x] \in 1 .. n
  <2> SUFFICES ASSUME NEW x \in S
               PROVE  IsFiniteSet(upTo[x]) /\ rank[x] = Cardinality(upTo[x]) /\ rank[x] \in 1 .. n
    OBVIOUS
  <2>1. PICK u \in SUBSET S : u = upTo[x]
    BY <1>order
  <2>2. IsFiniteSet(u) /\ Cardinality(u) <= n /\ Cardinality(u) \in Nat /\ u # {}
    BY <1>order, <1>1, <2>1, FS_Subset, FS_CardinalityType
  <2>3. Cardinality(u) # 0
    BY <2>2, FS_EmptySet
  <2> QED
    BY <1>1, <1>2, <2>1, <2>2, <2>3
<1>4. \A x, y \in S : upTo[x] \subseteq upTo[y] => rank[x] <= rank[y] /\ (rank[x] = rank[y] => x = y)
  <2> SUFFICES ASSUME NEW x \in S, NEW y \in S, upTo[x] \subseteq upTo[y]
               PROVE  rank[x] <= rank[y] /\ (rank[x] = rank[y] => x = y)
    OBVIOUS
  <2>1. PICK u, v : u = upTo[x] /\ v = upTo[y]
    OBVIOUS
  <2>2. IsFiniteSet(v) /\ u \in SUBSET v
    BY <1>3, <2>1
  <2>3. Cardinality(u) <= Cardinality(v) /\ (Cardinality(v) = Cardinality(u) => v = u)
    BY <2>2, FS_Subset
  <2> QED
    BY <1>order, <1>3, <2>1, <2>3
<1>5. \A x, y \in S : rank[x] = rank[y] => x = y
  BY <1>order, <1>4
<1>6. rank \in Injection(S, 1 .. n)
  <2>1. rank \in [S -> 1 .. n]
    BY <1>2, <1>3
  <2> QED
    BY <1>2, <1>5, <2>1 DEF Injection, IsInjective
<1>7. rank \in Surjection(S, 1 .. n)
  <2>1. IsFiniteSet(1 .. n) /\ Cardinality(1 .. n) = n
    BY FS_Interval
  <2> QED
    BY <1>1, <1>6, <2>1, FS_Injection
<1>8. \A i \in 1 .. n : \E x \in S : Cardinality(upTo[x]) = i
  BY <1>3, <1>7 DEF Surjection
<1>9. o = [i \in 1 .. n |-> CHOOSE x \in S : Cardinality(upTo[x]) = i]
  BY <1>1 DEF InOrder
<1>10. \A i \in 1 .. n : o[i] \in S /\ rank[o[i]] = i
  BY <1>3, <1>8, <1>9
<1>11. o \in [1 .. n -> S]
  BY <1>9, <1>10
<1>12. \A x \in S : \E i \in 1 .. n : o[i] = x
  <2> SUFFICES ASSUME NEW x \in S PROVE \E i \in 1 .. n : o[i] = x
    OBVIOUS
  <2>1. PICK i \in 1 .. n : i = rank[x]
    BY <1>3
  <2> QED
    BY <1>5, <1>10, <2>1
<1>13. \A i, j \in 1 .. n : o[i] = o[j] => i = j
  BY <1>10
<1>14. \A i, j \in 1 .. n : i <= j => o[i] \in upTo[o[j]]
  <2> SUFFICES ASSUME NEW i \in 1 .. n, NEW j \in 1 .. n, i <= j PROVE o[i] \in upTo[o[j]]
    OBVIOUS
  <2>1. PICK x, y : x = o[i] /\ y = o[j] /\ x \in S /\ y \in S /\ rank[x] = i /\ rank[y] = j
    BY <1>10
  <2>2. upTo[x] \subseteq upTo[y] \/ x = y
    <3>1. CASE upTo[y] \subseteq upTo[x]
      <4>1. rank[y] <= rank[x]
        BY <1>4, <2>1, <3>1
      <4>2. i = j
        BY <2>1, <4>1
      <4> QED
        BY <1>10, <2>1, <4>2
    <3> QED
      BY <1>order, <2>1, <3>1
  <2> QED
    BY <1>order, <2>1, <2>2
<1> QED
  BY <1>1, <1>11, <1>12, <1>13, <1>14

\* The places n elements of an array are kept from, each once.
AreKept(array, kept, n, place) ==
  /\ place \in [1 .. n -> kept]
  /\ \A i, j \in 1 .. n : place[i] = place[j] => i = j
  /\ kept = {place[i] : i \in 1 .. n}
  /\ Keep(array, kept) = [i \in 1 .. n |-> array[place[i]]]

\* filter() keeps each of the elements once.
LEMMA KeepIs ==
  ASSUME NEW array, NEW kept, IsFiniteSet(kept), kept \subseteq Int
  PROVE  \E n \in Nat : \E place : AreKept(array, kept, n, place)
<1>1. PICK upTo : upTo = [i \in kept |-> {j \in kept : j <= i}]
  OBVIOUS
<1>2. IsOrder(kept, upTo)
  <2>1. \A x \in kept : upTo[x] = {j \in kept : j <= x}
    BY <1>1
  <2>2. \A x, y \in kept : upTo[x] \subseteq upTo[y] \/ upTo[y] \subseteq upTo[x]
    <3> SUFFICES ASSUME NEW x \in kept, NEW y \in kept
                 PROVE  upTo[x] \subseteq upTo[y] \/ upTo[y] \subseteq upTo[x]
      OBVIOUS
    <3>1. PICK X, Y : X = upTo[x] /\ Y = upTo[y]
      OBVIOUS
    <3>2. X = {j \in kept : j <= x} /\ Y = {j \in kept : j <= y}
      BY <2>1, <3>1
    <3>3. x \in Int /\ y \in Int /\ \A j \in kept : j \in Int
      OBVIOUS
    <3>4. \/ \A j \in kept : j <= x => j <= y
          \/ \A j \in kept : j <= y => j <= x
      BY <3>3
    <3>5. X \subseteq Y \/ Y \subseteq X
      BY <3>2, <3>4, Zenon
    <3> QED
      BY <3>1, <3>5
  <2>3. \A x \in kept : x \in Int /\ x \in upTo[x] /\ upTo[x] \subseteq kept
    <3>1. \A x \in kept : x \in Int /\ x <= x
      OBVIOUS
    <3>2. \A x \in kept : x \in {j \in kept : j <= x} /\ {j \in kept : j <= x} \subseteq kept
      BY <3>1
    <3> QED
      BY <2>1, <3>1, <3>2
  <2>4. \A x, y \in kept : upTo[x] = upTo[y] => x = y
    BY <2>1, <2>3
  <2> QED
    BY <2>2, <2>3, <2>4 DEF IsOrder
<1>3. PICK o : o = InOrder(kept, upTo)
  OBVIOUS
<1>4. /\ Cardinality(kept) \in Nat /\ o \in [1 .. Cardinality(kept) -> kept]
      /\ \A x \in kept : \E i \in 1 .. Cardinality(kept) : o[i] = x
      /\ \A i, j \in 1 .. Cardinality(kept) : o[i] = o[j] => i = j
  BY <1>2, <1>3, OrderIs
<1>5. Keep(array, kept) = [i \in DOMAIN o |-> array[o[i]]]
  BY <1>1, <1>3 DEF Keep
<1>6. kept = {o[i] : i \in 1 .. Cardinality(kept)}
  <2>1. PICK n \in Nat : n = Cardinality(kept)
    BY <1>4
  <2>2. \A i \in 1 .. n : o[i] \in kept
    BY <1>4, <2>1
  <2>3. \A x \in kept : \E i \in 1 .. n : o[i] = x
    BY <1>4, <2>1
  <2>4. kept = {o[i] : i \in 1 .. n}
    BY <2>2, <2>3
  <2> QED
    BY <2>1, <2>4
<1>7. Keep(array, kept) = [i \in 1 .. Cardinality(kept) |-> array[o[i]]]
  BY <1>4, <1>5
<1>8. PICK n \in Nat : n = Cardinality(kept)
  BY <1>4
<1>9. AreKept(array, kept, n, o)
  BY <1>4, <1>6, <1>7, <1>8 DEF AreKept
<1> QED
  BY <1>9

\* The elements at the places from 1 to n, sorted by a number: a stable order.
LEMMA SortedByKey ==
  ASSUME NEW n \in Nat, NEW key, \A i \in 1 .. n : key[i] \in Int, NEW upTo,
         \A i \in 1 .. n : upTo[i] = {j \in 1 .. n : key[j] < key[i] \/ (~(key[i] < key[j]) /\ j <= i)}
  PROVE  IsOrder(1 .. n, upTo)
<1> DEFINE up(j, i) == key[j] < key[i] \/ (~(key[i] < key[j]) /\ j <= i)
<1>0. \A i \in 1 .. n : upTo[i] = {j \in 1 .. n : up(j, i)}
  OBVIOUS
<1>1. \A i \in 1 .. n : up(i, i)
  OBVIOUS
<1>2. \A i, j \in 1 .. n : up(i, j) \/ up(j, i)
  OBVIOUS
<1>3. \A i, j, k \in 1 .. n : up(k, i) /\ up(i, j) => up(k, j)
  OBVIOUS
<1>4. \A i, j \in 1 .. n : up(i, j) /\ up(j, i) => i = j
  OBVIOUS
<1> HIDE DEF up
<1>5. \A i \in 1 .. n : upTo[i] \subseteq 1 .. n /\ i \in upTo[i]
  BY <1>0, <1>1
<1>6. \A i, j \in 1 .. n : up(i, j) => upTo[i] \subseteq upTo[j]
  BY <1>0, <1>3
<1>7. \A i, j \in 1 .. n : upTo[i] = upTo[j] => up(i, j) /\ up(j, i)
  BY <1>0, <1>1
<1>8. \A i, j \in 1 .. n : upTo[i] \subseteq upTo[j] \/ upTo[j] \subseteq upTo[i]
  BY <1>2, <1>6
<1>9. \A i, j \in 1 .. n : upTo[i] = upTo[j] => i = j
  BY <1>4, <1>7
<1> QED
  BY <1>5, <1>8, <1>9 DEF IsOrder

LEMMA GreatestNumber ==
  ASSUME NEW n \in Nat, NEW B \in SUBSET (1 .. n), B # {}
  PROVE  \E m \in B : \A k \in B : m >= k
<1>1. PICK C : C = {n - k : k \in B}
  OBVIOUS
<1>2. C \in SUBSET Nat /\ C # {}
  <2>1. \A k \in B : n - k \in Nat
    OBVIOUS
  <2> QED
    BY <1>1, <2>1
<1>3. PICK c \in C : \A d \in C : c <= d
  BY <1>2, LeastNumber
<1>4. PICK m \in B : c = n - m
  BY <1>1
<1>5. \A k \in B : n - k \in C
  BY <1>1
<1>6. \A k \in B : m >= k
  <2>1. \A k \in B : n - m <= n - k /\ k \in 1 .. n
    BY <1>3, <1>4, <1>5
  <2> QED
    BY <2>1
<1> QED
  BY <1>6

-----------------------------------------------------------------------------
(* A sum taken key by key. *)

\* r has for each key the sum of what is held under it.
IsByKey(r, K, f, V, key) == \A k \in K : r[k] = SumFunctionOnSet(f, {i \in V : key[i] = k})

LEMMA SumByKey ==
  ASSUME NEW V, IsFiniteSet(V), NEW f, \A i \in V : f[i] \in Int, NEW key,
         NEW K, IsFiniteSet(K), \A i \in V : key[i] \in K,
         NEW r, IsByKey(r, K, f, V, key)
  PROVE  /\ SumFunctionOnSet(r, K) = SumFunctionOnSet(f, V)
         /\ \A k \in K : r[k] \in Int
<1> DEFINE held(s) == {i \in V : key[i] \in s}
           ok(s) == SumFunctionOnSet(r, s) = SumFunctionOnSet(f, held(s))
           B == {s \in SUBSET K : ~ok(s)}
<1>by. \A k \in K : r[k] = SumFunctionOnSet(f, {i \in V : key[i] = k})
  BY DEF IsByKey
<1>0. \A k \in K : r[k] \in Int
  <2> SUFFICES ASSUME NEW k \in K PROVE r[k] \in Int
    OBVIOUS
  <2>1. PICK W \in SUBSET V : W = {i \in V : key[i] = k}
    OBVIOUS
  <2>2. IsFiniteSet(W) /\ \A i \in W : f[i] \in Int
    BY FS_Subset
  <2>3. SumFunctionOnSet(f, W) \in Int
    BY <2>2, SumType
  <2> QED
    BY <1>by, <2>1, <2>3
<1> SUFFICES ASSUME B # {} PROVE FALSE
  <2>1. held(K) = V
    OBVIOUS
  <2>2. ASSUME ~ok(K) PROVE K \in B
    BY <2>2
  <2> HIDE DEF B
  <2>3. ok(K)
    BY <2>2
  <2> QED
    BY <1>0, <2>1, <2>3
<1>1. PICK s \in B : \A t \in B : ~(t \subseteq s /\ t # s)
  <2>1. B \in SUBSET (SUBSET K)
    OBVIOUS
  <2> HIDE DEF B
  <2> QED
    BY <2>1, Smallest
<1>2. s \in SUBSET K /\ SumFunctionOnSet(r, s) # SumFunctionOnSet(f, held(s))
  OBVIOUS
<1>3. s # {}
  <2> SUFFICES ASSUME s = {} PROVE FALSE
    OBVIOUS
  <2>1. held(s) = {}
    OBVIOUS
  <2> HIDE DEF held
  <2> QED
    BY <1>2, <2>1, SumEmpty
<1>4. PICK y \in s : TRUE
  BY <1>3
<1>5. PICK rest \in SUBSET K : rest = s \ {y}
  BY <1>2
<1>6. PICK all, of, others : all = held(s) /\ of = {i \in V : key[i] = y} /\ others = held(rest)
  OBVIOUS
<1>7. /\ all \in SUBSET V /\ others = all \ of /\ of = of \cap all
      /\ y \in K /\ rest \subseteq s /\ rest # s
  BY <1>2, <1>4, <1>5, <1>6
<1>8. SumFunctionOnSet(r, rest) = SumFunctionOnSet(f, others)
  BY <1>1, <1>5, <1>6, <1>7
<1>9. IsFiniteSet(all) /\ IsFiniteSet(s) /\ (\A i \in all : f[i] \in Int) /\ (\A k \in s : r[k] \in Int)
  BY <1>0, <1>2, <1>7, FS_Subset
<1> HIDE DEF B, ok, held
<1>10. SumFunctionOnSet(f, all) = SumFunctionOnSet(f, others) + SumFunctionOnSet(f, of)
  <2>1. SumFunctionOnSet(f, all) = SumFunctionOnSet(f, all \ of) + SumFunctionOnSet(f, of \cap all)
    BY <1>9, SumSplit
  <2> QED
    BY <1>7, <2>1
<1>11. SumFunctionOnSet(r, s) = r[y] + SumFunctionOnSet(r, rest)
  BY <1>4, <1>5, <1>9, SumRemove
<1>12. r[y] = SumFunctionOnSet(f, of)
  BY <1>by, <1>6, <1>7
<1>13. IsFiniteSet(of) /\ IsFiniteSet(others) /\ of \subseteq V /\ others \subseteq V
  BY <1>6, <1>7, <1>9, FS_Subset
<1>14. SumFunctionOnSet(f, of) \in Int /\ SumFunctionOnSet(f, others) \in Int
  BY <1>13, SumType
<1> QED
  BY <1>2, <1>6, <1>8, <1>10, <1>11, <1>12, <1>14

===============================================================================

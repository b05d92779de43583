---------------------------- MODULE SumTheorems ----------------------------
(***************************************************************************)
(* Sums of a function over a finite set, as the models write them (the     *)
(* folds of Functions), for the proofs about money.                        *)
(*                                                                         *)
(* A fold is a recursive function over the subsets of its set, so a fact   *)
(* about it needs an induction over finite sets.  The library's induction  *)
(* theorems take the property as an operator argument, which the provers   *)
(* cannot instantiate; here an induction is a minimal counterexample       *)
(* instead (SmallestBad): a set of counterexamples is an ordinary set, and *)
(* strict inclusion is well-founded on the subsets of a finite set.        *)
(***************************************************************************)
EXTENDS Integers, FiniteSetTheorems, WellFoundedInduction, TLAPS

Fn == INSTANCE Functions

SumOver(f, S) == Fn!SumFunctionOnSet(f, S)

-----------------------------------------------------------------------------
(* Induction over the subsets of a finite set *)

\* If some subset of a finite set is bad, one is bad that has no bad part.
LEMMA SmallestBad ==
    ASSUME NEW S, IsFiniteSet(S), NEW Bad, Bad \subseteq SUBSET S, Bad # {}
    PROVE  \E T \in Bad : \A U \in SUBSET T : U # T => U \notin Bad
<1>1. IsWellFoundedOn(StrictSubsetOrdering(S), SUBSET S)
  BY FS_StrictSubsetOrderingWellFounded, FS_FiniteSubsetsOfFinite
<1>2. PICK T \in Bad : \A U \in Bad : ~ (<<U, T>> \in StrictSubsetOrdering(S))
  BY <1>1, WFMin
<1> QED BY <1>2 DEF StrictSubsetOrdering

-----------------------------------------------------------------------------
(* The recursion that computes a sum *)

\* The element that a fold takes out of s first, and what it leaves.
PickOf(s) == CHOOSE x \in s : TRUE

Rest(s) == s \ {PickOf(s)}

\* iter obeys the fold's recursion on every subset of D.
Computes(iter, f, D) ==
    \A s \in SUBSET D :
       iter[s] = IF s = {} THEN 0 ELSE f[PickOf(s)] + iter[Rest(s)]

\* The function that the fold defines by that recursion.
SumIter(f, D) ==
    CHOOSE iter : iter = [s \in SUBSET D |->
        IF s = {} THEN 0 ELSE f[PickOf(s)] + iter[Rest(s)]]

LEMMA PickIsIn == \A s : s # {} => PickOf(s) \in s
BY DEF PickOf

\* The recursion has one result, which depends on the summands only.
LEMMA IterationIsUnique ==
    ASSUME NEW T, IsFiniteSet(T), NEW f, NEW g, \A x \in T : f[x] = g[x],
           NEW i, Computes(i, f, T), NEW j, Computes(j, g, T)
    PROVE  i[T] = j[T]
<1> DEFINE Bad == {s \in SUBSET T : i[s] # j[s]}
<1> SUFFICES ASSUME Bad # {} PROVE FALSE
  OBVIOUS
<1>0. Bad \subseteq SUBSET T
  OBVIOUS
<1>1. PICK s \in Bad : \A u \in SUBSET s : u # s => u \notin Bad
  <2> HIDE DEF Bad
  <2> QED BY <1>0, SmallestBad
<1>2. s # {}
  BY DEF Computes
<1>3. PickOf(s) \in s /\ Rest(s) \in SUBSET s /\ Rest(s) # s
  BY <1>2, PickIsIn DEF Rest
<1>4. i[Rest(s)] = j[Rest(s)]
  BY <1>1, <1>3
<1>5. f[PickOf(s)] = g[PickOf(s)]
  BY <1>3
<1>6. /\ i[s] = f[PickOf(s)] + i[Rest(s)]
      /\ j[s] = g[PickOf(s)] + j[Rest(s)]
  BY <1>2 DEF Computes
<1> QED BY <1>4, <1>5, <1>6

LEMMA ComputesSubset ==
    ASSUME NEW iter, NEW f, NEW D, Computes(iter, f, D), NEW T \in SUBSET D
    PROVE  Computes(iter, f, T)
BY DEF Computes

\* The recursion has a result: otherwise take a smallest set without one, and
\* extend the results of its parts.
LEMMA IterationExists ==
    ASSUME NEW D, IsFiniteSet(D), NEW f
    PROVE  Computes(SumIter(f, D), f, D)
<1> DEFINE Bad == {s \in SUBSET D : ~Computes(SumIter(f, s), f, s)}
<1> SUFFICES ASSUME Bad # {} PROVE FALSE
  OBVIOUS
<1>0. Bad \subseteq SUBSET D
  OBVIOUS
<1>1. PICK T \in Bad : \A u \in SUBSET T : u # T => u \notin Bad
  <2> HIDE DEF Bad
  <2> QED BY <1>0, SmallestBad
<1> DEFINE h == [s \in SUBSET T |-> SumIter(f, s)[s]]
           k == [s \in SUBSET T |-> IF s = T /\ T # {} THEN f[PickOf(T)] + h[Rest(T)] 
                                    ELSE IF s = {} THEN 0 ELSE h[s]]
           Body(i) == [s \in SUBSET T |->
                         IF s = {} THEN 0 ELSE f[PickOf(s)] + i[Rest(s)]]
<1>2. ASSUME NEW s \in SUBSET T, s # {}
      PROVE  k[s] = f[PickOf(s)] + k[Rest(s)]
  <2>1. PickOf(s) \in s /\ Rest(s) \in SUBSET T /\ Rest(s) # T /\ Rest(s) \in SUBSET s
    BY <1>2, PickIsIn DEF Rest
  <2>2. Computes(SumIter(f, Rest(s)), f, Rest(s))
    BY <1>1, <2>1
  <2>3. k[Rest(s)] = h[Rest(s)]
    <3>1. CASE Rest(s) = {}
      BY <2>1, <2>2, <3>1 DEF Computes
    <3>2. CASE Rest(s) # {}
      BY <2>1, <3>2
    <3> QED BY <3>1, <3>2
  <2>4. CASE s = T
    BY <2>3, <2>4, <1>2
  <2>5. CASE s # T
    <3>1. Computes(SumIter(f, s), f, s)
      BY <1>1, <2>5
    <3>2. SumIter(f, s)[s] = f[PickOf(s)] + SumIter(f, s)[Rest(s)]
      BY <3>1, <1>2 DEF Computes
    <3>3. Computes(SumIter(f, s), f, Rest(s))
      BY <3>1, <2>1, ComputesSubset
    <3>4. IsFiniteSet(Rest(s))
      BY <2>1, FS_Subset
    <3>5. SumIter(f, s)[Rest(s)] = SumIter(f, Rest(s))[Rest(s)]
      BY <3>3, <3>4, <2>2, IterationIsUnique
    <3>6. SumIter(f, Rest(s))[Rest(s)] = h[Rest(s)]
      BY <2>1
    <3>7. k[s] = SumIter(f, s)[s]
      BY <2>5, <1>2
    <3> HIDE DEF h, k
    <3> QED BY <3>2, <3>5, <3>6, <3>7, <2>3
  <2> QED BY <2>4, <2>5
<1>3. k = Body(k)
  <2>1. k = [s \in SUBSET T |-> k[s]]
    OBVIOUS
  <2>2. \A s \in SUBSET T : k[s] = IF s = {} THEN 0 ELSE f[PickOf(s)] + k[Rest(s)]
    <3>1. {} \in SUBSET T => k[{}] = 0
      OBVIOUS
    <3> HIDE DEF k
    <3> QED BY <1>2, <3>1
  <2> HIDE DEF k
  <2> QED BY <2>1, <2>2
<1>4. SumIter(f, T) = Body(SumIter(f, T))
  <2> HIDE DEF k
  <2>1. \E i : i = Body(i)
    BY <1>3
  <2> QED BY <2>1 DEF SumIter
<1>5. Computes(SumIter(f, T), f, T)
  <2> DEFINE it == SumIter(f, T)
  <2>1. it = Body(it)
    BY <1>4
  <2> HIDE DEF it
  <2>2. Computes(it, f, T)
    BY <2>1 DEF Computes
  <2> QED BY <2>2 DEF it
<1> QED BY <1>1, <1>5

\* A sum is what the recursion computes.
LEMMA SumIsIteration ==
    ASSUME NEW f, NEW D
    PROVE  SumOver(f, D) = SumIter(f, D)[D]
BY DEF SumOver, Fn!SumFunctionOnSet, Fn!FoldFunctionOnSet, Fn!MapThenFoldSet,
       SumIter, PickOf, Rest

-----------------------------------------------------------------------------
(* Sums *)

\* One step of a sum.
LEMMA SumUnfolds ==
    ASSUME NEW f, NEW T, IsFiniteSet(T), T # {}
    PROVE  SumOver(f, T) = f[PickOf(T)] + SumOver(f, Rest(T))
<1>1. PickOf(T) \in T /\ Rest(T) \in SUBSET T /\ IsFiniteSet(Rest(T))
  BY PickIsIn, FS_Subset DEF Rest
<1>2. SumIter(f, T)[T] = f[PickOf(T)] + SumIter(f, T)[Rest(T)]
  BY IterationExists DEF Computes
<1>3. SumIter(f, T)[Rest(T)] = SumIter(f, Rest(T))[Rest(T)]
  BY <1>1, IterationExists, ComputesSubset, IterationIsUnique
<1> QED BY <1>2, <1>3, SumIsIteration

LEMMA SumEmpty == \A f : SumOver(f, {}) = 0
<1>1. IsFiniteSet({})
  BY FS_EmptySet
<1> QED BY <1>1, IterationExists, SumIsIteration DEF Computes

\* A sum depends on its summands only.
LEMMA SumCongruence ==
    ASSUME NEW T, IsFiniteSet(T), NEW f, NEW g, \A x \in T : f[x] = g[x]
    PROVE  SumOver(f, T) = SumOver(g, T)
BY IterationExists, IterationIsUnique, SumIsIteration

\* Sums of integers are integers, and of naturals naturals.
LEMMA SumIsInt ==
    ASSUME NEW T, IsFiniteSet(T), NEW f, \A x \in T : f[x] \in Int
    PROVE  SumOver(f, T) \in Int
<1> DEFINE Bad == {s \in SUBSET T : SumOver(f, s) \notin Int}
<1> SUFFICES ASSUME Bad # {} PROVE FALSE
  OBVIOUS
<1>0. Bad \subseteq SUBSET T
  OBVIOUS
<1>1. PICK s \in Bad : \A u \in SUBSET s : u # s => u \notin Bad
  <2> HIDE DEF Bad
  <2> QED BY <1>0, SmallestBad
<1>2. s # {}
  BY SumEmpty
<1>3. PickOf(s) \in s /\ Rest(s) \in SUBSET s /\ Rest(s) # s /\ IsFiniteSet(s)
  BY <1>2, PickIsIn, FS_Subset DEF Rest
<1>4. SumOver(f, s) = f[PickOf(s)] + SumOver(f, Rest(s))
  BY <1>2, <1>3, SumUnfolds
<1> QED BY <1>1, <1>3, <1>4

LEMMA SumIsNat ==
    ASSUME NEW T, IsFiniteSet(T), NEW f, \A x \in T : f[x] \in Nat
    PROVE  SumOver(f, T) \in Nat
<1> DEFINE Bad == {s \in SUBSET T : SumOver(f, s) \notin Nat}
<1> SUFFICES ASSUME Bad # {} PROVE FALSE
  OBVIOUS
<1>0. Bad \subseteq SUBSET T
  OBVIOUS
<1>1. PICK s \in Bad : \A u \in SUBSET s : u # s => u \notin Bad
  <2> HIDE DEF Bad
  <2> QED BY <1>0, SmallestBad
<1>2. s # {}
  BY SumEmpty
<1>3. PickOf(s) \in s /\ Rest(s) \in SUBSET s /\ Rest(s) # s /\ IsFiniteSet(s)
  BY <1>2, PickIsIn, FS_Subset DEF Rest
<1>4. SumOver(f, s) = f[PickOf(s)] + SumOver(f, Rest(s))
  BY <1>2, <1>3, SumUnfolds
<1> QED BY <1>1, <1>3, <1>4

\* Any element may be taken out first.
LEMMA SumRemove ==
    ASSUME NEW T, IsFiniteSet(T), NEW f, \A x \in T : f[x] \in Int, NEW y \in T
    PROVE  SumOver(f, T) = f[y] + SumOver(f, T \ {y})
<1> DEFINE Good(s) == \A x \in s : SumOver(f, s) = f[x] + SumOver(f, s \ {x})
           Bad == {s \in SUBSET T : ~Good(s)}
<1> SUFFICES ASSUME Bad # {} PROVE FALSE
  OBVIOUS
<1>0. Bad \subseteq SUBSET T
  OBVIOUS
<1>1. PICK s \in Bad : \A u \in SUBSET s : u # s => u \notin Bad
  <2> HIDE DEF Bad
  <2> QED BY <1>0, SmallestBad
<1>2. PICK x \in s : SumOver(f, s) # f[x] + SumOver(f, s \ {x})
  BY <1>1
<1> DEFINE c == PickOf(s)
<1>3. c \in s /\ IsFiniteSet(s) /\ SumOver(f, s) = f[c] + SumOver(f, s \ {c})
  BY <1>2, PickIsIn, FS_Subset, SumUnfolds DEF Rest
<1>4. x # c
  BY <1>2, <1>3
<1> DEFINE both == (s \ {c}) \ {x}
<1>5. SumOver(f, s \ {c}) = f[x] + SumOver(f, both)
  BY <1>1, <1>2, <1>3, <1>4
<1>6. SumOver(f, s \ {x}) = f[c] + SumOver(f, (s \ {x}) \ {c})
  BY <1>1, <1>2, <1>3, <1>4
<1>7. both = (s \ {x}) \ {c} /\ both \in SUBSET T
  OBVIOUS
<1>8. f[c] \in Int /\ f[x] \in Int /\ SumOver(f, both) \in Int
  BY <1>3, <1>7, SumIsInt, FS_Subset
<1> HIDE DEF both, c
<1> QED BY <1>2, <1>3, <1>5, <1>6, <1>7, <1>8

LEMMA SumInsert ==
    ASSUME NEW T, IsFiniteSet(T), NEW y, y \notin T,
           NEW f, \A x \in T \cup {y} : f[x] \in Int
    PROVE  SumOver(f, T \cup {y}) = f[y] + SumOver(f, T)
<1>1. IsFiniteSet(T \cup {y}) /\ (T \cup {y}) \ {y} = T
  BY FS_AddElement
<1> QED BY <1>1, SumRemove

\* One summand changes.
LEMMA SumUpdate ==
    ASSUME NEW T, IsFiniteSet(T), NEW y \in T,
           NEW f, \A x \in T : f[x] \in Int,
           NEW g, \A x \in T \ {y} : g[x] = f[x], g[y] \in Int
    PROVE  SumOver(g, T) = SumOver(f, T) - f[y] + g[y]
<1>1. IsFiniteSet(T \ {y})
  BY FS_Subset
<1>2. SumOver(g, T \ {y}) = SumOver(f, T \ {y}) /\ SumOver(f, T \ {y}) \in Int
  BY <1>1, SumCongruence, SumIsInt
<1>3. SumOver(g, T) = g[y] + SumOver(g, T \ {y})
  BY SumRemove
<1>4. SumOver(f, T) = f[y] + SumOver(f, T \ {y})
  BY SumRemove
<1> QED BY <1>2, <1>3, <1>4

\* The sum of two functions.
LEMMA SumPlus ==
    ASSUME NEW T, IsFiniteSet(T), NEW f, NEW g, NEW h,
           \A x \in T : f[x] \in Int /\ g[x] \in Int /\ h[x] = f[x] + g[x]
    PROVE  SumOver(h, T) = SumOver(f, T) + SumOver(g, T)
<1> DEFINE Bad == {s \in SUBSET T : SumOver(h, s) # SumOver(f, s) + SumOver(g, s)}
<1> SUFFICES ASSUME Bad # {} PROVE FALSE
  OBVIOUS
<1>0. Bad \subseteq SUBSET T
  OBVIOUS
<1>1. PICK s \in Bad : \A u \in SUBSET s : u # s => u \notin Bad
  <2> HIDE DEF Bad
  <2> QED BY <1>0, SmallestBad
<1>2. s # {}
  <2>1. SumOver(h, {}) = SumOver(f, {}) + SumOver(g, {})
    BY SumEmpty
  <2> QED BY <2>1
<1>3. PickOf(s) \in s /\ Rest(s) \in SUBSET s /\ Rest(s) # s
  BY <1>2, PickIsIn DEF Rest
<1>4. IsFiniteSet(s) /\ IsFiniteSet(Rest(s))
  BY <1>3, FS_Subset
<1>5. /\ SumOver(f, s) = f[PickOf(s)] + SumOver(f, Rest(s))
      /\ SumOver(g, s) = g[PickOf(s)] + SumOver(g, Rest(s))
      /\ SumOver(h, s) = h[PickOf(s)] + SumOver(h, Rest(s))
  BY <1>2, <1>4, SumUnfolds
<1>6. SumOver(f, Rest(s)) \in Int /\ SumOver(g, Rest(s)) \in Int
  BY <1>3, <1>4, SumIsInt
<1>7. SumOver(h, Rest(s)) = SumOver(f, Rest(s)) + SumOver(g, Rest(s))
  BY <1>1, <1>3
<1> QED BY <1>1, <1>3, <1>5, <1>6, <1>7

LEMMA SumOfZeros ==
    ASSUME NEW T, IsFiniteSet(T), NEW f, \A x \in T : f[x] = 0
    PROVE  SumOver(f, T) = 0
<1>1. SumOver(f, T) \in Int
  BY SumIsInt
<1>2. \A x \in T : f[x] \in Int /\ f[x] = f[x] + f[x]
  OBVIOUS
<1>3. SumOver(f, T) = SumOver(f, T) + SumOver(f, T)
  BY <1>2, SumPlus
<1>4. \A s \in Int : s = s + s => s = 0
  OBVIOUS
<1> QED BY <1>1, <1>3, <1>4

LEMMA SumSingleton ==
    ASSUME NEW f, NEW x, f[x] \in Int
    PROVE  SumOver(f, {x}) = f[x]
<1>1. IsFiniteSet({x}) /\ {x} # {}
  BY FS_Singleton
<1>2. PickOf({x}) = x /\ Rest({x}) = {}
  BY PickIsIn DEF Rest
<1>3. SumOver(f, {x}) = f[x] + SumOver(f, {})
  BY <1>1, <1>2, SumUnfolds
<1> QED BY <1>3, SumEmpty

\* Larger summands make a larger sum.
LEMMA SumMonotone ==
    ASSUME NEW T, IsFiniteSet(T), NEW f, NEW g,
           \A x \in T : f[x] \in Int /\ g[x] \in Int /\ f[x] <= g[x]
    PROVE  SumOver(f, T) <= SumOver(g, T)
<1> DEFINE d == [x \in T |-> g[x] - f[x]]
<1>1. \A x \in T : d[x] \in Nat
  OBVIOUS
<1>2. SumOver(d, T) \in Nat
  BY <1>1, SumIsNat
<1>3. \A x \in T : f[x] \in Int /\ d[x] \in Int /\ g[x] = f[x] + d[x]
  OBVIOUS
<1> HIDE DEF d
<1>4. SumOver(g, T) = SumOver(f, T) + SumOver(d, T)
  BY <1>3, SumPlus
<1> QED BY <1>2, <1>4, SumIsInt

\* Summands that are zero may be left out.
LEMMA SumSubset ==
    ASSUME NEW T, IsFiniteSet(T), NEW S \in SUBSET T, NEW f,
           \A x \in S : f[x] \in Int, \A x \in T \ S : f[x] = 0
    PROVE  SumOver(f, T) = SumOver(f, S)
<1> DEFINE Bad == {s \in SUBSET T : S \subseteq s /\ SumOver(f, s) # SumOver(f, S)}
<1> SUFFICES ASSUME Bad # {} PROVE FALSE
  OBVIOUS
<1>0. Bad \subseteq SUBSET T
  OBVIOUS
<1>1. PICK s \in Bad : \A u \in SUBSET s : u # s => u \notin Bad
  <2> HIDE DEF Bad
  <2> QED BY <1>0, SmallestBad
<1>2. PICK x \in s : x \notin S
  <2>1. S \subseteq s /\ S # s
    OBVIOUS
  <2> QED BY <2>1
<1>3. IsFiniteSet(s) /\ \A y \in s : f[y] \in Int
  BY FS_Subset
<1>4. SumOver(f, s) = f[x] + SumOver(f, s \ {x})
  BY <1>2, <1>3, SumRemove
<1>5. SumOver(f, s \ {x}) = SumOver(f, S)
  BY <1>1, <1>2
<1>6. SumOver(f, S) \in Int
  BY FS_Subset, SumIsInt
<1> QED BY <1>1, <1>2, <1>4, <1>5, <1>6

\* A sum with one summand that is not zero.
LEMMA SumAtOne ==
    ASSUME NEW T, IsFiniteSet(T), NEW y \in T, NEW f,
           f[y] \in Int, \A x \in T \ {y} : f[x] = 0
    PROVE  SumOver(f, T) = f[y]
<1>1. {y} \in SUBSET T /\ \A x \in {y} : f[x] \in Int
  OBVIOUS
<1>2. SumOver(f, T) = SumOver(f, {y})
  BY <1>1, SumSubset
<1> QED BY <1>2, SumSingleton

\* What is sent to each of several owners, summed over the owners, is what is
\* sent.
LEMMA SumByOwner ==
    ASSUME NEW A, IsFiniteSet(A), NEW I, IsFiniteSet(I),
           NEW owner, \A i \in I : owner[i] \in A,
           NEW amount, \A i \in I : amount[i] \in Int,
           NEW share, NEW total,
           \A a \in A, i \in I : share[a][i] = IF owner[i] = a THEN amount[i] ELSE 0,
           \A a \in A : total[a] = SumOver(share[a], I)
    PROVE  SumOver(total, A) = SumOver(amount, I)
<1> DEFINE upTo(s) == [a \in A |-> SumOver(share[a], s)]
           Bad == {s \in SUBSET I : SumOver(upTo(s), A) # SumOver(amount, s)}
<1>a. Bad \subseteq SUBSET I
  OBVIOUS
<1>0. ASSUME Bad # {} PROVE FALSE
  <2>1. PICK s \in Bad : \A u \in SUBSET s : u # s => u \notin Bad
    <3> HIDE DEF Bad
    <3> QED BY <1>a, <1>0, SmallestBad
  <2>2. s # {}
    <3>1. \A a \in A : upTo({})[a] = 0
      BY SumEmpty
    <3> HIDE DEF upTo
    <3>2. SumOver(upTo({}), A) = 0
      BY <3>1, SumOfZeros
    <3> USE DEF upTo
    <3> QED BY <3>2, <2>1, SumEmpty
  <2> DEFINE x == PickOf(s)
             r == s \ {x}
  <2>3. x \in s /\ r \in SUBSET s /\ r # s /\ owner[x] \in A
    BY <2>2, PickIsIn
  <2>4. IsFiniteSet(s) /\ IsFiniteSet(r)
    BY <2>3, FS_Subset
  <2>5. SumOver(amount, s) = amount[x] + SumOver(amount, r)
    BY <2>3, <2>4, SumRemove
  <2>6. \A a \in A, i \in I : share[a][i] \in Int
    OBVIOUS
  <2>7. \A a \in A : SumOver(share[a], r) \in Int
    BY <2>3, <2>4, <2>6, SumIsInt
  <2>8. \A a \in A : SumOver(share[a], s) = share[a][x] + SumOver(share[a], r)
    BY <2>3, <2>4, <2>6, SumRemove
  <2>e. \A a \in A : share[a][x] = IF owner[x] = a THEN amount[x] ELSE 0
    BY <2>3
  <2>f. /\ \A a \in A : upTo(r)[a] \in Int /\ upTo(s)[a] = share[a][x] + upTo(r)[a]
        /\ amount[x] \in Int
    BY <2>3, <2>7, <2>8
  <2>9. SumOver(upTo(r), A) = SumOver(amount, r)
    BY <2>1, <2>3
  <2>10. SumOver(upTo(s), A) = SumOver(upTo(r), A) - upTo(r)[owner[x]] + upTo(s)[owner[x]]
    <3> HIDE DEF upTo, x, r
    <3>1. \A a \in A \ {owner[x]} : upTo(s)[a] = upTo(r)[a]
      BY <2>e, <2>f
    <3>2. upTo(s)[owner[x]] \in Int
      BY <2>3, <2>e, <2>f
    <3> QED BY <3>1, <3>2, <2>3, <2>f, SumUpdate
  <2>11. upTo(s)[owner[x]] = upTo(r)[owner[x]] + amount[x] /\ upTo(r)[owner[x]] \in Int
    <3> HIDE DEF upTo, x, r
    <3> QED BY <2>3, <2>e, <2>f
  <2>12. SumOver(amount, r) \in Int /\ amount[x] \in Int
    BY <2>3, <2>4, SumIsInt
  <2>13. SumOver(upTo(s), A) # SumOver(amount, s)
    BY <2>1
  <2> HIDE DEF upTo, x, r
  <2> QED BY <2>5, <2>9, <2>10, <2>11, <2>12, <2>13
<1>1. SumOver(upTo(I), A) = SumOver(amount, I)
  BY <1>0
<1>2. SumOver(upTo(I), A) = SumOver(total, A)
  <2>1. \A a \in A : upTo(I)[a] = total[a]
    OBVIOUS
  <2> HIDE DEF upTo
  <2> QED BY <2>1, SumCongruence
<1> QED BY <1>1, <1>2

\* h numbers the elements of I by those of A.
Renumbers(h, I, A) ==
    /\ \A i \in I : h[i] \in A
    /\ \A a \in A : \E i \in I : h[i] = a
    /\ \A i, j \in I : h[i] = h[j] => i = j

\* A sum does not depend on how its summands are numbered.
LEMMA SumReindex ==
    ASSUME NEW I, IsFiniteSet(I), NEW A, IsFiniteSet(A),
           NEW h, Renumbers(h, I, A),
           NEW f, NEW g, \A i \in I : f[i] \in Int /\ f[i] = g[h[i]]
    PROVE  SumOver(f, I) = SumOver(g, A)
<1> DEFINE share == [a \in A |-> [i \in I |-> IF h[i] = a THEN f[i] ELSE 0]]
<1>1. \A a \in A, i \in I : share[a][i] = IF h[i] = a THEN f[i] ELSE 0
  OBVIOUS
<1> HIDE DEF share
<1>2. ASSUME NEW a \in A
      PROVE  g[a] = SumOver(share[a], I)
  <2>1. PICK i \in I : h[i] = a
    BY DEF Renumbers
  <2>2. /\ share[a][i] = g[a] /\ share[a][i] \in Int
        /\ \A j \in I \ {i} : share[a][j] = 0
    BY <1>1, <2>1 DEF Renumbers
  <2>3. SumOver(share[a], I) = SumOver(share[a], {i})
    <3>1. {i} \in SUBSET I /\ \A x \in {i} : share[a][x] \in Int
      BY <2>2
    <3>2. \A x \in I \ {i} : share[a][x] = 0
      BY <2>2
    <3> QED BY <3>1, <3>2, SumSubset
  <2>4. SumOver(share[a], {i}) = share[a][i]
    BY <2>2, SumSingleton
  <2> QED BY <2>2, <2>3, <2>4
<1>3. \A i \in I : f[i] \in Int
  OBVIOUS
<1>4. SumOver(g, A) = SumOver(f, I)
  BY <1>1, <1>2, <1>3, SumByOwner DEF Renumbers
<1> QED BY <1>4

\* A common factor.
LEMMA SumScale ==
    ASSUME NEW T, IsFiniteSet(T), NEW c \in Int,
           NEW f, \A x \in T : f[x] \in Int,
           NEW g, \A x \in T : g[x] = c * f[x]
    PROVE  SumOver(g, T) = c * SumOver(f, T)
<1> DEFINE Bad == {s \in SUBSET T : SumOver(g, s) # c * SumOver(f, s)}
<1> SUFFICES ASSUME Bad # {} PROVE FALSE
  OBVIOUS
<1>0. Bad \subseteq SUBSET T
  OBVIOUS
<1>1. PICK s \in Bad : \A u \in SUBSET s : u # s => u \notin Bad
  <2> HIDE DEF Bad
  <2> QED BY <1>0, SmallestBad
<1>2. s # {}
  <2>1. SumOver(g, {}) = 0 /\ SumOver(f, {}) = 0 /\ c * 0 = 0
    BY SumEmpty
  <2>2. SumOver(g, s) # c * SumOver(f, s)
    BY <1>1
  <2> QED BY <2>1, <2>2
<1> DEFINE x == PickOf(s)
           r == s \ {x}
<1>3. x \in s /\ r \in SUBSET s /\ r # s
  BY <1>2, PickIsIn
<1>4. /\ IsFiniteSet(s) /\ IsFiniteSet(r)
      /\ (\A y \in s : f[y] \in Int) /\ \A y \in s : g[y] \in Int
  BY <1>3, FS_Subset
<1>5. /\ SumOver(f, s) = f[x] + SumOver(f, r)
      /\ SumOver(g, s) = g[x] + SumOver(g, r)
  BY <1>3, <1>4, SumRemove
<1>6. SumOver(g, r) = c * SumOver(f, r)
  BY <1>1, <1>3
<1>7. f[x] \in Int /\ SumOver(f, r) \in Int /\ g[x] = c * f[x]
  <2>1. \A y \in r : f[y] \in Int
    BY <1>3, <1>4
  <2> HIDE DEF x
  <2>2. SumOver(f, r) \in Int
    BY <1>4, <2>1, SumIsInt
  <2> QED BY <1>3, <1>4, <2>2
<1>8. SumOver(g, s) # c * SumOver(f, s)
  BY <1>1
<1> HIDE DEF x, r
<1>9. \A m, n \in Int : c * (m + n) = c * m + c * n
  OBVIOUS
<1> QED BY <1>5, <1>6, <1>7, <1>8, <1>9

\* Equal summands.
LEMMA SumOfSame ==
    ASSUME NEW T, IsFiniteSet(T), NEW c \in Int, NEW f, \A x \in T : f[x] = c
    PROVE  SumOver(f, T) = c * Cardinality(T)
<1> DEFINE Bad == {s \in SUBSET T : SumOver(f, s) # c * Cardinality(s)}
<1> SUFFICES ASSUME Bad # {} PROVE FALSE
  OBVIOUS
<1>0. Bad \subseteq SUBSET T
  OBVIOUS
<1>1. PICK s \in Bad : \A u \in SUBSET s : u # s => u \notin Bad
  <2> HIDE DEF Bad
  <2> QED BY <1>0, SmallestBad
<1>2. s # {}
  <2>1. SumOver(f, {}) = 0 /\ Cardinality({}) = 0 /\ c * 0 = 0
    BY SumEmpty, FS_EmptySet
  <2>2. SumOver(f, s) # c * Cardinality(s)
    BY <1>1
  <2> QED BY <2>1, <2>2
<1> DEFINE x == PickOf(s)
           r == s \ {x}
<1>3. x \in s /\ r \in SUBSET s /\ r # s
  BY <1>2, PickIsIn
<1>4. IsFiniteSet(s) /\ IsFiniteSet(r) /\ \A y \in s : f[y] \in Int
  BY <1>3, FS_Subset
<1>5. SumOver(f, s) = f[x] + SumOver(f, r)
  BY <1>3, <1>4, SumRemove
<1>6. SumOver(f, r) = c * Cardinality(r)
  BY <1>1, <1>3
<1>7. Cardinality(s) \in Nat /\ Cardinality(r) = Cardinality(s) - 1
  BY <1>3, <1>4, FS_CardinalityType, FS_RemoveElement
<1>8. SumOver(f, s) # c * Cardinality(s) /\ f[x] = c
  BY <1>1, <1>3
<1> HIDE DEF x, r
<1>9. \A n \in Nat : c + c * (n - 1) = c * n
  OBVIOUS
<1> QED BY <1>5, <1>6, <1>7, <1>8, <1>9

-----------------------------------------------------------------------------
(* Sums of a function over its whole domain *)

SumOf(f) == SumOver(f, DOMAIN f)

LEMMA SumOfIsInt ==
    ASSUME NEW f, IsFiniteSet(DOMAIN f), \A x \in DOMAIN f : f[x] \in Int
    PROVE  SumOf(f) \in Int
BY SumIsInt DEF SumOf

LEMMA SumOfIsNat ==
    ASSUME NEW f, IsFiniteSet(DOMAIN f), \A x \in DOMAIN f : f[x] \in Nat
    PROVE  SumOf(f) \in Nat
BY SumIsNat DEF SumOf

\* A function that grows by one entry.
LEMMA SumGrows ==
    ASSUME NEW f, IsFiniteSet(DOMAIN f), NEW y, y \notin DOMAIN f,
           NEW g, DOMAIN g = DOMAIN f \cup {y},
           \A x \in DOMAIN f : f[x] \in Int /\ g[x] = f[x],
           g[y] \in Int
    PROVE  SumOf(g) = SumOf(f) + g[y]
<1>1. \A x \in DOMAIN f \cup {y} : g[x] \in Int
  OBVIOUS
<1>2. SumOver(g, DOMAIN f \cup {y}) = g[y] + SumOver(g, DOMAIN f)
  BY <1>1, SumInsert
<1>3. SumOver(g, DOMAIN f) = SumOver(f, DOMAIN f)
  BY SumCongruence
<1>4. SumOver(f, DOMAIN f) \in Int
  BY SumIsInt
<1> QED BY <1>2, <1>3, <1>4 DEF SumOf

\* A function one of whose values changes.
LEMMA SumChanges ==
    ASSUME NEW f, IsFiniteSet(DOMAIN f), NEW y \in DOMAIN f,
           NEW g, DOMAIN g = DOMAIN f,
           \A x \in DOMAIN f : f[x] \in Int,
           \A x \in DOMAIN f \ {y} : g[x] = f[x], g[y] \in Int
    PROVE  SumOf(g) = SumOf(f) - f[y] + g[y]
BY SumUpdate DEF SumOf

\* A function whose values all grow by those of another.
LEMMA SumAdds ==
    ASSUME NEW f, IsFiniteSet(DOMAIN f), NEW d, DOMAIN d = DOMAIN f,
           NEW g, DOMAIN g = DOMAIN f,
           \A x \in DOMAIN f : f[x] \in Int /\ d[x] \in Int /\ g[x] = f[x] + d[x]
    PROVE  SumOf(g) = SumOf(f) + SumOf(d)
BY SumPlus DEF SumOf

\* The sum of a list that got a new head.
LEMMA SumOfConcat ==
    ASSUME NEW n \in Nat, NEW p, NEW f, DOMAIN f = 1..n, p \in Int,
           \A i \in 1..n : f[i] \in Int,
           NEW g, DOMAIN g = 1..(n + 1), g[1] = p,
           \A i \in 1..n : g[i + 1] = f[i]
    PROVE  SumOf(g) = p + SumOf(f)
<1> DEFINE later == 2..(n + 1)
           h == [i \in later |-> i - 1]
<1>1. IsFiniteSet(1..n) /\ IsFiniteSet(later) /\ 1 \notin later
  BY FS_Interval
<1>2. 1..(n + 1) = later \cup {1}
  OBVIOUS
<1>3. Renumbers(h, later, 1..n)
  <2>1. \A a \in 1..n : a + 1 \in later /\ h[a + 1] = a
    OBVIOUS
  <2> QED BY <2>1 DEF Renumbers
<1>4. \A i \in later : g[i] \in Int /\ g[i] = f[h[i]]
  <2> SUFFICES ASSUME NEW i \in later PROVE g[i] \in Int /\ g[i] = f[h[i]]
    OBVIOUS
  <2>1. i - 1 \in 1..n /\ (i - 1) + 1 = i /\ h[i] = i - 1
    OBVIOUS
  <2> QED BY <2>1
<1>5. \A i \in later \cup {1} : g[i] \in Int
  BY <1>4
<1> HIDE DEF later, h
<1>6. SumOver(g, later) = SumOver(f, 1..n)
  BY <1>1, <1>3, <1>4, SumReindex
<1>7. SumOver(g, later \cup {1}) = g[1] + SumOver(g, later)
  BY <1>1, <1>5, SumInsert
<1> QED BY <1>2, <1>6, <1>7 DEF SumOf
=============================================================================

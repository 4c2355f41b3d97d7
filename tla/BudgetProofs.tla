---------------------------- MODULE BudgetProofs ----------------------------
(***************************************************************************)
(* Proofs about the two budgets of the company, both sums over records.    *)
(*                                                                         *)
(* The economic budget truth, for any nodes, categories, estimates, costs  *)
(* and numbers of calls, workers and crashes: while a process lives no     *)
(* reservation is left behind (NoLeakedHold), a committed reservation is   *)
(* charged, and no other (CommittedIsCharged), and however late its        *)
(* decisions come, a category is never further over its cap than the       *)
(* reservations of all workers but one (OverrunBounded).                   *)
(*                                                                         *)
(* The novel studio and the token budget of a chapter's context, for any   *)
(* materials, catalog, tokens, budgets, runs and crashes: BibleIsSound,    *)
(* CountsAreTrue and ContextIsSound.                                       *)
(***************************************************************************)
EXTENDS EconomicBudget, NovelStudio, FiniteSetTheorems, WellFoundedInduction, TLAPS

-----------------------------------------------------------------------------
(* Sums. *)

Less == OpToRel(<, Nat)

\* A set of numbers that has 0 and with each number its successor has them all.
LEMMA Counting ==
    ASSUME NEW N, 0 \in N, \A n \in Nat : n \in N => n + 1 \in N
    PROVE  \A n \in Nat : n \in N
  <1> DEFINE Rest == Nat \ N
  <1> SUFFICES ASSUME Rest # {} PROVE FALSE
    OBVIOUS
  <1>1. IsWellFoundedOn(Less, Nat)
    BY NatLessThanWellFounded, Zenon DEF Less
  <1>2. Less = {ss \in Nat \X Nat : ss[1] < ss[2]}
    BY Zenon DEF Less, OpToRel
  <1>3. PICK n \in Rest : \A m \in Rest : <<m, n>> \notin Less
    <2> HIDE DEF Rest
    <2>1. Rest \subseteq Nat
      BY DEF Rest
    <2> QED BY <1>1, <2>1, WFMin
  <1>4. n \in Nat /\ n # 0 /\ n - 1 \in Nat /\ n - 1 < n
    OBVIOUS
  <1>5. <<n - 1, n>> \in Less
    BY <1>2, <1>4
  <1>6. n - 1 \in N
    BY <1>3, <1>4, <1>5
  <1> QED BY <1>4, <1>6

Pick(T) == CHOOSE x \in T : TRUE
Summed(f, D, g) == [T \in D |-> IF T = {} THEN 0 ELSE f[Pick(T)] + g[T \ {Pick(T)}]]

\* g sums every subset of S.
Sums(f, S, g) == g = Summed(f, SUBSET S, g)

LEMMA TotalIsSummed ==
    ASSUME NEW f, NEW S
    PROVE  Total(f, S) = (CHOOSE g : Sums(f, S, g))[S]
  BY Zenon DEF Sums, Total, MapThenSumSet, MapThenFoldSet, Summed, Pick

LEMMA Smaller ==
    ASSUME NEW S, IsFiniteSet(S), S # {}
    PROVE  /\ Pick(S) \in S
           /\ IsFiniteSet(S \ {Pick(S)})
           /\ Cardinality(S) \in Nat \ {0}
           /\ Cardinality(S \ {Pick(S)}) = Cardinality(S) - 1
  <1>1. Pick(S) \in S
    BY DEF Pick
  <1> QED BY <1>1, FS_RemoveElement, FS_CardinalityType, FS_EmptySet

\* The recursion is well founded: there is a function that sums every subset.
LEMMA SummedExists ==
    ASSUME NEW f, NEW S, IsFiniteSet(S)
    PROVE  \E g : Sums(f, S, g)
  <1> DEFINE Upto(n) == {T \in SUBSET S : Cardinality(T) <= n}
             N == {n \in Nat : \E g : g = Summed(f, Upto(n), g)}
  <1>a. \A T \in SUBSET S : IsFiniteSet(T) /\ Cardinality(T) \in Nat
    BY FS_Subset, FS_CardinalityType
  <1>1. 0 \in N
    <2> DEFINE g == [T \in Upto(0) |-> 0]
    <2>1. \A T \in Upto(0) : T = {}
      BY <1>a, FS_EmptySet
    <2>2. g = Summed(f, Upto(0), g)
      BY <2>1 DEF Summed
    <2> QED BY <2>2
  <1>2. ASSUME NEW n \in Nat, n \in N PROVE n + 1 \in N
    <2>1. PICK g : g = Summed(f, Upto(n), g)
      BY <1>2
    <2> DEFINE h == Summed(f, Upto(n + 1), g)
    <2>2. \A T \in Upto(n + 1) : T # {} => T \ {Pick(T)} \in Upto(n)
      <3> SUFFICES ASSUME NEW T \in Upto(n + 1), T # {} PROVE T \ {Pick(T)} \in Upto(n)
        OBVIOUS
      <3> QED BY <1>a, Smaller
    <2>3. \A T \in Upto(n) : T \in Upto(n + 1) /\ h[T] = g[T]
      <3> SUFFICES ASSUME NEW T \in Upto(n) PROVE T \in Upto(n + 1) /\ h[T] = g[T]
        OBVIOUS
      <3>1. T \in Upto(n + 1)
        BY <1>a
      <3>2. g[T] = IF T = {} THEN 0 ELSE f[Pick(T)] + g[T \ {Pick(T)}]
        BY <2>1 DEF Summed
      <3> QED BY <3>1, <3>2 DEF Summed
    <2>4. h = Summed(f, Upto(n + 1), h)
      <3> HIDE DEF Upto
      <3> QED BY <2>2, <2>3 DEF Summed
    <2>5. \E e : e = Summed(f, Upto(n + 1), e)
      <3> HIDE DEF h
      <3> QED BY <2>4
    <2> HIDE DEF Upto, h
    <2> QED BY <2>5
  <1>3. Cardinality(S) \in N
    <2> HIDE DEF N
    <2>1. \A n \in Nat : n \in N
      BY <1>1, <1>2, Counting
    <2> QED BY <2>1, FS_CardinalityType
  <1>4. Upto(Cardinality(S)) = SUBSET S
    BY <1>a, FS_Subset
  <1> QED BY <1>3, <1>4 DEF Sums

\* Two such functions agree where both are defined.
LEMMA SummedUnique ==
    ASSUME NEW f, NEW S, IsFiniteSet(S), NEW D \in SUBSET S, NEW g, NEW h,
           Sums(f, S, g), Sums(f, D, h)
    PROVE  g[D] = h[D]
  <1> DEFINE N == {n \in Nat : \A T \in SUBSET D : Cardinality(T) = n => g[T] = h[T]}
  <1>a. \A T \in SUBSET D : IsFiniteSet(T) /\ Cardinality(T) \in Nat
    BY FS_Subset, FS_CardinalityType
  <1>b. \A T \in SUBSET D :
           /\ g[T] = IF T = {} THEN 0 ELSE f[Pick(T)] + g[T \ {Pick(T)}]
           /\ h[T] = IF T = {} THEN 0 ELSE f[Pick(T)] + h[T \ {Pick(T)}]
    <2> SUFFICES ASSUME NEW T \in SUBSET D
                 PROVE  /\ g[T] = IF T = {} THEN 0 ELSE f[Pick(T)] + g[T \ {Pick(T)}]
                        /\ h[T] = IF T = {} THEN 0 ELSE f[Pick(T)] + h[T \ {Pick(T)}]
      OBVIOUS
    <2>1. T \in SUBSET S
      OBVIOUS
    <2>2. g[T] = IF T = {} THEN 0 ELSE f[Pick(T)] + g[T \ {Pick(T)}]
      BY <2>1 DEF Summed, Sums
    <2>3. h[T] = IF T = {} THEN 0 ELSE f[Pick(T)] + h[T \ {Pick(T)}]
      BY DEF Summed, Sums
    <2> QED BY <2>2, <2>3
  <1>1. 0 \in N
    BY <1>a, <1>b, FS_EmptySet
  <1>2. ASSUME NEW n \in Nat, n \in N PROVE n + 1 \in N
    <2> SUFFICES ASSUME NEW T \in SUBSET D, Cardinality(T) = n + 1 PROVE g[T] = h[T]
      OBVIOUS
    <2>1. T # {}
      <3>1. Cardinality(T) # 0
        OBVIOUS
      <3> QED BY <3>1, FS_EmptySet, Zenon
    <2>2. T \ {Pick(T)} \in SUBSET D /\ Cardinality(T \ {Pick(T)}) = n
      BY <1>a, <2>1, Smaller
    <2> QED BY <1>2, <1>b, <2>1, <2>2
  <1>3. \A n \in Nat : n \in N
    <2> HIDE DEF N
    <2> QED BY <1>1, <1>2, Counting
  <1> QED BY <1>3, <1>a

\* What the sum of a set is, one element at a time.
LEMMA TotalUnfolds ==
    ASSUME NEW f, NEW S, IsFiniteSet(S)
    PROVE  Total(f, S) = IF S = {} THEN 0 ELSE f[Pick(S)] + Total(f, S \ {Pick(S)})
  <1> DEFINE g == CHOOSE e : Sums(f, S, e)
             D == S \ {Pick(S)}
             h == CHOOSE e : Sums(f, D, e)
  <1>1. Sums(f, S, g)
    BY SummedExists
  <1>2. IsFiniteSet(D) /\ D \subseteq S
    BY FS_RemoveElement
  <1>3. Sums(f, D, h)
    <2> HIDE DEF D
    <2> QED BY <1>2, SummedExists
  <1>4. Total(f, S) = g[S] /\ Total(f, D) = h[D]
    BY TotalIsSummed
  <1> HIDE DEF g, h, D
  <1>5. g[D] = h[D]
    <2>1. D \in SUBSET S
      BY <1>2
    <2> QED BY ONLY <1>1, <2>1, <1>3, IsFiniteSet(S), SummedUnique
  <1>6. g[S] = IF S = {} THEN 0 ELSE f[Pick(S)] + g[S \ {Pick(S)}]
    BY <1>1 DEF Summed, Sums
  <1> QED BY <1>4, <1>5, <1>6 DEF D

LEMMA TotalEmpty == \A f : Total(f, {}) = 0
  BY TotalUnfolds, FS_EmptySet

LEMMA TotalType ==
    ASSUME NEW f, NEW S, IsFiniteSet(S), \A x \in S : f[x] \in Nat
    PROVE  Total(f, S) \in Nat
  <1> DEFINE N == {n \in Nat : \A T \in SUBSET S : Cardinality(T) = n => Total(f, T) \in Nat}
  <1>a. \A T \in SUBSET S : IsFiniteSet(T) /\ Cardinality(T) \in Nat
    BY FS_Subset, FS_CardinalityType
  <1>1. 0 \in N
    BY <1>a, TotalEmpty, FS_EmptySet
  <1>2. ASSUME NEW n \in Nat, n \in N PROVE n + 1 \in N
    <2> SUFFICES ASSUME NEW T \in SUBSET S, Cardinality(T) = n + 1 PROVE Total(f, T) \in Nat
      OBVIOUS
    <2>1. T # {}
      BY FS_EmptySet
    <2>2. T \ {Pick(T)} \in SUBSET S /\ Cardinality(T \ {Pick(T)}) = n /\ Pick(T) \in S
      BY <1>a, <2>1, Smaller
    <2>3. Total(f, T) = f[Pick(T)] + Total(f, T \ {Pick(T)})
      BY <1>a, <2>1, TotalUnfolds
    <2> QED BY <1>2, <2>2, <2>3
  <1>3. \A n \in Nat : n \in N
    <2> HIDE DEF N
    <2> QED BY <1>1, <1>2, Counting
  <1> QED BY <1>3, <1>a

\* Whichever element is taken first.
LEMMA TotalRemove ==
    ASSUME NEW f, NEW S, IsFiniteSet(S), \A x \in S : f[x] \in Nat, NEW x \in S
    PROVE  Total(f, S) = f[x] + Total(f, S \ {x})
  <1> DEFINE N == {n \in Nat : \A T \in SUBSET S : Cardinality(T) = n =>
                                 \A y \in T : Total(f, T) = f[y] + Total(f, T \ {y})}
  <1>a. \A T \in SUBSET S : IsFiniteSet(T) /\ Cardinality(T) \in Nat
    BY FS_Subset, FS_CardinalityType
  <1>1. 0 \in N
    BY <1>a, FS_EmptySet
  <1>2. ASSUME NEW n \in Nat, n \in N PROVE n + 1 \in N
    <2> SUFFICES ASSUME NEW T \in SUBSET S, Cardinality(T) = n + 1, NEW y \in T
                 PROVE  Total(f, T) = f[y] + Total(f, T \ {y})
      OBVIOUS
    <2> DEFINE p == Pick(T)
    <2>1. T # {}
      BY FS_EmptySet
    <2>2. p \in T /\ Total(f, T) = f[p] + Total(f, T \ {p})
      BY <1>a, <2>1, Smaller, TotalUnfolds
    <2> HIDE DEF p
    <2>3. \A z \in T : T \ {z} \in SUBSET S /\ Cardinality(T \ {z}) = n
      BY <1>a, FS_RemoveElement
    <2>4. CASE p = y
      BY <2>2, <2>4
    <2>5. CASE p # y
      <3>1. y \in T \ {p} /\ p \in T \ {y}
        BY <2>2, <2>5
      <3>2. Total(f, T \ {p}) = f[y] + Total(f, (T \ {p}) \ {y})
        BY <1>2, <2>3, <3>1
      <3>3. Total(f, T \ {y}) = f[p] + Total(f, (T \ {y}) \ {p})
        BY <1>2, <2>3, <3>1
      <3>4. (T \ {p}) \ {y} = (T \ {y}) \ {p}
        OBVIOUS
      <3>5. f[y] \in Nat /\ f[p] \in Nat
        BY <2>2
      <3>6. Total(f, (T \ {y}) \ {p}) \in Nat
        <4>1. (T \ {y}) \ {p} \in SUBSET S
          OBVIOUS
        <4> QED BY <4>1, <1>a, TotalType
      <3> QED BY <2>2, <3>2, <3>3, <3>4, <3>5, <3>6
    <2> QED BY <2>4, <2>5
  <1>3. \A n \in Nat : n \in N
    <2> HIDE DEF N
    <2> QED BY <1>1, <1>2, Counting
  <1> QED BY <1>3, <1>a

\* How a sum changes with its set.
LEMMA TotalAdd ==
    ASSUME NEW f, NEW S, IsFiniteSet(S), NEW x, x \notin S, \A y \in S \cup {x} : f[y] \in Nat
    PROVE  Total(f, S \cup {x}) = Total(f, S) + f[x]
  <1>1. IsFiniteSet(S \cup {x}) /\ (S \cup {x}) \ {x} = S /\ x \in S \cup {x}
    BY FS_AddElement
  <1>2. Total(f, S \cup {x}) = f[x] + Total(f, (S \cup {x}) \ {x})
    BY <1>1, TotalRemove
  <1>3. Total(f, S) \in Nat
    BY TotalType
  <1>4. f[x] \in Nat
    OBVIOUS
  <1>5. Total(f, (S \cup {x}) \ {x}) = Total(f, S)
    BY <1>1
  <1> QED BY <1>2, <1>3, <1>4, <1>5

\* A part sums to no more than the whole, and is as far from it as what is left.
LEMMA TotalSplit ==
    ASSUME NEW f, NEW S, IsFiniteSet(S), \A x \in S : f[x] \in Nat, NEW D \in SUBSET S
    PROVE  /\ Total(f, S) = Total(f, D) + Total(f, S \ D)
           /\ Total(f, S) \in Nat /\ Total(f, D) \in Nat /\ Total(f, S \ D) \in Nat
           /\ Total(f, D) <= Total(f, S)
  <1> DEFINE N == {n \in Nat : \A T \in SUBSET S : Cardinality(T) = n =>
                                 Total(f, S) = Total(f, T) + Total(f, S \ T)}
  <1>a. \A T \in SUBSET S : /\ IsFiniteSet(T) /\ Cardinality(T) \in Nat
                            /\ Total(f, T) \in Nat
    <2> SUFFICES ASSUME NEW T \in SUBSET S
                 PROVE  IsFiniteSet(T) /\ Cardinality(T) \in Nat /\ Total(f, T) \in Nat
      OBVIOUS
    <2>1. IsFiniteSet(T)
      BY FS_Subset
    <2> QED BY <2>1, FS_CardinalityType, TotalType
  <1>1. 0 \in N
    <2> SUFFICES ASSUME NEW T \in SUBSET S, Cardinality(T) = 0
                 PROVE  Total(f, S) = Total(f, T) + Total(f, S \ T)
      OBVIOUS
    <2>1. T = {} /\ S \ T = S
      BY <1>a, FS_EmptySet
    <2> QED BY <1>a, <2>1, TotalEmpty
  <1>2. ASSUME NEW n \in Nat, n \in N PROVE n + 1 \in N
    <2> SUFFICES ASSUME NEW T \in SUBSET S, Cardinality(T) = n + 1
                 PROVE  Total(f, S) = Total(f, T) + Total(f, S \ T)
      OBVIOUS
    <2>1. T # {}
      BY FS_EmptySet
    <2>2. PICK x \in T : TRUE
      BY <2>1
    <2>3. T \ {x} \in SUBSET S /\ Cardinality(T \ {x}) = n /\ S \ T \in SUBSET S
      <3>1. IsFiniteSet(T) /\ x \in T /\ Cardinality(T) = n + 1
        BY <1>a, <2>2
      <3>2. Cardinality(T \ {x}) = Cardinality(T) - 1
        BY ONLY <3>1, FS_RemoveElement
      <3> QED BY <3>1, <3>2
    <2>4. Total(f, T) = f[x] + Total(f, T \ {x})
      BY <1>a, TotalRemove
    <2>5. S \ (T \ {x}) = (S \ T) \cup {x}
      OBVIOUS
    <2>6. Total(f, (S \ T) \cup {x}) = Total(f, S \ T) + f[x]
      BY <1>a, <2>3, TotalAdd
    <2>7. Total(f, S) = Total(f, T \ {x}) + Total(f, S \ (T \ {x}))
      BY <1>2, <2>3
    <2>8. f[x] \in Nat /\ Total(f, T \ {x}) \in Nat /\ Total(f, S \ T) \in Nat
      BY <1>a, <2>3
    <2> QED BY <2>4, <2>5, <2>6, <2>7, <2>8
  <1>3. \A n \in Nat : n \in N
    <2> HIDE DEF N
    <2> QED BY <1>1, <1>2, Counting
  <1>4. Total(f, S) = Total(f, D) + Total(f, S \ D)
    BY <1>3, <1>a
  <1>5. Total(f, S) \in Nat /\ Total(f, D) \in Nat /\ Total(f, S \ D) \in Nat
    BY <1>a
  <1> QED BY <1>4, <1>5

\* At most so many times the largest term.
LEMMA TotalBound ==
    ASSUME NEW f, NEW S, IsFiniteSet(S), NEW M \in Nat, \A x \in S : f[x] \in 0..M
    PROVE  Total(f, S) <= Cardinality(S) * M
  <1> DEFINE N == {n \in Nat : \A T \in SUBSET S : Cardinality(T) = n => Total(f, T) <= n * M}
  <1>a. \A T \in SUBSET S : /\ IsFiniteSet(T) /\ Cardinality(T) \in Nat
                            /\ Total(f, T) \in Nat
    <2> SUFFICES ASSUME NEW T \in SUBSET S
                 PROVE  IsFiniteSet(T) /\ Cardinality(T) \in Nat /\ Total(f, T) \in Nat
      OBVIOUS
    <2>1. IsFiniteSet(T)
      BY FS_Subset
    <2> QED BY <2>1, FS_CardinalityType, TotalType
  <1>1. 0 \in N
    BY <1>a, FS_EmptySet, TotalEmpty
  <1>2. ASSUME NEW n \in Nat, n \in N PROVE n + 1 \in N
    <2> SUFFICES ASSUME NEW T \in SUBSET S, Cardinality(T) = n + 1
                 PROVE  Total(f, T) <= (n + 1) * M
      OBVIOUS
    <2>1. T # {}
      BY FS_EmptySet
    <2>2. PICK x \in T : TRUE
      BY <2>1
    <2>3. T \ {x} \in SUBSET S /\ Cardinality(T \ {x}) = n
      <3>1. IsFiniteSet(T) /\ x \in T /\ Cardinality(T) = n + 1
        BY <1>a, <2>2
      <3>2. Cardinality(T \ {x}) = Cardinality(T) - 1
        BY ONLY <3>1, FS_RemoveElement
      <3> QED BY <3>1, <3>2
    <2>4. Total(f, T) = f[x] + Total(f, T \ {x})
      BY <1>a, TotalRemove
    <2>5. Total(f, T \ {x}) <= n * M /\ Total(f, T \ {x}) \in Nat
      BY <1>2, <1>a, <2>3
    <2>6. f[x] \in 0..M
      OBVIOUS
    <2>7. (n + 1) * M = n * M + M /\ n * M \in Nat
      OBVIOUS
    <2> QED BY <2>4, <2>5, <2>6, <2>7
  <1>3. \A n \in Nat : n \in N
    <2> HIDE DEF N
    <2> QED BY <1>1, <1>2, Counting
  <1> QED BY <1>3, <1>a

-----------------------------------------------------------------------------
(* How reservations end. *)

Committed(n) == entry[n]["committed"] # Absent
Charged(n) == \E e \in costs : e[1] = n
Excess(k) == outcome[k].status = "completed" /\ outcome[k].cost > Estimate[NodeOf(k)]

\* A hold begins with its active entry.  While it is active in the ledger it has
\* neither been committed nor released, so nothing stands in the way of either,
\* and the cache knows it as active.
HoldSound(n) ==
    /\ entry[n]["active"] = Absent =>
          /\ latest[n] = "none" /\ cache[n] = "none"
          /\ entry[n]["released"] = Absent /\ ~Committed(n)
    /\ latest[n] = "active" =>
          /\ cache[n] = "active"
          /\ entry[n]["released"] = Absent /\ ~Committed(n)
HoldInv == \A n \in Node : HoldSound(n)

\* In a process that has not crashed, it belongs to a call that has not settled
\* yet, or to one whose excess was refused.
OwnerInv ==
    crashes = 0 =>
        \A n \in Node : latest[n] = "active" =>
            \E i \in 1..MaxCalls :
                \/ pc[<<n, i>>] \in {"executing", "returned"}
                \/ pc[<<n, i>>] = "raised" /\ Excess(<<n, i>>)

\* The lock is held by the one call between the two appends of commit.
LockInv ==
    /\ \A k \in Call : pc[k] = "marked" => lock = k
    /\ lock # NoCall => lock \in Call /\ pc[lock] = "marked" /\ Committed(NodeOf(lock))

ChargeInv ==
    crashes = 0 =>
        \A n \in Node :
            /\ Charged(n) => Committed(n)
            /\ Committed(n) => Charged(n) \/ (lock # NoCall /\ NodeOf(lock) = n)

-----------------------------------------------------------------------------
TypeInv == TypeOK /\ seen \in [Call -> SUBSET costs]

LEMMA Calls ==
    /\ \A k \in Call : NodeOf(k) \in Node /\ k[2] \in 1..MaxCalls /\ k = <<NodeOf(k), k[2]>>
    /\ \A n \in Node, i \in 1..MaxCalls : <<n, i>> \in Call /\ NodeOf(<<n, i>>) = n
    /\ NoCall \notin Call
  BY DEF Call, NodeOf, NoCall

\* What an appended reservation entry changes.
LEMMA Holds ==
    ASSUME TypeOK, NEW n \in Node, NEW s \in HoldState, AppendHold(n, s)
    PROVE  /\ entry' \in [Node -> [HoldState -> Clock \cup {Absent}]]
           /\ latest' \in [Node -> Hold] /\ cache' \in [Node -> Hold]
           /\ entry'[n][s] = now /\ cache'[n] = s
           /\ latest'[n] = IF entry[n][s] = Absent THEN s ELSE latest[n]
           /\ \A t \in HoldState \ {s} : entry'[n][t] = entry[n][t]
           /\ \A m \in Node \ {n} : /\ entry'[m] = entry[m] /\ cache'[m] = cache[m]
                                    /\ latest'[m] = latest[m]
  <1>1. entry \in [Node -> [HoldState -> Clock \cup {Absent}]] /\ now \in Clock
        /\ latest \in [Node -> Hold] /\ cache \in [Node -> Hold] /\ s \in Hold
    BY DEF TypeOK, Hold
  <1>2. /\ entry' \in [Node -> [HoldState -> Clock \cup {Absent}]]
        /\ entry'[n][s] = now
        /\ \A t \in HoldState \ {s} : entry'[n][t] = entry[n][t]
        /\ \A m \in Node \ {n} : entry'[m] = entry[m]
    BY <1>1 DEF AppendHold
  <1>3. /\ cache' \in [Node -> Hold] /\ cache'[n] = s
        /\ \A m \in Node \ {n} : cache'[m] = cache[m]
    BY <1>1 DEF AppendHold
  <1>4. /\ latest' \in [Node -> Hold]
        /\ latest'[n] = IF entry[n][s] = Absent THEN s ELSE latest[n]
        /\ \A m \in Node \ {n} : latest'[m] = latest[m]
    BY <1>1 DEF AppendHold
  <1> QED BY <1>2, <1>3, <1>4

LEMMA Moved ==
    ASSUME TypeOK, NEW k \in Call, NEW place \in PC, Move(k, place)
    PROVE  /\ pc' \in [Call -> PC] /\ pc'[k] = place
           /\ \A j \in Call \ {k} : pc'[j] = pc[j]
  BY DEF TypeOK, Move

\* An active hold is released as its caller means it to be; nothing else is
\* touched.
LEMMA Releases ==
    ASSUME TypeOK, HoldInv, NEW n \in Node, Release(n)
    PROVE  /\ entry' \in [Node -> [HoldState -> Clock \cup {Absent}]]
           /\ latest' \in [Node -> Hold] /\ cache' \in [Node -> Hold]
           /\ \A m \in Node : /\ entry'[m]["committed"] = entry[m]["committed"]
                              /\ entry'[m]["active"] = entry[m]["active"]
                              /\ \/ m = n /\ entry[m]["active"] # Absent
                                 \/ /\ cache'[m] = cache[m] /\ latest'[m] = latest[m]
                                    /\ entry'[m] = entry[m]
           /\ latest'[n] # "active"
  <1>1. {"released", "committed", "active"} \subseteq HoldState
    BY DEF HoldState
  <1>2. CASE cache[n] = "active" /\ AppendHold(n, "released")
    <2>1. latest'[n] # "active"
      <3>1. entry[n]["released"] # Absent => latest[n] # "active"
        BY DEF HoldInv, HoldSound
      <3> QED BY <1>1, <1>2, <3>1, Holds
    <2>2. entry[n]["active"] # Absent
      BY <1>2 DEF HoldInv, HoldSound
    <2>3. /\ entry' \in [Node -> [HoldState -> Clock \cup {Absent}]]
          /\ latest' \in [Node -> Hold] /\ cache' \in [Node -> Hold]
          /\ entry'[n]["committed"] = entry[n]["committed"]
          /\ entry'[n]["active"] = entry[n]["active"]
          /\ \A m \in Node \ {n} : /\ entry'[m] = entry[m] /\ cache'[m] = cache[m]
                                   /\ latest'[m] = latest[m]
      BY <1>1, <1>2, Holds
    <2> QED BY <2>1, <2>2, <2>3
  <1>3. CASE UNCHANGED <<entry, latest, cache>> /\ ~(cache[n] = "active" /\ Appendable(n, "released"))
    <2>1. latest[n] # "active"
      BY <1>3 DEF HoldInv, HoldSound, Appendable
    <2> QED BY <1>3, <2>1 DEF TypeOK
  <1> QED BY <1>2, <1>3 DEF Release

LEMMA InitTypes == Init => TypeOK
  <1> SUFFICES ASSUME Init PROVE TypeOK
    OBVIOUS
  <1>1. now \in Clock
    BY BudgetAssumption DEF Init, Clock
  <1>2. outcome \in [Call -> Outcome]
    BY DEF Init, Outcome, NoOutcome
  <1>3. /\ entry \in [Node -> [HoldState -> Clock \cup {Absent}]]
        /\ latest \in [Node -> Hold] /\ cache \in [Node -> Hold]
        /\ pc \in [Call -> PC]
    BY DEF Init, Hold, PC
  <1> QED BY <1>1, <1>2, <1>3 DEF Init, TypeOK

LEMMA TypesStep == TypeInv /\ HoldInv /\ [Next]_vars => TypeInv'
  <1> SUFFICES ASSUME TypeInv, HoldInv, [Next]_vars PROVE TypeInv'
    OBVIOUS
  <1> DEFINE Ledgers == /\ entry \in [Node -> [HoldState -> Clock \cup {Absent}]]
                        /\ latest \in [Node -> Hold] /\ cache \in [Node -> Hold]
             Rest == /\ costs \subseteq Node \X Nat \X Clock
                     /\ lock \in Call \cup {NoCall} /\ now \in Clock /\ crashes \in Nat
             Places == pc \in [Call -> PC]
             Reads == seen \in [Call -> SUBSET costs]
             Results == outcome \in [Call -> Outcome]
             History == dropped \subseteq Call /\ reused \subseteq Node
  <1>a. Ledgers /\ Rest /\ Places /\ Reads /\ Results /\ History /\ TypeOK
    BY DEF TypeInv, TypeOK
  <1>h. History'
    <2>1. ASSUME NEW k \in Call, CallStep(k) PROVE History'
      BY <1>a, <2>1, Calls
         DEF CallStep, BeginCall, TimeOut, ReadCosts, Decide, Reserve, ExecutorReturns,
             ExecutorRaises, CommitMark, CommitCost, CommitFails
    <2> QED BY <1>a, <2>1 DEF Next, Tick, Restart, vars
  <1>b. ASSUME Ledgers', Rest', Places', Reads', Results' PROVE TypeInv'
    BY <1>b, <1>h DEF TypeInv, TypeOK
  <1>c. /\ UNCHANGED <<entry, latest, cache>> => Ledgers'
        /\ UNCHANGED <<costs, lock, now, crashes>> => Rest'
        /\ UNCHANGED <<seen, costs>> => Reads'
        /\ UNCHANGED outcome => Results'
        /\ UNCHANGED pc => Places'
    BY <1>a
  <1>d. \A k \in Call, place \in PC : Move(k, place) => Places'
    BY <1>a, Moved
  <1>e. \A n \in Node, s \in HoldState : AppendHold(n, s) => Ledgers'
    BY <1>a, Holds
  <1>f. \A n \in Node : Release(n) => Ledgers'
    BY <1>a, Releases
  <1>1. ASSUME NEW k \in Call, BeginCall(k) PROVE TypeInv'
    BY <1>1, <1>b, <1>c, <1>d DEF BeginCall, ledger, PC
  <1>2. ASSUME NEW k \in Call, ReadCosts(k) PROVE TypeInv'
    <2>1. Reads'
      BY <1>2, <1>a DEF ReadCosts, ledger
    <2> QED BY <1>2, <2>1, <1>b, <1>c, <1>d DEF ReadCosts, ledger, PC
  <1>3. ASSUME NEW k \in Call, Decide(k) PROVE TypeInv'
    <2>1. Reads'
      BY <1>3, <1>a DEF Decide, ledger
    <2>2. Move(k, "allowed") \/ Move(k, "blocked")
      BY <1>3 DEF Decide
    <2> QED BY <1>3, <2>1, <2>2, <1>b, <1>c, <1>d DEF Decide, ledger, PC
  <1>4. ASSUME NEW k \in Call, Reserve(k) PROVE TypeInv'
    <2>1. Ledgers'
      BY <1>4, <1>c, <1>e, Calls DEF Reserve, HoldState
    <2>2. Move(k, "executing") \/ Move(k, "blocked")
      BY <1>4 DEF Reserve
    <2> QED BY <1>4, <2>1, <2>2, <1>b, <1>c, <1>d DEF Reserve, PC
  <1>5. ASSUME NEW k \in Call, NEW status \in {"completed", "blocked"}, NEW cost \in Actual,
               ExecutorReturns(k, status, cost)
        PROVE  TypeInv'
    <2>1. Results'
      BY <1>5, <1>a DEF ExecutorReturns, Outcome
    <2> QED BY <1>5, <2>1, <1>b, <1>c, <1>d DEF ExecutorReturns, ledger, PC
  <1>6. ASSUME NEW k \in Call, ExecutorRaises(k) PROVE TypeInv'
    <2>1. Ledgers'
      BY <1>6, <1>f, Calls DEF ExecutorRaises
    <2> QED BY <1>6, <2>1, <1>b, <1>c, <1>d DEF ExecutorRaises, PC
  <1>7. ASSUME NEW k \in Call, CommitMark(k) PROVE TypeInv'
    <2>1. Ledgers'
      BY <1>7, <1>e, Calls DEF CommitMark, HoldState
    <2>2. Rest'
      BY <1>7, <1>a DEF CommitMark
    <2> QED BY <1>7, <2>1, <2>2, <1>b, <1>c, <1>d DEF CommitMark, PC
  <1>8. ASSUME NEW k \in Call, CommitCost(k) PROVE TypeInv'
    <2>1. Ledgers' /\ Places'
      BY <1>8, <1>c, <1>d, <1>f, Calls DEF CommitCost, SettleAfterCommit, PC
    <2>2. <<NodeOf(k), outcome[k].cost, now>> \in Node \X Nat \X Clock
      <3>1. outcome[k].cost \in Nat
        <4>1. outcome[k].cost \in Actual \cup {0}
          BY <1>a DEF Outcome
        <4>2. \A x \in Actual : x \in Nat
          BY BudgetAssumption
        <4> QED BY <4>1, <4>2
      <3> QED BY <3>1, <1>a, Calls
    <2>3. Rest'
      BY <1>8, <1>a, <2>2 DEF CommitCost, SettleAfterCommit
    <2>4. Reads'
      <3>1. costs \subseteq costs' /\ seen' = seen
        BY <1>8 DEF CommitCost
      <3> QED BY <3>1, <1>a
    <2> QED BY <1>8, <2>1, <2>3, <2>4, <1>b, <1>c DEF CommitCost
  <1>9. ASSUME NEW k \in Call, CommitFails(k) PROVE TypeInv'
    <2>1. Ledgers'
      BY <1>9, <1>c, <1>f, Calls DEF CommitFails
    <2> QED BY <1>9, <2>1, <1>b, <1>c, <1>d DEF CommitFails, PC
  <1>10. ASSUME Tick PROVE TypeInv'
    <2>1. now' \in Clock
      BY <1>10, <1>a, BudgetAssumption DEF Tick, Clock
    <2>2. Rest'
      BY <1>10, <1>a, <2>1 DEF Tick, ledger
    <2> QED BY <1>10, <2>2, <1>b, <1>c DEF Tick, ledger
  <1>11. ASSUME Restart PROVE TypeInv'
    <2>2. Rest' /\ Ledgers'
      BY <1>11, <1>a DEF Restart, ledger
    <2>3. Places' /\ Reads'
      BY <1>11, <1>a DEF Restart, ledger, PC
    <2> QED BY <1>11, <2>2, <2>3, <1>b, <1>c DEF Restart
  <1>12. ASSUME UNCHANGED vars \/ \E k \in Call : TimeOut(k) PROVE TypeInv'
    BY <1>12, <1>b, <1>c DEF TimeOut, vars, ledger
  <1> QED BY <1>1, <1>2, <1>3, <1>4, <1>5, <1>6, <1>7, <1>8, <1>9, <1>10, <1>11, <1>12
       DEF Next, CallStep

\* A new entry changes the state of its hold alone, and settles an active one.
LEMMA HoldInvStep == TypeInv /\ HoldInv /\ [Next]_vars => HoldInv'
  <1> SUFFICES ASSUME TypeInv, HoldInv, [Next]_vars PROVE HoldInv'
    OBVIOUS
  <1>a. /\ TypeOK /\ latest \in [Node -> Hold] /\ cache \in [Node -> Hold]
        /\ {"released", "committed", "active"} \subseteq HoldState
    BY DEF TypeInv, TypeOK, HoldState
  <1>b. now # Absent
    BY DEF TypeInv, TypeOK, Clock, Absent
  <1>1. ASSUME UNCHANGED <<entry, latest, cache>> PROVE HoldInv'
    BY <1>1 DEF HoldInv, HoldSound, Committed
  <1>2. ASSUME NEW n \in Node, Release(n) PROVE HoldInv'
    <2> SUFFICES ASSUME NEW m \in Node PROVE HoldSound(m)'
      BY DEF HoldInv
    <2>1. CASE m = n /\ entry[m]["active"] # Absent
      BY <1>2, <1>a, <2>1, Releases DEF HoldSound
    <2>2. CASE /\ cache'[m] = cache[m] /\ latest'[m] = latest[m] /\ entry'[m] = entry[m]
      BY <2>2 DEF HoldInv, HoldSound, Committed
    <2> QED BY <1>2, <1>a, <2>1, <2>2, Releases
  <1>3. ASSUME NEW n \in Node, AppendHold(n, "active") PROVE HoldInv'
    <2> SUFFICES ASSUME NEW m \in Node PROVE HoldSound(m)'
      BY DEF HoldInv
    <2>1. CASE m # n
      BY <1>3, <1>a, <2>1, Holds DEF HoldInv, HoldSound, Committed
    <2>2. CASE m = n
      <3>1. /\ cache'[n] = "active" /\ entry'[n]["active"] = now
            /\ entry'[n]["released"] = entry[n]["released"]
            /\ entry'[n]["committed"] = entry[n]["committed"]
            /\ entry[n]["active"] = Absent \/ latest'[n] = latest[n]
        BY <1>3, <1>a, Holds
      <3> QED BY <1>b, <2>2, <3>1 DEF HoldInv, HoldSound, Committed
    <2> QED BY <2>1, <2>2
  <1>4. ASSUME NEW n \in Node, cache[n] = "active", AppendHold(n, "committed") PROVE HoldInv'
    <2> SUFFICES ASSUME NEW m \in Node PROVE HoldSound(m)'
      BY DEF HoldInv
    <2>1. CASE m # n
      BY <1>4, <1>a, <2>1, Holds DEF HoldInv, HoldSound, Committed
    <2>2. CASE m = n
      <3>1. /\ entry'[n]["active"] = entry[n]["active"]
            /\ latest'[n] = IF ~Committed(n) THEN "committed" ELSE latest[n]
        BY <1>4, <1>a, Holds DEF Committed
      <3>2. entry[n]["active"] # Absent /\ latest'[n] # "active"
        BY <1>4, <3>1 DEF HoldInv, HoldSound
      <3> QED BY <2>2, <3>1, <3>2 DEF HoldSound
    <2> QED BY <2>1, <2>2
  <1>5. ASSUME NEW k \in Call, CallStep(k) PROVE HoldInv'
    BY <1>1, <1>2, <1>3, <1>4, <1>5, Calls
       DEF CallStep, BeginCall, TimeOut, ReadCosts, Decide, Reserve, ExecutorReturns, ExecutorRaises,
           CommitMark, MayCommit, CommitCost, SettleAfterCommit, CommitFails, ledger
  <1>6. ASSUME Restart PROVE HoldInv'
    BY <1>6 DEF Restart, ledger, HoldInv, HoldSound, Committed
  <1> QED BY <1>1, <1>5, <1>6 DEF Next, Tick, vars, ledger

\* The lock is taken with the first append of commit, and let go with the second.
LEMMA LockInvStep == TypeInv /\ HoldInv /\ LockInv /\ [Next]_vars => LockInv'
  <1> SUFFICES ASSUME TypeInv, HoldInv, LockInv, [Next]_vars PROVE LockInv'
    OBVIOUS
  <1>a. TypeOK /\ pc \in [Call -> PC] /\ "committed" \in HoldState
    BY DEF TypeInv, TypeOK, HoldState
  <1>b. now # Absent
    BY DEF TypeInv, TypeOK, Clock, Absent
  \* A step that neither takes the lock nor lets it go.
  <1>1. ASSUME NEW k \in Call, NEW place \in PC \ {"marked"}, Move(k, place), pc[k] # "marked",
               UNCHANGED lock, \A n \in Node : Committed(n) => Committed(n)'
        PROVE  LockInv'
    <2>1. /\ pc'[k] # "marked"
          /\ \A j \in Call \ {k} : pc'[j] = pc[j]
      BY <1>1, <1>a, Moved
    <2>2. lock # NoCall => lock \in Call \ {k} /\ Committed(NodeOf(lock))
      BY <1>1 DEF LockInv
    <2> QED BY <1>1, <2>1, <2>2, Calls DEF LockInv
  <1>2. ASSUME NEW n \in Node, NEW m \in Node, Committed(m),
               \/ UNCHANGED <<entry, latest, cache>>
               \/ Release(n)
               \/ AppendHold(n, "active")
        PROVE  Committed(m)'
    <2>1. CASE Release(n)
      BY <1>2, <1>a, <2>1, Releases DEF Committed
    <2>2. CASE AppendHold(n, "active")
      <3>1. "active" \in HoldState
        BY DEF HoldState
      <3> QED BY <1>2, <1>a, <2>2, <3>1, Holds DEF Committed
    <2> QED BY <1>2, <2>1, <2>2 DEF Committed
  <1>3. ASSUME NEW k \in Call,
               \/ BeginCall(k) \/ ReadCosts(k) \/ Decide(k) \/ Reserve(k) \/ ExecutorRaises(k)
               \/ CommitFails(k)
               \/ \E status \in {"completed", "blocked"}, cost \in Actual :
                     ExecutorReturns(k, status, cost)
        PROVE  LockInv'
    <2>1. \E place \in PC \ {"marked"} : Move(k, place)
      BY <1>3 DEF BeginCall, TimeOut, ReadCosts, Decide, Reserve, ExecutorReturns, ExecutorRaises,
                  CommitFails, PC
    <2>2. pc[k] # "marked" /\ UNCHANGED lock
      BY <1>3 DEF BeginCall, TimeOut, ReadCosts, Decide, Reserve, ExecutorReturns, ExecutorRaises,
                  CommitFails, ledger
    <2>3. \E n \in Node : \/ UNCHANGED <<entry, latest, cache>>
                          \/ Release(n)
                          \/ AppendHold(n, "active")
      BY <1>3, Calls DEF BeginCall, TimeOut, ReadCosts, Decide, Reserve, ExecutorReturns, ExecutorRaises,
                         CommitFails, ledger
    <2> QED BY <1>1, <1>2, <2>1, <2>2, <2>3
  <1>4. ASSUME NEW k \in Call, CommitMark(k) PROVE LockInv'
    <2>1. /\ lock = NoCall /\ lock' = k /\ Move(k, "marked") /\ AppendHold(NodeOf(k), "committed")
      BY <1>4 DEF CommitMark
    <2>2. /\ pc'[k] = "marked"
          /\ \A j \in Call \ {k} : pc'[j] = pc[j]
      BY <2>1, <1>a, Moved DEF PC
    <2>3. entry'[NodeOf(k)]["committed"] = now
      BY <2>1, <1>a, Holds, Calls
    <2> QED BY <1>b, <2>1, <2>2, <2>3, Calls DEF LockInv, Committed
  <1>5. ASSUME NEW k \in Call, CommitCost(k) PROVE LockInv'
    <2>1. pc[k] = "marked" /\ lock' = NoCall /\ \E place \in {"done", "blocked"} : Move(k, place)
      BY <1>5 DEF CommitCost, SettleAfterCommit
    <2>2. /\ pc'[k] # "marked"
          /\ \A j \in Call \ {k} : pc'[j] = pc[j]
      BY <2>1, <1>a, Moved DEF PC
    <2> QED BY <2>1, <2>2, Calls DEF LockInv
  <1>6. ASSUME Restart PROVE LockInv'
    BY <1>6, <1>a DEF Restart, Running, Ended, PC, LockInv
  <1>7. ASSUME Tick \/ UNCHANGED vars \/ \E k \in Call : TimeOut(k) PROVE LockInv'
    <2>1. UNCHANGED <<pc, lock, entry>>
      BY <1>7 DEF Tick, TimeOut, vars, ledger
    <2> QED BY <2>1 DEF LockInv, Committed
  <1> QED BY <1>3, <1>4, <1>5, <1>6, <1>7 DEF Next, CallStep

\* Each of the two appends of commit adds what it is named for, and no other step
\* adds either.
LEMMA ChargeInvStep == TypeInv /\ HoldInv /\ LockInv /\ ChargeInv /\ [Next]_vars => ChargeInv'
  <1> SUFFICES ASSUME TypeInv, HoldInv, LockInv, ChargeInv, [Next]_vars, crashes' = 0
               PROVE  \A n \in Node :
                         /\ Charged(n)' => Committed(n)'
                         /\ Committed(n)' => Charged(n)' \/ (lock' # NoCall /\ NodeOf(lock') = n)
    BY DEF ChargeInv
  <1>a. TypeOK /\ crashes \in Nat /\ {"committed", "active"} \subseteq HoldState
    BY DEF TypeInv, TypeOK, HoldState
  <1>b. now # Absent
    BY DEF TypeInv, TypeOK, Clock, Absent
  <1>1. ASSUME UNCHANGED <<costs, lock, crashes>>, \A n \in Node : Committed(n) <=> Committed(n)'
        PROVE  ChargeInv'
    BY <1>1 DEF ChargeInv, Charged
  <1>2. ASSUME NEW n \in Node, NEW m \in Node,
               \/ UNCHANGED <<entry, latest, cache>>
               \/ Release(n)
               \/ AppendHold(n, "active")
        PROVE  Committed(m) <=> Committed(m)'
    <2>1. CASE Release(n)
      BY <1>a, <2>1, Releases DEF Committed
    <2>2. CASE AppendHold(n, "active")
      BY <1>a, <2>2, Holds DEF Committed
    <2> QED BY <1>2, <2>1, <2>2 DEF Committed
  <1>3. ASSUME NEW k \in Call,
               \/ BeginCall(k) \/ ReadCosts(k) \/ Decide(k) \/ Reserve(k) \/ ExecutorRaises(k)
               \/ CommitFails(k)
               \/ \E status \in {"completed", "blocked"}, cost \in Actual :
                     ExecutorReturns(k, status, cost)
        PROVE  ChargeInv'
    <2>1. UNCHANGED <<costs, lock, crashes>>
      BY <1>3 DEF BeginCall, TimeOut, ReadCosts, Decide, Reserve, ExecutorReturns, ExecutorRaises,
                  CommitFails, ledger
    <2>2. \E n \in Node : \/ UNCHANGED <<entry, latest, cache>>
                          \/ Release(n)
                          \/ AppendHold(n, "active")
      BY <1>3, Calls DEF BeginCall, TimeOut, ReadCosts, Decide, Reserve, ExecutorReturns, ExecutorRaises,
                         CommitFails, ledger
    <2> QED BY <1>1, <1>2, <2>1, <2>2
  <1>4. ASSUME NEW k \in Call, CommitMark(k) PROVE ChargeInv'
    <2>1. /\ lock = NoCall /\ lock' = k /\ UNCHANGED <<costs, crashes>>
          /\ AppendHold(NodeOf(k), "committed")
      BY <1>4 DEF CommitMark
    <2>2. Committed(NodeOf(k))'
      BY <2>1, <1>a, <1>b, Holds, Calls DEF Committed
    <2>3. \A m \in Node \ {NodeOf(k)} : Committed(m) <=> Committed(m)'
      BY <2>1, <1>a, Holds, Calls DEF Committed
    <2> QED BY <2>1, <2>2, <2>3, Calls DEF ChargeInv, Charged
  <1>5. ASSUME NEW k \in Call, CommitCost(k) PROVE ChargeInv'
    <2>1. /\ costs' = costs \cup {<<NodeOf(k), outcome[k].cost, now>>}
          /\ lock = k /\ lock' = NoCall /\ Committed(NodeOf(k)) /\ UNCHANGED crashes
      BY <1>5, Calls DEF CommitCost, SettleAfterCommit, LockInv
    <2>2. ASSUME NEW m \in Node PROVE Committed(m) <=> Committed(m)'
      <3>1. UNCHANGED <<entry, latest, cache>> \/ Release(NodeOf(k))
        BY <1>5 DEF CommitCost, SettleAfterCommit
      <3>2. CASE Release(NodeOf(k))
        BY <1>2, <3>2, Calls
      <3>3. CASE UNCHANGED <<entry, latest, cache>>
        BY <3>3 DEF Committed
      <3> QED BY <3>1, <3>2, <3>3
    <2>3. Charged(NodeOf(k))' /\ \A m \in Node \ {NodeOf(k)} : Charged(m)' <=> Charged(m)
      <3>1. PICK e : e[1] = NodeOf(k) /\ costs' = costs \cup {e}
        <4>1. <<NodeOf(k), outcome[k].cost, now>>[1] = NodeOf(k)
          OBVIOUS
        <4> QED BY <2>1, <4>1
      <3> QED BY <3>1 DEF Charged
    <2> QED BY <2>1, <2>2, <2>3 DEF ChargeInv
  <1>6. ASSUME Restart PROVE FALSE
    BY <1>6, <1>a DEF Restart
  <1>7. ASSUME Tick \/ UNCHANGED vars \/ \E k \in Call : TimeOut(k) PROVE ChargeInv'
    <2>1. UNCHANGED <<entry, costs, lock, crashes>>
      BY <1>7 DEF Tick, TimeOut, vars, ledger
    <2> QED BY <2>1 DEF ChargeInv, Committed, Charged
  <1> QED BY <1>3, <1>4, <1>5, <1>6, <1>7 DEF Next, CallStep, ChargeInv

Owned(n) ==
    \E i \in 1..MaxCalls :
        \/ pc[<<n, i>>] \in {"executing", "returned"}
        \/ pc[<<n, i>>] = "raised" /\ Excess(<<n, i>>)

\* A call that gives a hold up settles it, or its excess was refused.
LEMMA OwnerInvStep == TypeInv /\ HoldInv /\ OwnerInv /\ [Next]_vars => OwnerInv'
  <1> SUFFICES ASSUME TypeInv, HoldInv, OwnerInv, [Next]_vars, crashes' = 0
               PROVE  \A n \in Node : latest'[n] = "active" => Owned(n)'
    BY DEF OwnerInv, Owned
  <1>a. /\ TypeOK /\ crashes \in Nat /\ {"committed", "active"} \subseteq HoldState
        /\ pc \in [Call -> PC] /\ outcome \in [Call -> Outcome] /\ latest \in [Node -> Hold]
    BY DEF TypeInv, TypeOK, HoldState
  <1>b. crashes = 0 => \A n \in Node : latest[n] = "active" => Owned(n)
    BY DEF OwnerInv, Owned
  <1>c. \A m \in Node, i \in 1..MaxCalls : <<m, i>> \in Call
    BY Calls
  \* A step of a call that holds nothing yet, or nothing any more.
  <1>1. ASSUME NEW k \in Call, pc[k] \notin {"executing", "returned", "raised"},
               \A j \in Call \ {k} : pc'[j] = pc[j],
               UNCHANGED <<outcome, crashes>>, \A n \in Node : latest'[n] = "active" => latest[n] = "active"
        PROVE  \A n \in Node : latest'[n] = "active" => Owned(n)'
    <2> SUFFICES ASSUME NEW n \in Node, latest'[n] = "active" PROVE Owned(n)'
      OBVIOUS
    <2>1. PICK i \in 1..MaxCalls : \/ pc[<<n, i>>] \in {"executing", "returned"}
                                   \/ pc[<<n, i>>] = "raised" /\ Excess(<<n, i>>)
      BY <1>1, <1>b DEF Owned
    <2>2. <<n, i>> \in Call \ {k}
      BY <1>1, <1>c, <2>1
    <2>3. pc'[<<n, i>>] = pc[<<n, i>>] /\ (Excess(<<n, i>>) => Excess(<<n, i>>)')
      BY <1>1, <2>2 DEF Excess
    <2> QED BY <2>1, <2>3 DEF Owned
  \* A step of a call that gives up its hold.
  <1>2. ASSUME NEW k \in Call, pc[k] \in {"executing", "returned"},
               \A j \in Call \ {k} : pc'[j] = pc[j] /\ outcome'[j] = outcome[j],
               UNCHANGED crashes,
               latest'[NodeOf(k)] = "active" =>
                  \/ pc'[k] \in {"executing", "returned"}
                  \/ pc'[k] = "raised" /\ Excess(k)',
               \A n \in Node \ {NodeOf(k)} : latest'[n] = "active" => latest[n] = "active"
        PROVE  \A n \in Node : latest'[n] = "active" => Owned(n)'
    <2>1. ASSUME latest'[NodeOf(k)] = "active" PROVE Owned(NodeOf(k))'
      BY <1>2, <2>1, Calls DEF Owned
    <2>2. ASSUME NEW n \in Node \ {NodeOf(k)}, latest'[n] = "active" PROVE Owned(n)'
      <3>1. PICK i \in 1..MaxCalls : \/ pc[<<n, i>>] \in {"executing", "returned"}
                                     \/ pc[<<n, i>>] = "raised" /\ Excess(<<n, i>>)
        BY <1>2, <1>b, <2>2 DEF Owned
      <3>2. <<n, i>> \in Call \ {k}
        BY <2>2, Calls
      <3>3. pc'[<<n, i>>] = pc[<<n, i>>] /\ (Excess(<<n, i>>) => Excess(<<n, i>>)')
        BY <1>2, <3>2 DEF Excess
      <3> QED BY <3>1, <3>3 DEF Owned
    <2> QED BY <2>1, <2>2
  <1>3. ASSUME NEW k \in Call, BeginCall(k) \/ ReadCosts(k) \/ Decide(k) \/ Reserve(k) \/ CommitCost(k)
        PROVE  pc[k] \notin {"executing", "returned", "raised"} /\ UNCHANGED <<outcome, crashes>>
    BY <1>3 DEF BeginCall, TimeOut, ReadCosts, Decide, Reserve, CommitCost, ledger
  <1>4. ASSUME NEW k \in Call, CallStep(k) PROVE \A j \in Call \ {k} : pc'[j] = pc[j]
    <2>1. UNCHANGED pc \/ \E place \in PC : Move(k, place)
      BY <1>4 DEF CallStep, BeginCall, TimeOut, ReadCosts, Decide, Reserve, ExecutorReturns, ExecutorRaises,
                  CommitMark, CommitCost, SettleAfterCommit, CommitFails, PC
    <2> QED BY <1>a, <2>1, Moved
  <1>5. ASSUME NEW k \in Call, Release(NodeOf(k))
        PROVE  \A n \in Node : latest'[n] = "active" => n # NodeOf(k) /\ latest[n] = "active"
    BY <1>5, <1>a, Calls, Releases
  <1>6. ASSUME NEW k \in Call, BeginCall(k) \/ ReadCosts(k) \/ Decide(k)
        PROVE  \A n \in Node : latest'[n] = "active" => Owned(n)'
    BY <1>1, <1>3, <1>4, <1>6 DEF CallStep, BeginCall, TimeOut, ReadCosts, Decide, ledger
  <1>7. ASSUME NEW k \in Call, CommitCost(k)
        PROVE  \A n \in Node : latest'[n] = "active" => Owned(n)'
    <2>1. \A n \in Node : latest'[n] = "active" => latest[n] = "active"
      BY <1>5, <1>7 DEF CommitCost, SettleAfterCommit
    <2> QED BY <1>1, <1>3, <1>4, <1>7, <2>1 DEF CallStep
  <1>8. ASSUME NEW k \in Call, Reserve(k)
        PROVE  \A n \in Node : latest'[n] = "active" => Owned(n)'
    <2>1. CASE AppendHold(NodeOf(k), "active") /\ Move(k, "executing")
      <3>1. pc'[k] = "executing"
        BY <2>1, <1>a, Moved DEF PC
      <3>2. Owned(NodeOf(k))'
        BY <3>1, Calls DEF Owned
      <3>3. \A n \in Node \ {NodeOf(k)} : latest'[n] = latest[n]
        BY <2>1, <1>a, Holds, Calls
      <3>4. ASSUME NEW n \in Node, n # NodeOf(k), latest[n] = "active" PROVE Owned(n)'
        <4>1. PICK i \in 1..MaxCalls : \/ pc[<<n, i>>] \in {"executing", "returned"}
                                       \/ pc[<<n, i>>] = "raised" /\ Excess(<<n, i>>)
          BY <1>3, <1>8, <1>b, <3>4 DEF Owned
        <4>2. <<n, i>> \in Call \ {k}
          BY <3>4, Calls
        <4>3. pc'[<<n, i>>] = pc[<<n, i>>] /\ (Excess(<<n, i>>) => Excess(<<n, i>>)')
          BY <1>3, <1>4, <1>8, <4>2 DEF CallStep, Excess
        <4> QED BY <4>1, <4>3 DEF Owned
      <3> QED BY <3>2, <3>3, <3>4
    <2>2. CASE UNCHANGED <<entry, latest, cache>>
      BY <1>1, <1>3, <1>4, <1>8, <2>2 DEF CallStep
    <2> QED BY <1>8, <2>1, <2>2 DEF Reserve
  <1>9. ASSUME NEW k \in Call, NEW status \in {"completed", "blocked"}, NEW cost \in Actual,
               ExecutorReturns(k, status, cost)
        PROVE  \A n \in Node : latest'[n] = "active" => Owned(n)'
    <2>1. pc'[k] = "returned" /\ \A j \in Call \ {k} : outcome'[j] = outcome[j]
      BY <1>9, <1>a, Moved DEF ExecutorReturns, PC
    <2> QED BY <1>2, <1>4, <1>9, <2>1 DEF CallStep, ExecutorReturns, ledger
  <1>10. ASSUME NEW k \in Call, ExecutorRaises(k)
        PROVE  \A n \in Node : latest'[n] = "active" => Owned(n)'
    <2>1. pc[k] = "executing" /\ UNCHANGED <<outcome, crashes>>
      BY <1>10 DEF ExecutorRaises
    <2>2. \A n \in Node : latest'[n] = "active" => n # NodeOf(k) /\ latest[n] = "active"
      BY <1>5, <1>10 DEF ExecutorRaises
    <2>3. latest'[NodeOf(k)] # "active"
      BY <2>2, Calls
    <2> QED BY <1>2, <1>4, <1>10, <2>1, <2>2, <2>3 DEF CallStep
  <1>11. ASSUME NEW k \in Call, CommitMark(k)
        PROVE  \A n \in Node : latest'[n] = "active" => Owned(n)'
    <2>1. /\ latest'[NodeOf(k)] # "active"
          /\ \A n \in Node \ {NodeOf(k)} : latest'[n] = latest[n]
      <3>1. AppendHold(NodeOf(k), "committed") /\ NodeOf(k) \in Node
        BY <1>11, Calls DEF CommitMark
      <3>2. latest[NodeOf(k)] = "active" => entry[NodeOf(k)]["committed"] = Absent
        BY <3>1 DEF HoldInv, HoldSound, Committed
      <3> QED BY <3>1, <3>2, <1>a, Holds
    <2> QED BY <1>2, <1>4, <1>11, <2>1 DEF CallStep, CommitMark
  <1>12. ASSUME NEW k \in Call, CommitFails(k)
        PROVE  \A n \in Node : latest'[n] = "active" => Owned(n)'
    <2>1. CASE Release(NodeOf(k))
      <3>1. pc[k] = "returned" /\ UNCHANGED <<outcome, crashes>>
        BY <1>12 DEF CommitFails
      <3>2. \A n \in Node : latest'[n] = "active" => n # NodeOf(k) /\ latest[n] = "active"
        BY <1>5, <2>1
      <3>3. latest'[NodeOf(k)] # "active"
        BY <3>2, Calls
      <3> QED BY <1>2, <1>4, <1>12, <3>1, <3>2, <3>3 DEF CallStep
    <2>2. CASE outcome[k].status = "completed" /\ UNCHANGED <<entry, latest, cache>>
      <3>1. ASSUME latest[NodeOf(k)] = "active" PROVE Excess(k)
        <4>1. cache[NodeOf(k)] = "active" /\ Appendable(NodeOf(k), "committed")
          BY <3>1, Calls DEF HoldInv, HoldSound, Committed, Appendable
        <4> QED BY <1>12, <2>2, <4>1 DEF CommitFails, MayCommit, Excess
      <3>2. pc'[k] = "raised"
        BY <1>12, <1>a, Moved DEF CommitFails, PC
      <3>3. UNCHANGED <<outcome, crashes>> /\ pc[k] = "returned"
        BY <1>12 DEF CommitFails
      <3>4. latest'[NodeOf(k)] = "active" => Excess(k)'
        BY <3>1, <3>3, <2>2 DEF Excess
      <3> QED BY <1>2, <1>4, <1>12, <2>2, <3>2, <3>3, <3>4 DEF CallStep
    <2> QED BY <1>12, <2>1, <2>2 DEF CommitFails
  <1>13. ASSUME Restart PROVE FALSE
    BY <1>13, <1>a DEF Restart
  <1>14. ASSUME Tick \/ UNCHANGED vars \/ \E k \in Call : TimeOut(k)
         PROVE  \A n \in Node : latest'[n] = "active" => Owned(n)'
    <2>1. UNCHANGED <<latest, pc, outcome, crashes>>
      BY <1>14 DEF Tick, TimeOut, vars, ledger
    <2> QED BY <2>1, <1>b DEF Owned, Excess
  <1> QED BY <1>6, <1>7, <1>8, <1>9, <1>10, <1>11, <1>12, <1>13, <1>14 DEF Next, CallStep

-----------------------------------------------------------------------------
BudgetInv == TypeInv /\ HoldInv /\ OwnerInv /\ LockInv /\ ChargeInv

LEMMA InitBudget == Init => BudgetInv
  <1> SUFFICES ASSUME Init PROVE BudgetInv
    OBVIOUS
  <1>1. TypeInv
    BY InitTypes DEF Init, TypeInv
  <1>2. \A n \in Node : entry[n] = [s \in HoldState |-> Absent] /\ latest[n] = "none" /\ cache[n] = "none"
    BY DEF Init
  <1>3. \A n \in Node : latest[n] = "none" /\ cache[n] = "none" /\ ~Committed(n) /\ entry[n]["released"] = Absent
    BY <1>2 DEF Committed, HoldState
  <1>4. HoldInv /\ OwnerInv
    BY <1>3 DEF HoldInv, HoldSound, OwnerInv
  <1>5. LockInv
    BY DEF Init, LockInv
  <1>6. ChargeInv
    BY <1>3 DEF Init, ChargeInv, Charged
  <1> QED BY <1>1, <1>4, <1>5, <1>6 DEF BudgetInv

LEMMA BudgetAlways == Spec => []BudgetInv
  <1>1. Init => BudgetInv
    BY InitBudget
  <1>2. BudgetInv /\ [Next]_vars => BudgetInv'
    BY TypesStep, HoldInvStep, OwnerInvStep, LockInvStep, ChargeInvStep DEF BudgetInv
  <1> QED BY <1>1, <1>2, PTL DEF Spec

\* The ledger, its cache, the clock and every call keep their types; what a call
\* has read of the cost entries is among those there are, for none is removed.
THEOREM BudgetTypes == Spec => []TypeOK
  <1>1. BudgetInv => TypeOK
    BY DEF BudgetInv, TypeInv
  <1> QED BY <1>1, BudgetAlways, PTL

\* While a process lives, no call of a node ends and leaves the node's reservation
\* active, unless it was completed at a cost above the estimate and the excess
\* was refused.
THEOREM NoLeakedHoldHolds == Spec => []NoLeakedHold
  <1>1. BudgetInv => NoLeakedHold
    <2> SUFFICES ASSUME BudgetInv, NEW n \in Node, crashes = 0,
                        \A i \in 1..MaxCalls : ~Running(<<n, i>>), latest[n] = "active"
                 PROVE  \E i \in 1..MaxCalls :
                           /\ outcome[<<n, i>>].status = "completed"
                           /\ outcome[<<n, i>>].cost > Estimate[n]
      BY DEF NoLeakedHold
    <2>1. PICK i \in 1..MaxCalls : \/ pc[<<n, i>>] \in {"executing", "returned"}
                                   \/ pc[<<n, i>>] = "raised" /\ Excess(<<n, i>>)
      BY DEF BudgetInv, OwnerInv
    <2>2. Excess(<<n, i>>)
      BY <2>1 DEF Running, Ended
    <2> QED BY <2>2, Calls DEF Excess
  <1> QED BY <1>1, BudgetAlways, PTL

\* While a process lives, a committed reservation has its cost entry as soon as
\* commit has returned, and no other reservation has one.
THEOREM CommittedIsChargedHolds == Spec => []CommittedIsCharged
  <1>1. BudgetInv => CommittedIsCharged
    BY DEF BudgetInv, ChargeInv, CommittedIsCharged, Charged, Committed
  <1> QED BY <1>1, BudgetAlways, PTL

-----------------------------------------------------------------------------
\* No more calls run than there are workers.
RunningCalls == {k \in Call : Running(k)}
WorkersInv == Cardinality(RunningCalls) <= Workers

LEMMA CallsFinite == IsFiniteSet(Call)
  <1>1. IsFiniteSet(Node) /\ MaxCalls \in Nat
    BY BudgetAssumption
  <1>2. IsFiniteSet(1..MaxCalls)
    BY <1>1, FS_Interval
  <1> QED BY <1>1, <1>2, FS_Product DEF Call

\* What a step of a call does to the places of the calls.
LEMMA CallMoves ==
    ASSUME TypeOK, NEW k \in Call, CallStep(k)
    PROVE  /\ pc' \in [Call -> PC]
           /\ \A j \in Call \ {k} : pc'[j] = pc[j]
           /\ pc[k] \notin Ended /\ pc'[k] # "new"
           /\ pc[k] = "new" => BeginCall(k)
  <1>1. (UNCHANGED pc /\ TimeOut(k)) \/ \E place \in PC \ {"new"} : Move(k, place)
    BY DEF CallStep, BeginCall, TimeOut, ReadCosts, Decide, Reserve, ExecutorReturns, ExecutorRaises,
           CommitMark, CommitCost, SettleAfterCommit, CommitFails, PC
  <1>2. /\ pc' \in [Call -> PC] /\ pc'[k] # "new"
        /\ \A j \in Call \ {k} : pc'[j] = pc[j]
    BY <1>1, Moved DEF TimeOut, Running, TypeOK
  <1>3. pc[k] \notin Ended /\ (pc[k] = "new" => BeginCall(k))
    BY DEF CallStep, Running, BeginCall, TimeOut, ReadCosts, Decide, Reserve, ExecutorReturns, ExecutorRaises,
           CommitMark, CommitCost, CommitFails, Ended
  <1> QED BY <1>2, <1>3

LEMMA WorkersInvStep == TypeInv /\ WorkersInv /\ [Next]_vars => WorkersInv'
  <1> SUFFICES ASSUME TypeInv, WorkersInv, [Next]_vars PROVE Cardinality(RunningCalls') <= Workers
    BY DEF WorkersInv
  <1>a. TypeOK /\ pc \in [Call -> PC] /\ Workers \in Nat
    BY BudgetAssumption DEF TypeInv, TypeOK
  <1>b. IsFiniteSet(RunningCalls) /\ Cardinality(RunningCalls) \in Nat
        /\ Cardinality(RunningCalls) <= Workers
    BY CallsFinite, FS_Subset, FS_CardinalityType DEF RunningCalls, WorkersInv
  <1>1. ASSUME RunningCalls' \subseteq RunningCalls PROVE Cardinality(RunningCalls') <= Workers
    <2>1. IsFiniteSet(RunningCalls') /\ Cardinality(RunningCalls') <= Cardinality(RunningCalls)
      BY <1>1, <1>b, FS_Subset
    <2>2. Cardinality(RunningCalls') \in Nat
      BY <2>1, FS_CardinalityType
    <2> QED BY <1>a, <1>b, <2>1, <2>2
  <1>2. ASSUME NEW k \in Call, CallStep(k) PROVE Cardinality(RunningCalls') <= Workers
    <2>1. /\ \A j \in Call \ {k} : pc'[j] = pc[j]
          /\ pc[k] \notin Ended /\ (pc[k] = "new" => BeginCall(k))
      BY <1>2, <1>a, CallMoves
    <2>2. CASE pc[k] # "new"
      <3>1. RunningCalls' \subseteq RunningCalls
        BY <2>1, <2>2 DEF RunningCalls, Running
      <3> QED BY <3>1, <1>1
    <2>3. CASE pc[k] = "new"
      <3>1. RunningCalls' \subseteq RunningCalls \cup {k} /\ k \notin RunningCalls
        BY <2>1, <2>3 DEF RunningCalls, Running
      <3>2. Cardinality(RunningCalls) < Workers
        BY <2>1, <2>3 DEF BeginCall, RunningCalls
      <3>3. /\ IsFiniteSet(RunningCalls \cup {k})
            /\ Cardinality(RunningCalls \cup {k}) = Cardinality(RunningCalls) + 1
        BY <1>b, <3>1, FS_AddElement
      <3>4. IsFiniteSet(RunningCalls') /\ Cardinality(RunningCalls') <= Cardinality(RunningCalls) + 1
        BY <3>1, <3>3, FS_Subset
      <3>5. Cardinality(RunningCalls') \in Nat
        BY <3>4, FS_CardinalityType
      <3> QED BY <1>a, <1>b, <3>2, <3>4, <3>5
    <2> QED BY <2>2, <2>3
  <1>3. CASE Restart
    <2>1. RunningCalls' \subseteq RunningCalls
      BY <1>3, <1>a DEF Restart, RunningCalls, Running, Ended
    <2> QED BY <2>1, <1>1
  <1>4. CASE UNCHANGED pc
    <2>1. RunningCalls' \subseteq RunningCalls
      BY <1>4 DEF RunningCalls, Running
    <2> QED BY <2>1, <1>1
  <1> QED BY <1>2, <1>3, <1>4 DEF Next, Tick, vars

\* What a step of a call does to the reservations: its node's only.
LEMMA CallTouches ==
    ASSUME TypeOK, HoldInv, NEW k \in Call, CallStep(k)
    PROVE  /\ \A m \in Node \ {NodeOf(k)} : /\ entry'[m] = entry[m] /\ latest'[m] = latest[m]
                                            /\ cache'[m] = cache[m]
           /\ \/ UNCHANGED <<entry, latest, cache>>
              \/ Release(NodeOf(k)) /\ pc[k] \in {"executing", "returned", "marked"}
              \/ /\ AppendHold(NodeOf(k), "active") /\ pc[k] = "allowed" /\ pc'[k] = "executing"
                 /\ Appendable(NodeOf(k), "active")
              \/ CommitMark(k)
  <1>1. \/ UNCHANGED <<entry, latest, cache>>
        \/ Release(NodeOf(k)) /\ pc[k] \in {"executing", "returned", "marked"}
        \/ /\ AppendHold(NodeOf(k), "active") /\ pc[k] = "allowed" /\ Move(k, "executing")
           /\ Appendable(NodeOf(k), "active")
        \/ CommitMark(k)
    BY DEF CallStep, BeginCall, TimeOut, ReadCosts, Decide, Reserve, ExecutorReturns, ExecutorRaises,
           CommitCost, SettleAfterCommit, CommitFails, ledger
  <1>2. NodeOf(k) \in Node /\ {"active", "committed"} \subseteq HoldState /\ "executing" \in PC
    BY Calls DEF HoldState, PC
  <1>3. CASE UNCHANGED <<entry, latest, cache>>
    BY <1>3
  <1>4. CASE Release(NodeOf(k)) /\ pc[k] \in {"executing", "returned", "marked"}
    BY <1>2, <1>4, Releases
  <1>5. CASE /\ AppendHold(NodeOf(k), "active") /\ pc[k] = "allowed" /\ Move(k, "executing")
             /\ Appendable(NodeOf(k), "active")
    <2>1. pc'[k] = "executing"
      BY <1>2, <1>5, Moved
    <2> QED BY <1>2, <1>5, <2>1, Holds
  <1>6. CASE CommitMark(k)
    BY <1>2, <1>6, Holds DEF CommitMark
  <1> QED BY <1>1, <1>3, <1>4, <1>5, <1>6

\* The cache takes a hold for active only while the ledger does, but for the nodes
\* that were handed a settled one; and while a call is between the two appends of
\* commit, nobody else writes its hold.
SettledInv ==
    /\ \A n \in Node :
          /\ latest[n] = "none" => entry[n]["active"] = Absent
          /\ n \notin reused /\ cache[n] = "active" => latest[n] = "active"
    /\ \A k \in Call : pc[k] = "marked" => cache[NodeOf(k)] = "committed"

LEMMA SettledInvStep ==
    TypeInv /\ HoldInv /\ LockInv /\ SettledInv /\ [Next]_vars => SettledInv'
  <1> SUFFICES ASSUME TypeInv, HoldInv, LockInv, SettledInv, [Next]_vars PROVE SettledInv'
    OBVIOUS
  <1>a. /\ TypeOK /\ pc \in [Call -> PC] /\ latest \in [Node -> Hold]
        /\ {"active", "committed", "released"} \subseteq HoldState
    BY DEF TypeInv, TypeOK, HoldState
  <1>1. ASSUME NEW k \in Call, CallStep(k) PROVE SettledInv'
    <2> DEFINE n == NodeOf(k)
    <2>1. /\ n \in Node /\ reused \subseteq reused'
          /\ \A j \in Call \ {k} : pc'[j] = pc[j]
          /\ \A m \in Node \ {n} : entry'[m] = entry[m] /\ latest'[m] = latest[m] /\ cache'[m] = cache[m]
      <3>1. reused \subseteq reused'
        BY <1>1 DEF CallStep, BeginCall, TimeOut, ReadCosts, Decide, Reserve, ExecutorReturns,
                    ExecutorRaises, CommitMark, CommitCost, CommitFails
      <3> QED BY <1>1, <1>a, <3>1, Calls, CallMoves, CallTouches
    <2>2. /\ latest'[n] = "none" => entry'[n]["active"] = Absent
          /\ n \notin reused' /\ cache'[n] = "active" => latest'[n] = "active"
      <3>0. /\ latest[n] = "none" => entry[n]["active"] = Absent
            /\ n \notin reused' /\ cache[n] = "active" => latest[n] = "active"
        BY <2>1 DEF SettledInv
      <3>1. CASE UNCHANGED <<entry, latest, cache>>
        BY <3>0, <3>1
      <3>2. CASE Release(n) /\ AppendHold(n, "released")
        <4>1. /\ entry'[n]["active"] = entry[n]["active"] /\ cache'[n] = "released"
              /\ latest'[n] = IF entry[n]["released"] = Absent THEN "released" ELSE latest[n]
          BY <1>a, <2>1, <3>2, Holds
        <4> QED BY <3>0, <4>1
      <3>3. CASE AppendHold(n, "active") /\ Reserve(k)
        <4>1. /\ entry'[n]["active"] = now /\ now # Absent /\ cache'[n] = "active"
              /\ latest'[n] = IF entry[n]["active"] = Absent THEN "active" ELSE latest[n]
          BY <1>a, <2>1, <3>3, Holds DEF TypeOK, Clock, Absent
        <4>2. n \notin reused' /\ Appendable(n, "active") => latest[n] \notin {"committed", "released"}
          BY <3>3 DEF Reserve
        <4>3. latest[n] \in {"none", "active", "committed", "released"}
          BY <1>a, <2>1 DEF Hold, HoldState
        <4>4. Appendable(n, "active") \/ UNCHANGED <<entry, latest, cache>>
          BY <3>3 DEF Reserve
        <4> QED BY <3>0, <3>1, <4>1, <4>2, <4>3, <4>4
      <3>4. CASE CommitMark(k)
        <4>1. /\ entry'[n]["active"] = entry[n]["active"] /\ cache'[n] = "committed"
              /\ latest'[n] = IF entry[n]["committed"] = Absent THEN "committed" ELSE latest[n]
          BY <1>a, <2>1, <3>4, Holds DEF CommitMark
        <4> QED BY <3>0, <4>1
      <3>5. \/ UNCHANGED <<entry, latest, cache>>
            \/ Release(n)
            \/ AppendHold(n, "active") /\ Reserve(k)
            \/ CommitMark(k)
        BY <1>1 DEF CallStep, BeginCall, TimeOut, ReadCosts, Decide, Reserve, ExecutorReturns,
                    ExecutorRaises, CommitCost, SettleAfterCommit, CommitFails, ledger
      <3> QED BY <3>1, <3>2, <3>3, <3>4, <3>5 DEF Release
    <2>3. ASSUME NEW j \in Call, pc'[j] = "marked" PROVE cache'[NodeOf(j)] = "committed"
      <3>1. CASE CommitMark(k)
        <4>1. lock = NoCall /\ pc'[k] = "marked" /\ cache'[n] = "committed"
          BY <1>a, <2>1, <3>1, Moved, Holds DEF CommitMark, PC
        <4>2. j = k
          BY <2>1, <2>3, <4>1, Calls DEF LockInv
        <4> QED BY <4>1, <4>2
      <3>2. CASE ~CommitMark(k)
        <4>1. \A place \in PC : Move(k, place) => pc'[k] = place
          BY <1>a, Moved
        <4>2. pc[j] = "marked"
          <5>1. pc'[k] = "marked" => pc[k] = "marked"
            BY <1>1, <3>2, <4>1
               DEF CallStep, BeginCall, TimeOut, ReadCosts, Decide, Reserve, ExecutorReturns,
                   ExecutorRaises, CommitCost, SettleAfterCommit, CommitFails, PC
          <5> QED BY <2>1, <2>3, <5>1
        <4>3. lock = j /\ lock # NoCall /\ cache[NodeOf(j)] = "committed"
          BY <4>2, Calls DEF LockInv, SettledInv
        <4>4. UNCHANGED cache \/ CommitCost(k)
          BY <1>1, <3>2, <4>3
             DEF CallStep, BeginCall, TimeOut, ReadCosts, Decide, Reserve, ExecutorReturns,
                 ExecutorRaises, CommitFails
        <4>5. ~CommitCost(k)
          <5>1. CommitCost(k) => k = j /\ pc'[k] \in {"done", "blocked"}
            BY <4>1, <4>3 DEF CommitCost, SettleAfterCommit, LockInv, PC
          <5> QED BY <2>3, <5>1
        <4> QED BY <4>3, <4>4, <4>5
      <3> QED BY <3>1, <3>2
    <2> QED BY <2>1, <2>2, <2>3 DEF SettledInv
  <1>2. CASE Tick \/ UNCHANGED vars
    BY <1>2 DEF Tick, vars, ledger, SettledInv
  <1>3. CASE Restart
    <2>1. /\ UNCHANGED <<entry, latest, reused>> /\ cache' = latest
          /\ \A k \in Call : pc'[k] # "marked"
      BY <1>a, <1>3 DEF Restart, ledger, Running, Ended, PC
    <2> QED BY <2>1 DEF SettledInv
  <1> QED BY <1>1, <1>2, <1>3 DEF Next

\* A cost entry is of a hold that has been committed, and there are finitely many.
CostsInv == IsFiniteSet(costs) /\ \A n \in Node : Charged(n) => Committed(n)

LEMMA CostsInvStep ==
    TypeInv /\ HoldInv /\ LockInv /\ CostsInv /\ [Next]_vars => CostsInv'
  <1> SUFFICES ASSUME TypeInv, HoldInv, LockInv, CostsInv, [Next]_vars PROVE CostsInv'
    OBVIOUS
  <1>a. TypeOK /\ now # Absent /\ {"active", "committed", "released"} \subseteq HoldState
    BY DEF TypeInv, TypeOK, Clock, Absent, HoldState
  <1>1. ASSUME NEW n \in Node, Committed(n) PROVE Committed(n)'
    <2>1. ASSUME NEW k \in Call, CallStep(k) PROVE Committed(n)'
      <3>1. CASE n # NodeOf(k)
        BY <1>1, <1>a, <2>1, <3>1, CallTouches DEF Committed
      <3>2. CASE n = NodeOf(k) /\ Release(n)
        BY <1>1, <1>a, <3>2, Releases DEF Committed
      <3>3. CASE n = NodeOf(k) /\ AppendHold(n, "active")
        BY <1>1, <1>a, <3>3, Holds DEF Committed
      <3>4. CASE n = NodeOf(k) /\ AppendHold(n, "committed")
        BY <1>1, <1>a, <3>4, Holds DEF Committed
      <3> QED BY <1>1, <1>a, <2>1, <3>1, <3>2, <3>3, <3>4, CallTouches DEF CommitMark, Committed
    <2> QED BY <1>1, <2>1 DEF Next, Tick, Restart, vars, ledger, Committed
  <1>2. CASE UNCHANGED costs
    BY <1>1, <1>2 DEF CostsInv, Charged
  <1>3. ASSUME NEW k \in Call, CommitCost(k) PROVE CostsInv'
    <2>1. PICK e : e[1] = NodeOf(k) /\ costs' = costs \cup {e}
      <3>1. <<NodeOf(k), outcome[k].cost, now>>[1] = NodeOf(k)
        OBVIOUS
      <3> QED BY <1>3, <3>1 DEF CommitCost
    <2>2. IsFiniteSet(costs')
      BY <2>1, FS_AddElement DEF CostsInv
    <2>3. Committed(NodeOf(k)) /\ NodeOf(k) \in Node
      BY <1>3, Calls DEF CommitCost, LockInv
    <2> QED BY <1>1, <2>1, <2>2, <2>3 DEF CostsInv, Charged
  <1> QED BY <1>2, <1>3 DEF Next, CallStep, BeginCall, TimeOut, ReadCosts, Decide, Reserve, ExecutorReturns,
        ExecutorRaises, CommitMark, CommitFails, Tick, Restart, vars, ledger

-----------------------------------------------------------------------------
MaxEstimate == Max({Estimate[n] : n \in Node})
Margin == (Workers - 1) * MaxEstimate

LEMMA Largest ==
    /\ MaxEstimate \in Nat
    /\ \A n \in Node : Estimate[n] \in 0..MaxEstimate
  <1> DEFINE S == {Estimate[n] : n \in Node}
             B == Total(Estimate, Node)
             Gap == {B - x : x \in S}
  <1>1. /\ IsFiniteSet(Node) /\ Node # {}
        /\ \A n \in Node : Estimate[n] \in Nat
    BY BudgetAssumption
  <1>2. B \in Nat /\ \A n \in Node : Estimate[n] <= B
    <2>1. B \in Nat
      BY <1>1, TotalType
    <2>2. ASSUME NEW n \in Node PROVE Estimate[n] <= B
      <3> DEFINE Others == Total(Estimate, Node \ {n})
      <3>1. B = Estimate[n] + Others
        BY <1>1, TotalRemove
      <3>2. IsFiniteSet(Node \ {n})
        BY <1>1, FS_RemoveElement
      <3>3. Others \in Nat
        BY <1>1, <3>2, TotalType
      <3>4. Estimate[n] \in Nat
        BY <1>1
      <3> HIDE DEF B, Others
      <3> QED BY <2>1, <3>1, <3>3, <3>4
    <2> QED BY <2>1, <2>2
  <1>3. \A x \in S : x \in Nat /\ x <= B
    BY <1>1, <1>2
  <1> HIDE DEF B
  <1>4. \E x \in S : \A y \in S : x >= y
    <2>1. Gap \subseteq Nat /\ Gap # {}
      BY <1>1, <1>2, <1>3
    <2>2. IsWellFoundedOn(Less, Nat)
      BY NatLessThanWellFounded, Zenon DEF Less
    <2>3. Less = {ss \in Nat \X Nat : ss[1] < ss[2]}
      BY Zenon DEF Less, OpToRel
    <2>4. PICK g \in Gap : \A h \in Gap : <<h, g>> \notin Less
      <3> HIDE DEF Gap
      <3> QED BY <2>1, <2>2, WFMin
    <2>5. PICK x \in S : g = B - x
      OBVIOUS
    <2>6. ASSUME NEW y \in S PROVE x >= y
      <3>1. B - y \in Gap /\ B - y \in Nat /\ g \in Nat
        BY <1>2, <1>3
      <3>2. ~(B - y < g)
        BY <2>3, <2>4, <3>1
      <3> QED BY <1>2, <1>3, <2>5, <3>2
    <2> QED BY <2>6
  <1>5. MaxEstimate \in S /\ \A y \in S : MaxEstimate >= y
    <2>1. MaxEstimate = CHOOSE x \in S : \A y \in S : x >= y
      BY DEF MaxEstimate, Max
    <2> HIDE DEF S
    <2> QED BY <1>4, <2>1
  <1> QED BY <1>1, <1>3, <1>5

\* Sums of estimates.
LEMMA Estimates ==
    ASSUME NEW X \in SUBSET Node
    PROVE  /\ Total(Estimate, X) \in Nat
           /\ Total(Estimate, X) <= Cardinality(X) * MaxEstimate
           /\ \A Y \in SUBSET X : Total(Estimate, Y) <= Total(Estimate, X)
  <1>1. IsFiniteSet(X) /\ \A n \in X : Estimate[n] \in Nat /\ Estimate[n] \in 0..MaxEstimate
    BY BudgetAssumption, FS_Subset, Largest
  <1>2. Total(Estimate, X) \in Nat
    BY <1>1, TotalType
  <1>3. Total(Estimate, X) <= Cardinality(X) * MaxEstimate
    BY <1>1, Largest, TotalBound
  <1>4. \A Y \in SUBSET X : Total(Estimate, Y) <= Total(Estimate, X)
    BY <1>1, TotalSplit
  <1> QED BY <1>2, <1>3, <1>4

LEMMA EstimatesJoin ==
    ASSUME NEW X \in SUBSET Node, NEW Y \in SUBSET Node
    PROVE  Total(Estimate, X \cup Y) <= Total(Estimate, X) + Total(Estimate, Y)
  <1>1. IsFiniteSet(X \cup Y) /\ \A n \in X \cup Y : Estimate[n] \in Nat
    BY BudgetAssumption, FS_Subset
  <1>2. Total(Estimate, X \cup Y) = Total(Estimate, X) + Total(Estimate, (X \cup Y) \ X)
    <2>1. X \in SUBSET (X \cup Y)
      OBVIOUS
    <2> QED BY <1>1, <2>1, TotalSplit
  <1>3. (X \cup Y) \ X \in SUBSET Y
    OBVIOUS
  <1>4. Total(Estimate, (X \cup Y) \ X) <= Total(Estimate, Y)
    BY <1>3, Estimates
  <1>5. /\ Total(Estimate, X) \in Nat /\ Total(Estimate, Y) \in Nat
        /\ Total(Estimate, (X \cup Y) \ X) \in Nat
    BY <1>3, Estimates
  <1> QED BY <1>2, <1>4, <1>5

LEMMA EstimatesAdd ==
    ASSUME NEW X \in SUBSET Node, NEW n \in Node \ X
    PROVE  Total(Estimate, X \cup {n}) = Total(Estimate, X) + Estimate[n]
  <1>1. IsFiniteSet(X) /\ \A m \in X \cup {n} : Estimate[m] \in Nat
    BY BudgetAssumption, FS_Subset
  <1> QED BY <1>1, TotalAdd

\* Cost entries of a category, but for those of some nodes.
Counted(cs, c, U) ==
    Total(CostOf, {e \in cs : CategoryOf[e[1]] = c /\ e[1] \notin U})

LEMMA CostsAreNumbers ==
    ASSUME TypeInv, CostsInv, NEW cs \in SUBSET costs, NEW c, NEW U
    PROVE  /\ Counted(cs, c, U) \in Nat /\ SpentIn(cs, c) \in Nat
           /\ Counted(cs, c, U) <= SpentIn(cs, c)
           /\ IsFiniteSet(cs) /\ \A e \in cs : CostOf[e] \in Nat
  <1> DEFINE S == {e \in cs : CategoryOf[e[1]] = c}
             D == {e \in cs : CategoryOf[e[1]] = c /\ e[1] \notin U}
  <1>1. IsFiniteSet(cs)
    BY FS_Subset DEF CostsInv
  <1>2. \A e \in cs : CostOf[e] \in Nat
    BY DEF CostOf, TypeInv, TypeOK
  <1>3. IsFiniteSet(S) /\ D \in SUBSET S /\ S \in SUBSET cs
    BY <1>1, FS_Subset
  <1>4. /\ Total(CostOf, S) \in Nat /\ Total(CostOf, D) \in Nat
        /\ Total(CostOf, D) <= Total(CostOf, S)
    <2> HIDE DEF D, S
    <2> QED BY <1>2, <1>3, TotalSplit
  <1> QED BY <1>1, <1>2, <1>4 DEF Counted, SpentIn

\* So many other calls run at most, and reserve so much.
LEMMA Crowd ==
    ASSUME TypeOK, WorkersInv, NEW k \in RunningCalls, NEW J \in SUBSET (RunningCalls \ {k})
    PROVE  /\ Margin \in Nat
           /\ Total(Estimate, {NodeOf(j) : j \in J}) <= Margin
           /\ J # RunningCalls \ {k} => Total(Estimate, {NodeOf(j) : j \in J}) + MaxEstimate <= Margin
  <1> DEFINE X == {NodeOf(j) : j \in J}
             f == [j \in J |-> NodeOf(j)]
             Q == RunningCalls \ {k}
             M == MaxEstimate
  <1>1. /\ IsFiniteSet(RunningCalls) /\ Cardinality(RunningCalls) \in Nat
        /\ IsFiniteSet(Q) /\ Cardinality(Q) = Cardinality(RunningCalls) - 1
        /\ Cardinality(Q) \in Nat
    BY CallsFinite, FS_Subset, FS_RemoveElement, FS_CardinalityType DEF RunningCalls
  <1>2. IsFiniteSet(J) /\ Cardinality(J) \in Nat /\ Cardinality(J) <= Cardinality(Q)
        /\ (J # Q => Cardinality(J) # Cardinality(Q))
    BY <1>1, FS_Subset, FS_CardinalityType
  <1>3. f \in Surjection(J, X)
    BY DEF Surjection
  <1>4. IsFiniteSet(X) /\ Cardinality(X) <= Cardinality(J)
    BY <1>2, <1>3, FS_Surjection
  <1>5. Cardinality(X) \in Nat
    BY <1>4, FS_CardinalityType
  <1>6. X \in SUBSET Node
    BY Calls DEF RunningCalls
  <1>7. Total(Estimate, X) \in Nat /\ Total(Estimate, X) <= Cardinality(X) * M
    BY <1>6, Estimates
  <1>8. Workers - 1 \in Nat /\ Cardinality(X) <= Workers - 1
        /\ (J # Q => Cardinality(X) + 1 <= Workers - 1)
    BY <1>1, <1>2, <1>4, <1>5, BudgetAssumption DEF WorkersInv
  <1>9. M \in Nat
    BY Largest
  <1>10. \A a, b \in Nat : a <= b => a * M <= b * M
    <2> HIDE DEF M
    <2> QED BY <1>9, SMTT(30)
  <1>11. Cardinality(X) * M <= Margin /\ Margin \in Nat
         /\ (J # Q => (Cardinality(X) + 1) * M <= Margin)
    BY <1>5, <1>8, <1>9, <1>10 DEF Margin
  <1>12. (Cardinality(X) + 1) * M = Cardinality(X) * M + M
    <2> HIDE DEF M, X
    <2> QED BY <1>5, <1>9
  <1>13. Cardinality(X) * M \in Nat
    <2> HIDE DEF M, X
    <2> QED BY <1>5, <1>9
  <1> HIDE DEF X, M, Q
  <1> QED BY <1>7, <1>9, <1>11, <1>12, <1>13 DEF M, X, Q

LEMMA CountedLess ==
    ASSUME TypeInv, CostsInv, NEW cs \in SUBSET costs, NEW c, NEW U, NEW V, U \subseteq V
    PROVE  Counted(cs, c, V) <= Counted(cs, c, U)
  <1> DEFINE S == {e \in cs : CategoryOf[e[1]] = c /\ e[1] \notin U}
             D == {e \in cs : CategoryOf[e[1]] = c /\ e[1] \notin V}
  <1>1. IsFiniteSet(S) /\ D \in SUBSET S
    BY FS_Subset DEF CostsInv
  <1>2. \A e \in S : CostOf[e] \in Nat
    BY CostsAreNumbers
  <1>3. Total(CostOf, D) <= Total(CostOf, S)
    <2> HIDE DEF D, S
    <2> QED BY <1>1, <1>2, TotalSplit
  <1> QED BY <1>3 DEF Counted

SafeInv ==
    /\ TypeInv /\ HoldInv /\ LockInv
    /\ WorkersInv /\ SettledInv /\ CostsInv

Active(c) == {n \in Node : latest[n] = "active" /\ CategoryOf[n] = c}
At(c, places) == {n \in Node : CategoryOf[n] = c /\ \E i \in 1..MaxCalls : pc[<<n, i>>] \in places}
Reading(c) == {k \in Call : pc[k] = "reading" /\ CategoryOf[NodeOf(k)] = c}
Late(R) == {NodeOf(k) : k \in R}

\* What the call that holds the lock is about to charge.
Charging(c) ==
    IF lock # NoCall /\ CategoryOf[NodeOf(lock)] = c /\ NodeOf(lock) \notin reused
    THEN outcome[lock].cost ELSE 0

\* Active holds that no call under way can settle, those of R included.
Left(c, R) == Active(c) \ (At(c, {"executing", "returned", "allowed"}) \cup Late(R))
\* Nodes never reserved: a reservation of another adds nothing.
Fresh == {n \in Node : entry[n]["active"] = Absent}
Exposed(c, R) == Active(c) \cup ((At(c, {"allowed"}) \cup Late(R)) \cap Fresh)

TooLittleLeft(k, c, R) ==
    SpentIn(seen[k], c) + Total(Estimate, Left(c, R)) + Estimate[NodeOf(k)] > Cap[c]
Tally(c, R) == Counted(costs, c, reused) + Charging(c) + Total(Estimate, Exposed(c, R))

\* R are the calls whose decision may come too late.  Any other reader has read so
\* much that it will be refused; and if all of R are allowed and reserve, the
\* category is not further over its cap than the margin.
Bounded(c, R) ==
    /\ \A k \in Reading(c) \ R : TooLittleLeft(k, c, R)
    /\ Tally(c, R) <= Cap[c] + Margin

OverInv == \A c \in Category : \E R \in SUBSET Reading(c) : Bounded(c, R)

\* An excess that is being committed fits under the cap.
ExcessInv ==
    lock # NoCall /\ outcome[lock].cost > Estimate[NodeOf(lock)] /\ NodeOf(lock) \notin reused =>
        LET c == CategoryOf[NodeOf(lock)] IN
        Counted(costs, c, reused) + outcome[lock].cost + Total(Estimate, Active(c)) <= Cap[c]

LEMMA Nodes ==
    ASSUME NEW c, NEW R \in SUBSET Call
    PROVE  /\ Active(c) \in SUBSET Node /\ Late(R) \in SUBSET Node
           /\ \A places : At(c, places) \in SUBSET Node
           /\ Left(c, R) \in SUBSET Node /\ Exposed(c, R) \in SUBSET Node
           /\ Left(c, R) \subseteq Active(c) /\ Active(c) \subseteq Exposed(c, R)
  BY Calls DEF Active, Late, At, Left, Exposed, Fresh

LEMMA ChargingIsNumber == ASSUME TypeInv, NEW c PROVE Charging(c) \in Nat
  <1>1. \A k \in Call : outcome[k].cost \in Nat
    <2>1. \A k \in Call : outcome[k].cost \in Actual \cup {0}
      BY DEF TypeInv, TypeOK, Outcome
    <2>2. \A x \in Actual : x \in Nat
      BY BudgetAssumption
    <2> QED BY <2>1, <2>2
  <1>2. lock # NoCall => lock \in Call
    BY DEF TypeInv, TypeOK
  <1> QED BY <1>1, <1>2 DEF Charging

LEMMA BoundsAreNumbers ==
    ASSUME NEW c \in Category
    PROVE  Cap[c] \in Nat /\ Margin \in Int /\ \A n \in Node : Estimate[n] \in Nat
  <1>1. Workers \in Nat /\ MaxEstimate \in Nat
    BY BudgetAssumption, Largest
  <1> QED BY <1>1, BudgetAssumption DEF Margin

\* The terms of a tally, before a step and after it.
LEMMA Terms ==
    ASSUME SafeInv, NEW c, NEW R \in SUBSET Reading(c)
    PROVE  /\ Counted(costs, c, reused) \in Nat /\ Charging(c) \in Nat
           /\ \A k \in Call : SpentIn(seen[k], c) \in Nat
           /\ Total(Estimate, Left(c, R)) \in Nat /\ Total(Estimate, Exposed(c, R)) \in Nat
           /\ Total(Estimate, Active(c)) \in Nat
           /\ Left(c, R) \in SUBSET Node /\ Exposed(c, R) \in SUBSET Node /\ Active(c) \in SUBSET Node
  <1>1. Counted(costs, c, reused) \in Nat /\ Charging(c) \in Nat
    BY CostsAreNumbers, ChargingIsNumber DEF SafeInv
  <1>2. \A k \in Call : SpentIn(seen[k], c) \in Nat
    BY CostsAreNumbers DEF SafeInv, TypeInv
  <1>3. R \in SUBSET Call
    BY DEF Reading
  <1>4. Left(c, R) \in SUBSET Node /\ Exposed(c, R) \in SUBSET Node /\ Active(c) \in SUBSET Node
    BY <1>3, Nodes
  <1> QED BY <1>1, <1>2, <1>4, Estimates

LEMMA TermsNext ==
    ASSUME SafeInv', NEW c, NEW S \in SUBSET Reading(c)'
    PROVE  /\ Counted(costs', c, reused') \in Nat /\ Charging(c)' \in Nat
           /\ Total(Estimate, Left(c, S)') \in Nat /\ Total(Estimate, Exposed(c, S)') \in Nat
           /\ Total(Estimate, Active(c)') \in Nat
           /\ Left(c, S)' \in SUBSET Node /\ Exposed(c, S)' \in SUBSET Node /\ Active(c)' \in SUBSET Node
  <1>1. Counted(costs', c, reused') \in Nat
    <2>1. IsFiniteSet(costs') /\ costs' \subseteq Node \X Nat \X Clock
      BY DEF SafeInv, TypeInv, TypeOK, CostsInv
    <2> DEFINE D == {e \in costs' : CategoryOf[e[1]] = c /\ e[1] \notin reused'}
    <2>2. IsFiniteSet(D) /\ \A e \in D : CostOf[e] \in Nat
      BY <2>1, FS_Subset DEF CostOf
    <2> HIDE DEF D
    <2>3. Total(CostOf, D) \in Nat
      BY <2>2, TotalType
    <2> QED BY <2>3 DEF D, Counted
  <1>2. Charging(c)' \in Nat
    <2>1. \A k \in Call : outcome'[k].cost \in Actual \cup {0}
      BY DEF SafeInv, TypeInv, TypeOK, Outcome
    <2>2. \A x \in Actual : x \in Nat
      BY BudgetAssumption
    <2>3. lock' # NoCall => lock' \in Call
      BY DEF SafeInv, TypeInv, TypeOK
    <2> QED BY <2>1, <2>2, <2>3 DEF Charging
  <1>3. Left(c, S)' \in SUBSET Node /\ Exposed(c, S)' \in SUBSET Node /\ Active(c)' \in SUBSET Node
    BY Calls DEF Left, Exposed, Active, At, Late, Reading, Fresh
  <1> QED BY <1>1, <1>2, <1>3, Estimates

\* A step after which no more is left and no more is tallied.
LEMMA Narrows ==
    ASSUME SafeInv, NEW c \in Category, NEW R \in SUBSET Reading(c), Bounded(c, R),
           NEW S \in SUBSET Reading(c)',
           Left(c, S)' \in SUBSET Node,
           Total(Estimate, Left(c, R)) <= Total(Estimate, Left(c, S)'),
           Tally(c, S)' <= Tally(c, R), Tally(c, S)' \in Int,
           \A k \in Reading(c)' \ S :
              \/ /\ k \in Reading(c) \ R
                 /\ seen'[k] = seen[k]
              \/ TooLittleLeft(k, c, S)'
    PROVE  Bounded(c, S)'
  <1>1. /\ \A k \in Call : SpentIn(seen[k], c) \in Nat
        /\ Total(Estimate, Left(c, R)) \in Nat /\ Total(Estimate, Left(c, S)') \in Nat
        /\ Tally(c, R) \in Int
    BY Terms, Estimates DEF Tally
  <1>2. Cap[c] \in Nat /\ Margin \in Int /\ \A n \in Node : Estimate[n] \in Nat
    BY BoundsAreNumbers
  <1>3. ASSUME NEW k \in Reading(c)' \ S PROVE TooLittleLeft(k, c, S)'
    <2>1. CASE /\ k \in Reading(c) \ R
               /\ seen'[k] = seen[k]
      <3>1. /\ k \in Call /\ NodeOf(k) \in Node
            /\ SpentIn(seen[k], c) + Total(Estimate, Left(c, R)) + Estimate[NodeOf(k)] > Cap[c]
        BY <2>1, Calls DEF Bounded, Reading, TooLittleLeft
      <3>2. SpentIn(seen'[k], c) + Total(Estimate, Left(c, S)') + Estimate[NodeOf(k)] > Cap[c]
        BY <1>1, <1>2, <2>1, <3>1
      <3> QED BY <3>2 DEF TooLittleLeft
    <2> QED BY <1>3, <2>1
  <1>4. Tally(c, S)' <= Cap[c] + Margin
    <2>1. Tally(c, R) <= Cap[c] + Margin
      BY DEF Bounded
    <2> QED BY <1>1, <1>2, <2>1
  <1> QED BY <1>3, <1>4 DEF Bounded

\* A step that leaves no hold out, exposes no more and spends no more.
LEMMA NarrowsSets ==
    ASSUME SafeInv, SafeInv', NEW c \in Category, NEW R \in SUBSET Reading(c), Bounded(c, R),
           NEW S \in SUBSET Reading(c)',
           Left(c, R) \subseteq Left(c, S)',
           Exposed(c, S)' \subseteq Exposed(c, R),
           Counted(costs', c, reused') + Charging(c)' <= Counted(costs, c, reused) + Charging(c),
           \A k \in Reading(c)' \ S :
              /\ k \in Reading(c) \ R
              /\ seen'[k] = seen[k]
    PROVE  Bounded(c, S)'
  <1>1. /\ Counted(costs, c, reused) \in Nat /\ Charging(c) \in Nat
        /\ Total(Estimate, Left(c, R)) \in Nat /\ Total(Estimate, Exposed(c, R)) \in Nat
        /\ Left(c, R) \in SUBSET Node /\ Exposed(c, R) \in SUBSET Node
    BY Terms
  <1>2. /\ Counted(costs', c, reused') \in Nat /\ Charging(c)' \in Nat
        /\ Total(Estimate, Left(c, S)') \in Nat /\ Total(Estimate, Exposed(c, S)') \in Nat
        /\ Left(c, S)' \in SUBSET Node
    BY TermsNext
  <1>3. Total(Estimate, Left(c, R)) <= Total(Estimate, Left(c, S)')
    BY <1>2, Estimates
  <1>4. Total(Estimate, Exposed(c, S)') <= Total(Estimate, Exposed(c, R))
    BY <1>1, Estimates
  <1>5. Tally(c, S)' <= Tally(c, R) /\ Tally(c, S)' \in Int
    BY <1>1, <1>2, <1>4 DEF Tally
  <1> QED BY <1>2, <1>3, <1>5, Narrows

\* A step of a call moves its node and no other.
LEMMA AtMoves ==
    ASSUME TypeOK, NEW k \in Call, CallStep(k), NEW c, NEW places
    PROVE  /\ At(c, places)' \ {NodeOf(k)} = At(c, places) \ {NodeOf(k)}
           /\ NodeOf(k) \in At(c, places)' => pc'[k] \in places \/ NodeOf(k) \in At(c, places)
           /\ NodeOf(k) \in At(c, places) => pc[k] \in places \/ NodeOf(k) \in At(c, places)'
           /\ CategoryOf[NodeOf(k)] = c /\ pc[k] \in places => NodeOf(k) \in At(c, places)
           /\ CategoryOf[NodeOf(k)] = c /\ pc'[k] \in places => NodeOf(k) \in At(c, places)'
  <1>1. \A j \in Call \ {k} : pc'[j] = pc[j]
    BY CallMoves
  <1>2. \A n \in Node, i \in 1..MaxCalls : <<n, i>> \in Call /\ (n # NodeOf(k) => <<n, i>> # k)
    BY Calls
  <1>3. k = <<NodeOf(k), k[2]>> /\ k[2] \in 1..MaxCalls /\ NodeOf(k) \in Node
    BY Calls
  <1> QED BY <1>1, <1>2, <1>3 DEF At

\* And so it moves readers.
LEMMA ReadingMoves ==
    ASSUME TypeOK, NEW k \in Call, CallStep(k), NEW c
    PROVE  /\ Reading(c)' \ {k} = Reading(c) \ {k}
           /\ k \in Reading(c) <=> pc[k] = "reading" /\ CategoryOf[NodeOf(k)] = c
           /\ k \in Reading(c)' <=> pc'[k] = "reading" /\ CategoryOf[NodeOf(k)] = c
  BY CallMoves DEF Reading

\* No node leaves those that were handed a settled hold, so no less is left out of
\* the count; and none becomes fresh.
LEMMA ReusedMoves ==
    ASSUME SafeInv, NEW k \in Call, CallStep(k)
    PROVE  /\ \A cs \in SUBSET costs : \A c : Counted(cs, c, reused') <= Counted(cs, c, reused)
           /\ Fresh' \subseteq Fresh
  <1>a. /\ TypeOK /\ HoldInv /\ NodeOf(k) \in Node /\ now # Absent
        /\ {"active", "committed", "released"} \subseteq HoldState
    BY Calls DEF SafeInv, TypeInv, TypeOK, HoldState, Clock, Absent
  <1>1. reused \subseteq reused'
    BY DEF CallStep, BeginCall, TimeOut, ReadCosts, Decide, Reserve, ExecutorReturns,
           ExecutorRaises, CommitMark, CommitCost, CommitFails
  <1>2. \A cs \in SUBSET costs : \A c : Counted(cs, c, reused') <= Counted(cs, c, reused)
    BY <1>1, CountedLess DEF SafeInv
  <1>3. entry'[NodeOf(k)]["active"] = Absent => entry[NodeOf(k)]["active"] = Absent
    <2>1. CASE Release(NodeOf(k))
      BY <1>a, <2>1, Releases
    <2>2. CASE AppendHold(NodeOf(k), "active")
      BY <1>a, <2>2, Holds
    <2>3. CASE CommitMark(k)
      BY <1>a, <2>3, Holds DEF CommitMark
    <2> QED BY <1>a, <2>1, <2>2, <2>3, CallTouches
  <1>4. Fresh' \subseteq Fresh
    BY <1>a, <1>3, CallTouches DEF Fresh
  <1> QED BY <1>2, <1>4

\* Steps that change no hold: the beginning of a call, the executor's answer.
LEMMA QuietStep ==
    ASSUME SafeInv, SafeInv', NEW c \in Category, NEW R \in SUBSET Reading(c), Bounded(c, R),
           NEW k \in Call, CallStep(k), UNCHANGED <<entry, latest, costs, lock, seen, reused>>,
           lock # NoCall => outcome'[lock] = outcome[lock],
           pc[k] \in {"new", "executing"}, pc'[k] \in {"preflight", "returned"},
           pc[k] = "new" => pc'[k] = "preflight"
    PROVE  Bounded(c, R)' /\ R \in SUBSET Reading(c)'
  <1>a. TypeOK
    BY DEF SafeInv, TypeInv
  <1>1. reused' = reused /\ Active(c)' = Active(c) /\ Fresh' = Fresh
    BY DEF Active, Fresh
  <1>2. Charging(c)' = Charging(c)
    BY <1>1 DEF Charging
  <1>3. Reading(c)' = Reading(c)
    BY <1>a, ReadingMoves
  <1>4. At(c, {"allowed"})' \subseteq At(c, {"allowed"})
    BY <1>a, AtMoves
  <1>5. At(c, {"executing", "returned", "allowed"})' \subseteq
          At(c, {"executing", "returned", "allowed"}) \cup {NodeOf(k)}
        /\ (pc[k] = "new" => At(c, {"executing", "returned", "allowed"})' \subseteq
          At(c, {"executing", "returned", "allowed"}))
        /\ (CategoryOf[NodeOf(k)] = c /\ pc[k] = "executing" =>
              NodeOf(k) \in At(c, {"executing", "returned", "allowed"}))
    BY <1>a, AtMoves
  <1>6. At(c, {"executing", "returned", "allowed"})' \subseteq At(c, {"executing", "returned", "allowed"})
    <2>1. CategoryOf[NodeOf(k)] # c => NodeOf(k) \notin At(c, {"executing", "returned", "allowed"})'
      BY DEF At
    <2> QED BY <1>5, <2>1
  <1>7. Left(c, R) \subseteq Left(c, R)'
    BY <1>1, <1>6 DEF Left
  <1>8. Exposed(c, R)' \subseteq Exposed(c, R)
    BY <1>1, <1>4 DEF Exposed
  <1>9. Counted(costs', c, reused') + Charging(c)' <= Counted(costs, c, reused) + Charging(c)
    <2>1. Counted(costs, c, reused) \in Nat /\ Charging(c) \in Nat
      BY CostsAreNumbers, ChargingIsNumber DEF SafeInv
    <2> QED BY <1>1, <1>2, <2>1
  <1>10. \A j \in Reading(c)' \ R :
            /\ j \in Reading(c) \ R
            /\ seen'[j] = seen[j]
    BY <1>1, <1>3
  <1>11. R \in SUBSET Reading(c)'
    BY <1>3
  <1> QED BY <1>7, <1>8, <1>9, <1>10, <1>11, NarrowsSets

\* What a step of a call leaves of the holds of a category.
LEMMA ActiveMoves ==
    ASSUME SafeInv, NEW k \in Call, CallStep(k), NEW c
    PROVE  /\ Active(c)' \ {NodeOf(k)} = Active(c) \ {NodeOf(k)}
           /\ NodeOf(k) \in Active(c) \/ NodeOf(k) \in Active(c)' => CategoryOf[NodeOf(k)] = c
           /\ NodeOf(k) \in Active(c)' =>
                 NodeOf(k) \in Active(c) \/ (pc[k] = "allowed" /\ NodeOf(k) \in Fresh)
  <1> DEFINE n == NodeOf(k)
  <1>a. /\ TypeOK /\ HoldInv /\ n \in Node
        /\ {"active", "committed", "released"} \subseteq HoldState
    BY Calls DEF SafeInv, TypeInv, HoldState
  <1>1. \A m \in Node \ {n} : latest'[m] = latest[m]
    BY <1>a, CallTouches
  <1>2. latest'[n] = "active" => latest[n] = "active" \/ (pc[k] = "allowed" /\ n \in Fresh)
    <2>1. ASSUME Release(n), latest'[n] = "active" PROVE FALSE
      BY <1>a, <2>1, Releases
    <2>2. ASSUME CommitMark(k), latest'[n] = "active" PROVE latest[n] = "active"
      <3>1. AppendHold(n, "committed")
        BY <2>2 DEF CommitMark
      <3>2. latest'[n] = IF entry[n]["committed"] = Absent THEN "committed" ELSE latest[n]
        BY <1>a, <3>1, Holds
      <3> QED BY <2>2, <3>2
    <2>3. ASSUME AppendHold(n, "active"), latest'[n] = "active"
          PROVE  latest[n] = "active" \/ n \in Fresh
      BY <1>a, <2>3, Holds DEF Fresh
    <2> QED BY <1>a, <2>1, <2>2, <2>3, CallTouches
  <1> QED BY <1>1, <1>2, <1>a DEF Active

\* Steps in which a reservation is made or given up.
LEMMA HoldStep ==
    ASSUME SafeInv, SafeInv', NEW c \in Category, NEW R \in SUBSET Reading(c), Bounded(c, R),
           NEW k \in Call, CallStep(k), UNCHANGED <<costs, seen>>, lock = NoCall, lock' = NoCall,
           pc[k] \in {"allowed", "executing", "returned"},
           pc'[k] \notin {"allowed", "reading"}
    PROVE  Bounded(c, R)' /\ R \in SUBSET Reading(c)'
  <1> DEFINE n == NodeOf(k)
             ERA == {"executing", "returned", "allowed"}
  <1>a. TypeOK /\ n \in Node
    BY Calls DEF SafeInv, TypeInv
  <1>1. Reading(c)' = Reading(c)
    BY <1>a, ReadingMoves
  <1>2. At(c, {"allowed"})' \subseteq At(c, {"allowed"})
    BY <1>a, AtMoves
  <1>3. At(c, ERA)' \ {n} = At(c, ERA) \ {n} /\ (CategoryOf[n] = c => n \in At(c, ERA))
    BY <1>a, AtMoves
  <1>4. /\ Active(c)' \ {n} = Active(c) \ {n}
        /\ n \in Active(c) => CategoryOf[n] = c
        /\ n \in Active(c)' => n \in Active(c) \/ n \in At(c, {"allowed"}) \cap Fresh
    <2>1. /\ Active(c)' \ {n} = Active(c) \ {n}
          /\ n \in Active(c) \/ n \in Active(c)' => CategoryOf[n] = c
          /\ n \in Active(c)' => n \in Active(c) \/ (pc[k] = "allowed" /\ n \in Fresh)
      BY ActiveMoves
    <2>2. CategoryOf[n] = c /\ pc[k] = "allowed" => n \in At(c, {"allowed"})
      BY <1>a, AtMoves
    <2> QED BY <2>1, <2>2
  <1>5. n \notin Left(c, R)
    BY <1>3, <1>4 DEF Left
  <1>6. Left(c, R) \subseteq Left(c, R)'
    BY <1>3, <1>4, <1>5 DEF Left
  <1>7. /\ \A cs \in SUBSET costs : Counted(cs, c, reused') <= Counted(cs, c, reused)
        /\ Fresh' \subseteq Fresh
    BY ReusedMoves
  <1>8. Exposed(c, R)' \subseteq Exposed(c, R)
    BY <1>2, <1>4, <1>7 DEF Exposed
  <1>9. Counted(costs', c, reused') + Charging(c)' <= Counted(costs, c, reused) + Charging(c)
    <2>1. Charging(c) = 0 /\ Charging(c)' = 0
      BY DEF Charging
    <2>2. Counted(costs, c, reused) \in Nat /\ Counted(costs', c, reused') \in Nat
      <3>1. R \in SUBSET Reading(c)'
        BY <1>1
      <3> QED BY <3>1, Terms, TermsNext
    <2>3. Counted(costs', c, reused') <= Counted(costs, c, reused)
      BY <1>7
    <2> QED BY <2>1, <2>2, <2>3
  <1>10. \A j \in Reading(c)' \ R :
            /\ j \in Reading(c) \ R
            /\ seen'[j] = seen[j]
    BY <1>1 DEF Reading
  <1>11. R \in SUBSET Reading(c)'
    BY <1>1
  <1> QED BY <1>6, <1>8, <1>9, <1>10, <1>11, NarrowsSets

\* A decision of a call of R, or one that refuses.
LEMMA RefusedOrLate ==
    ASSUME SafeInv, SafeInv', NEW c \in Category, NEW R \in SUBSET Reading(c), Bounded(c, R),
           NEW k \in Call, Decide(k), k \in R \/ pc'[k] = "blocked" \/ CategoryOf[NodeOf(k)] # c
    PROVE  Bounded(c, R \ {k})' /\ R \ {k} \in SUBSET Reading(c)'
  <1> DEFINE n == NodeOf(k)
             ERA == {"executing", "returned", "allowed"}
             S == R \ {k}
  <1>a. TypeOK /\ n \in Node /\ CallStep(k) /\ pc[k] = "reading"
    BY Calls DEF SafeInv, TypeInv, CallStep, Decide
  <1>b. pc'[k] \in {"allowed", "blocked"}
    <2>1. Move(k, "allowed") \/ Move(k, "blocked")
      BY DEF Decide
    <2> QED BY <1>a, <2>1, Moved DEF PC
  <1>1. Reading(c)' = Reading(c) \ {k}
    <2>1. k \notin Reading(c)'
      BY <1>a, <1>b, ReadingMoves
    <2> QED BY <1>a, <2>1, ReadingMoves
  <1>2. UNCHANGED <<entry, latest, costs, lock, outcome>>
    BY DEF Decide, ledger
  <1>3. Active(c)' = Active(c) /\ reused' = reused /\ Fresh' = Fresh
    BY <1>2 DEF Active, Fresh, Decide
  <1>4. Charging(c)' = Charging(c)
    BY <1>2, <1>3 DEF Charging
  <1>5. \A j \in Call \ {k} : seen'[j] = seen[j]
    BY DEF Decide, SafeInv, TypeInv
  <1>6. /\ At(c, ERA)' \subseteq At(c, ERA) \cup {n}
        /\ At(c, {"allowed"})' \subseteq At(c, {"allowed"}) \cup {n}
    BY <1>a, AtMoves
  <1>7. /\ n \in At(c, ERA)' => n \in At(c, ERA) \cup Late(R)
        /\ n \in At(c, {"allowed"})' => n \in At(c, {"allowed"}) \cup Late(R)
    <2>1. k \in R => n \in Late(R)
      BY DEF Late
    <2>2. CategoryOf[n] # c => n \notin At(c, ERA)' /\ n \notin At(c, {"allowed"})'
      BY DEF At
    <2>3. pc'[k] = "blocked" => /\ n \in At(c, ERA)' => n \in At(c, ERA)
                                /\ n \in At(c, {"allowed"})' => n \in At(c, {"allowed"})
      BY <1>a, AtMoves
    <2> QED BY <2>1, <2>2, <2>3
  <1>8. Late(S) \subseteq Late(R)
    BY DEF Late
  <1>9. Left(c, R) \subseteq Left(c, S)'
    BY <1>3, <1>6, <1>7, <1>8 DEF Left
  <1>10. Exposed(c, S)' \subseteq Exposed(c, R)
    BY <1>3, <1>6, <1>7, <1>8 DEF Exposed
  <1>11. Counted(costs', c, reused') + Charging(c)' <= Counted(costs, c, reused) + Charging(c)
    <2>1. Counted(costs, c, reused) \in Nat /\ Charging(c) \in Nat
      BY Terms
    <2> QED BY <1>2, <1>3, <1>4, <2>1
  <1>12. \A j \in Reading(c)' \ S :
            /\ j \in Reading(c) \ R
            /\ seen'[j] = seen[j]
    BY <1>1, <1>3, <1>5 DEF Reading
  <1>13. S \in SUBSET Reading(c)'
    BY <1>1
  <1> HIDE DEF S
  <1>14. Bounded(c, S)'
    BY <1>9, <1>10, <1>11, <1>12, <1>13, NarrowsSets
  <1> QED BY <1>13, <1>14 DEF S

\* A reader that is allowed against the odds reserves nothing.
LEMMA AllowedForNothing ==
    ASSUME SafeInv, NEW c \in Category, NEW R \in SUBSET Reading(c), Bounded(c, R),
           NEW k \in Call, Decide(k), k \notin R, pc'[k] # "blocked", CategoryOf[NodeOf(k)] = c
    PROVE  Estimate[NodeOf(k)] = 0
  <1> DEFINE n == NodeOf(k)
  <1>1. n \in Node /\ k \in Reading(c) \ R /\ TypeOK
    BY Calls DEF Decide, Reading, SafeInv, TypeInv
  <1>2. Allowed(seen[k], c, Estimate[n])
    <2>1. Move(k, "blocked") => pc'[k] = "blocked"
      BY <1>1, Moved DEF PC
    <2> QED BY <2>1 DEF Decide
  <1>3. SpentIn(seen[k], c) + Total(Estimate, Left(c, R)) + Estimate[n] > Cap[c]
    BY <1>1 DEF Bounded, TooLittleLeft
  <1>4. SpentIn(seen[k], c) \in Nat
    <2>1. seen[k] \in SUBSET costs
      BY DEF SafeInv, TypeInv
    <2> QED BY <2>1, CostsAreNumbers DEF SafeInv
  <1>5. /\ Total(Estimate, Left(c, R)) \in Nat /\ ReservedIn(c) \in Nat
        /\ Total(Estimate, Left(c, R)) <= ReservedIn(c)
    <2>1. Left(c, R) \in SUBSET Active(c) /\ Active(c) \in SUBSET Node
      BY DEF Left, Active
    <2>2. ReservedIn(c) = Total(Estimate, Active(c))
      BY DEF ReservedIn, Active
    <2> QED BY <2>1, <2>2, Estimates
  <1>6. Cap[c] \in Nat /\ Estimate[n] \in Nat
    BY <1>1, BoundsAreNumbers
  <1>7. Estimate[n] = 0 \/ SpentIn(seen[k], c) + ReservedIn(c) + Estimate[n] <= Cap[c]
    BY <1>2 DEF Allowed
  <1> QED BY <1>3, <1>4, <1>5, <1>6, <1>7

LEMMA DecideStep ==
    ASSUME SafeInv, SafeInv', NEW c \in Category, NEW R \in SUBSET Reading(c), Bounded(c, R),
           NEW k \in Call, Decide(k)
    PROVE  \E S \in SUBSET Reading(c)' : Bounded(c, S)'
  <1> DEFINE n == NodeOf(k)
             ERA == {"executing", "returned", "allowed"}
  <1>a. TypeOK /\ n \in Node /\ CallStep(k) /\ pc[k] = "reading"
    BY Calls DEF SafeInv, TypeInv, CallStep, Decide
  <1>1. CASE k \in R \/ pc'[k] = "blocked" \/ CategoryOf[n] # c
    <2> DEFINE S == R \ {k}
    <2>1. Bounded(c, S)' /\ S \in SUBSET Reading(c)'
      BY <1>1, RefusedOrLate
    <2> HIDE DEF S
    <2> QED BY <2>1
  <1>2. CASE k \notin R /\ pc'[k] # "blocked" /\ CategoryOf[n] = c
    <2>1. Estimate[n] = 0
      BY <1>2, AllowedForNothing
    <2>2. UNCHANGED <<entry, latest, costs, lock, outcome>>
      BY DEF Decide, ledger
    <2>3. Active(c)' = Active(c) /\ reused' = reused /\ Fresh' = Fresh
      BY <2>2 DEF Active, Fresh, Decide
    <2>4. Charging(c)' = Charging(c)
      BY <2>2, <2>3 DEF Charging
    <2>5. Reading(c)' = Reading(c) \ {k}
      <3>1. Move(k, "allowed") \/ Move(k, "blocked")
        BY DEF Decide
      <3>2. pc'[k] # "reading"
        BY <1>a, <3>1, Moved DEF PC
      <3>3. k \notin Reading(c)'
        BY <1>a, <3>2, ReadingMoves
      <3> QED BY <1>a, <3>3, ReadingMoves
    <2>6. R \in SUBSET Reading(c)'
      BY <1>2, <2>5
    <2>7. /\ At(c, ERA)' \subseteq At(c, ERA) \cup {n}
          /\ At(c, {"allowed"})' \subseteq At(c, {"allowed"}) \cup {n}
      BY <1>a, AtMoves
    <2> DEFINE X == Left(c, R)
               Y == Exposed(c, R)
    <2>8. X \in SUBSET Node /\ Y \in SUBSET Node
          /\ Total(Estimate, X) \in Nat /\ Total(Estimate, Y) \in Nat
          /\ Counted(costs, c, reused) \in Nat /\ Charging(c) \in Nat
      BY Terms
    <2>9. X \ {n} \subseteq Left(c, R)' /\ Exposed(c, R)' \subseteq Y \cup {n}
      BY <2>3, <2>7 DEF Left, Exposed
    <2>10. Left(c, R)' \in SUBSET Node /\ Exposed(c, R)' \in SUBSET Node
           /\ Total(Estimate, Left(c, R)') \in Nat /\ Total(Estimate, Exposed(c, R)') \in Nat
      BY <2>6, TermsNext
    <2>11. Total(Estimate, X \ {n}) <= Total(Estimate, Left(c, R)')
      BY <2>9, <2>10, Estimates
    <2>12. Total(Estimate, Exposed(c, R)') <= Total(Estimate, Y \cup {n})
      <3>1. Y \cup {n} \in SUBSET Node
        BY <1>a, <2>8
      <3> QED BY <2>9, <3>1, Estimates
    <2> HIDE DEF X, Y
    <2>13. Total(Estimate, X \ {n}) = Total(Estimate, X)
      <3>1. CASE n \in X
        <4> DEFINE Z == X \ {n}
        <4>1. Z \in SUBSET Node /\ Z = X \ {n} /\ n \notin Z /\ Z \cup {n} = X
          BY <2>8, <3>1, <1>a
        <4> HIDE DEF Z
        <4>2. Total(Estimate, Z \cup {n}) = Total(Estimate, Z) + Estimate[n]
          BY <1>a, <4>1, EstimatesAdd
        <4>3. Total(Estimate, Z) \in Nat
          BY <4>1, Estimates
        <4>4. Total(Estimate, Z \cup {n}) = Total(Estimate, Z)
          BY <2>1, <4>2, <4>3
        <4> QED BY ONLY <4>1, <4>4
      <3>2. CASE n \notin X
        <4>1. X \ {n} = X
          BY <3>2
        <4> QED BY <4>1
      <3> QED BY <3>1, <3>2
    <2>14. Total(Estimate, Y \cup {n}) = Total(Estimate, Y)
      <3>1. CASE n \notin Y
        <4>1. Total(Estimate, Y \cup {n}) = Total(Estimate, Y) + Estimate[n]
          BY <1>a, <2>8, <3>1, EstimatesAdd
        <4> QED BY <2>1, <2>8, <4>1
      <3>2. CASE n \in Y
        <4>1. Y \cup {n} = Y
          BY <3>2
        <4> QED BY <4>1
      <3> QED BY <3>1, <3>2
    <2>15. Tally(c, R)' <= Tally(c, R) /\ Tally(c, R)' \in Int
      <3>1. Tally(c, R) = Counted(costs, c, reused) + Charging(c) + Total(Estimate, Y)
        BY DEF Tally, Y
      <3>2. Tally(c, R)' = Counted(costs, c, reused) + Charging(c) + Total(Estimate, Exposed(c, R)')
        BY <2>2, <2>3, <2>4 DEF Tally
      <3> QED BY <2>8, <2>10, <2>12, <2>14, <3>1, <3>2
    <2>16. \A j \in Reading(c)' \ R :
              /\ j \in Reading(c) \ R
              /\ seen'[j] = seen[j]
      <3>1. \A j \in Call \ {k} : seen'[j] = seen[j]
        BY DEF Decide, SafeInv, TypeInv
      <3> QED BY <2>3, <2>5, <3>1 DEF Reading
    <2>17. Total(Estimate, Left(c, R)) <= Total(Estimate, Left(c, R)')
      BY <2>11, <2>13 DEF X
    <2>18. Bounded(c, R)'
      BY <2>6, <2>10, <2>15, <2>16, <2>17, Narrows
    <2> QED BY <2>6, <2>18
  <1> QED BY <1>1, <1>2

\* What the calls under way besides k may yet reserve.
LEMMA OthersFit ==
    ASSUME SafeInv, NEW k \in RunningCalls, NEW J \in SUBSET (RunningCalls \ {k}), NEW c \in Category
    PROVE  /\ {NodeOf(j) : j \in J} \in SUBSET Node
           /\ Total(Estimate, {NodeOf(j) : j \in J}) \in Nat
           /\ Margin \in Nat
           /\ Total(Estimate, {NodeOf(j) : j \in J}) <= Margin
           /\ J # RunningCalls \ {k} => Total(Estimate, {NodeOf(j) : j \in J}) + MaxEstimate <= Margin
  <1>1. {NodeOf(j) : j \in J} \in SUBSET Node
    BY Calls DEF RunningCalls
  <1> QED BY <1>1, Estimates, Crowd DEF SafeInv, TypeInv

\* If there is room for k beside what it reads, every reader may come too late.
LEMMA RoomForAll ==
    ASSUME SafeInv, SafeInv', ExcessInv, NEW c \in Category, NEW R \in SUBSET Reading(c), Bounded(c, R),
           NEW k \in Call, ReadCosts(k), CategoryOf[NodeOf(k)] = c, NEW S, S = Reading(c)',
           SpentIn(costs, c) + Total(Estimate, Left(c, R)) + Estimate[NodeOf(k)] <= Cap[c]
    PROVE  Tally(c, S)' <= Cap[c] + Margin
  <1> DEFINE n == NodeOf(k)
             ERA == {"executing", "returned", "allowed"}
             T == Total(Estimate, Exposed(c, S)')
             C == Counted(costs, c, reused)
  <1>a. TypeOK /\ n \in Node /\ CallStep(k) /\ pc[k] = "preflight" /\ k \in RunningCalls
    BY Calls DEF SafeInv, TypeInv, CallStep, ReadCosts, RunningCalls, Running, Ended
  <1>b. UNCHANGED <<entry, latest, costs, lock, outcome>> /\ pc'[k] = "reading"
    BY <1>a, Moved DEF ReadCosts, ledger, PC
  <1>c. Active(c)' = Active(c) /\ reused' = reused /\ Fresh' = Fresh
    BY <1>b DEF Active, Fresh, ReadCosts
  <1>d. Charging(c)' = Charging(c)
    BY <1>b, <1>c DEF Charging
  <1>e. /\ \A j \in Call \ {k} : pc'[j] = pc[j]
        /\ S \subseteq Reading(c) \cup {k}
        /\ At(c, {"allowed"})' \subseteq At(c, {"allowed"})
    <2>1. At(c, {"allowed"})' \subseteq At(c, {"allowed"})
      BY <1>a, <1>b, AtMoves
    <2> QED BY <1>a, <2>1, CallMoves, ReadingMoves
  <1>f. /\ C \in Nat /\ Charging(c) \in Nat /\ Total(Estimate, Left(c, R)) \in Nat
        /\ Left(c, R) \in SUBSET Node /\ Active(c) \in SUBSET Node
        /\ Total(Estimate, Active(c)) \in Nat
    BY Terms
  <1>g. S \in SUBSET Reading(c)' /\ Exposed(c, S)' \in SUBSET Node /\ T \in Nat
    <2>1. S \in SUBSET Reading(c)'
      OBVIOUS
    <2>2. Exposed(c, S)' \in SUBSET Node
      BY Calls DEF Exposed, Active, At, Late, Reading, Fresh
    <2> QED BY <2>1, <2>2, Estimates
  <1>h. Tally(c, S)' = C + Charging(c) + T
    BY <1>b, <1>c, <1>d DEF Tally
  <1>i. Cap[c] \in Nat /\ Estimate[n] \in Nat /\ MaxEstimate \in Nat
        /\ \A m \in Node : Estimate[m] <= MaxEstimate
    BY <1>a, BoundsAreNumbers, Largest
  <1>j. \A m \in At(c, ERA) : \E j \in RunningCalls \ {k} : NodeOf(j) = m /\ pc[j] \in ERA
    <2> SUFFICES ASSUME NEW m \in At(c, ERA)
                 PROVE  \E j \in RunningCalls \ {k} : NodeOf(j) = m /\ pc[j] \in ERA
      OBVIOUS
    <2>1. PICK i \in 1..MaxCalls : pc[<<m, i>>] \in ERA
      BY DEF At
    <2>2. m \in Node
      BY DEF At
    <2>3. <<m, i>> \in Call /\ NodeOf(<<m, i>>) = m
      BY <2>2, Calls
    <2>4. <<m, i>> \in RunningCalls \ {k}
      BY <1>a, <2>1, <2>3 DEF RunningCalls, Running, Ended
    <2> QED BY <2>1, <2>3, <2>4
  <1>k. /\ \A j \in Reading(c) : j \in RunningCalls \ {k} /\ pc[j] = "reading"
        /\ At(c, {"allowed"}) \subseteq At(c, ERA)
    BY <1>a DEF Reading, RunningCalls, Running, Ended, At
  <1>l. lock # NoCall => lock \in RunningCalls \ {k} /\ pc[lock] = "marked" /\ NodeOf(lock) \in Node
    BY <1>a, Calls DEF SafeInv, LockInv, RunningCalls, Running, Ended
  \* All but the holder of the lock may reserve.
  <1>1. CASE Charging(c) <= MaxEstimate
    <2> DEFINE J == {j \in RunningCalls \ {k} : pc[j] # "marked"}
               X == {NodeOf(j) : j \in J}
    <2>1. Exposed(c, S)' \subseteq (Left(c, R) \cup {n}) \cup X
      <3>1. At(c, ERA) \subseteq X
        BY <1>j
      <3>2. Late(R) \subseteq X /\ Late(S) \subseteq X \cup {n}
        BY <1>e, <1>k DEF Late
      <3>3. Exposed(c, S)' \subseteq Active(c) \cup At(c, ERA) \cup Late(S)
        BY <1>c, <1>e, <1>k DEF Exposed
      <3>4. Active(c) \subseteq Left(c, R) \cup At(c, ERA) \cup Late(R)
        BY DEF Left
      <3> HIDE DEF X
      <3> QED BY <3>1, <3>2, <3>3, <3>4
    <2>2. J \in SUBSET (RunningCalls \ {k})
      OBVIOUS
    <2> HIDE DEF J
    <2>3. /\ X \in SUBSET Node /\ Total(Estimate, X) \in Nat /\ Margin \in Nat
          /\ Total(Estimate, X) <= Margin
          /\ J # RunningCalls \ {k} => Total(Estimate, X) + MaxEstimate <= Margin
      BY <1>a, <2>2, OthersFit
    <2>4. Total(Estimate, X) + Charging(c) <= Margin
      <3>1. CASE lock = NoCall
        <4>1. Charging(c) = 0
          BY <3>1 DEF Charging
        <4> QED BY <2>3, <4>1
      <3>2. CASE lock # NoCall
        <4>1. J # RunningCalls \ {k}
          BY <1>l, <3>2 DEF J
        <4> HIDE DEF X
        <4> QED BY <1>1, <1>f, <1>i, <2>3, <4>1
      <3> QED BY <3>1, <3>2
    <2> HIDE DEF X
    <2>5. T <= Total(Estimate, Left(c, R) \cup {n}) + Total(Estimate, X)
      <3>1. Left(c, R) \cup {n} \in SUBSET Node
        BY <1>a, <1>f
      <3>2. (Left(c, R) \cup {n}) \cup X \in SUBSET Node
        BY <2>3, <3>1
      <3>3. T <= Total(Estimate, (Left(c, R) \cup {n}) \cup X)
        BY <2>1, <3>2, Estimates
      <3>4. Total(Estimate, (Left(c, R) \cup {n}) \cup X)
              <= Total(Estimate, Left(c, R) \cup {n}) + Total(Estimate, X)
        BY <2>3, <3>1, EstimatesJoin
      <3>5. Total(Estimate, Left(c, R) \cup {n}) \in Nat
            /\ Total(Estimate, (Left(c, R) \cup {n}) \cup X) \in Nat
        BY <3>1, <3>2, Estimates
      <3> HIDE DEF T
      <3> QED BY <1>g, <2>3, <3>3, <3>4, <3>5
    <2>6. /\ Total(Estimate, Left(c, R) \cup {n}) <= Total(Estimate, Left(c, R)) + Estimate[n]
          /\ Total(Estimate, Left(c, R) \cup {n}) \in Nat
      <3>1. CASE n \in Left(c, R)
        <4>1. Left(c, R) \cup {n} = Left(c, R)
          BY <3>1
        <4>2. Total(Estimate, Left(c, R) \cup {n}) = Total(Estimate, Left(c, R))
          BY ONLY <4>1
        <4> QED BY <4>2, <1>f, <1>i
      <3>2. CASE n \notin Left(c, R)
        <4>1. Total(Estimate, Left(c, R) \cup {n}) = Total(Estimate, Left(c, R)) + Estimate[n]
          BY <1>a, <1>f, <3>2, EstimatesAdd
        <4> QED BY <4>1, <1>f, <1>i
      <3> QED BY <3>1, <3>2
    <2> HIDE DEF T, C
    <2>7. C + Total(Estimate, Left(c, R)) + Estimate[n] <= Cap[c]
      <3>1. SpentIn(costs, c) \in Nat /\ Counted(costs, c, reused) <= SpentIn(costs, c)
        BY CostsAreNumbers DEF SafeInv
      <3> QED BY <1>f, <1>i, <3>1 DEF C
    <2> QED BY <1>f, <1>g, <1>h, <1>i, <2>3, <2>4, <2>5, <2>6, <2>7
  \* The holder of the lock commits an excess, which fits.
  <1>2. CASE ~(Charging(c) <= MaxEstimate)
    <2>1. /\ lock # NoCall /\ CategoryOf[NodeOf(lock)] = c /\ NodeOf(lock) \notin reused
          /\ Charging(c) = outcome[lock].cost
      BY <1>2, <1>i DEF Charging
    <2>2. lock \in RunningCalls \ {k} /\ pc[lock] = "marked" /\ Estimate[NodeOf(lock)] \in Nat
          /\ Estimate[NodeOf(lock)] <= MaxEstimate
      BY <1>i, <1>l, <2>1, BoundsAreNumbers
    <2>3. outcome[lock].cost > Estimate[NodeOf(lock)]
      BY <1>2, <1>f, <1>i, <2>1, <2>2
    <2>4. C + Charging(c) + Total(Estimate, Active(c)) <= Cap[c]
      BY <2>1, <2>3 DEF ExcessInv
    <2> DEFINE J == RunningCalls \ {lock}
               X == {NodeOf(j) : j \in J}
    <2>5. Exposed(c, S)' \subseteq Active(c) \cup X
      <3>1. At(c, {"allowed"}) \subseteq X
        <4> SUFFICES ASSUME NEW m \in At(c, {"allowed"}) PROVE m \in X
          OBVIOUS
        <4>1. m \in At(c, ERA)
          BY <1>k
        <4>2. PICK j \in RunningCalls \ {k} : NodeOf(j) = m /\ pc[j] \in ERA
          BY <1>j, <4>1
        <4>3. j # lock
          BY <2>2, <4>2
        <4> QED BY <4>2, <4>3
      <3>2. Late(S) \subseteq X
        <4>1. \A j \in S : j \in J
          BY <1>a, <1>e, <1>k, <2>2
        <4> HIDE DEF J
        <4> QED BY <4>1 DEF Late
      <3>3. Exposed(c, S)' \subseteq Active(c) \cup At(c, {"allowed"}) \cup Late(S)
        BY <1>c, <1>e DEF Exposed
      <3> HIDE DEF X
      <3> QED BY <3>1, <3>2, <3>3
    <2>6. J \in SUBSET (RunningCalls \ {lock})
      OBVIOUS
    <2>7. /\ X \in SUBSET Node /\ Total(Estimate, X) \in Nat /\ Margin \in Nat
          /\ Total(Estimate, X) <= Margin
      BY <2>2, <2>6, OthersFit
    <2> HIDE DEF X, J
    <2>8. T <= Total(Estimate, Active(c)) + Total(Estimate, X)
      <3>1. Active(c) \cup X \in SUBSET Node
        BY <1>f, <2>7
      <3>2. T <= Total(Estimate, Active(c) \cup X)
        BY <2>5, <3>1, Estimates
      <3>3. Total(Estimate, Active(c) \cup X) <= Total(Estimate, Active(c)) + Total(Estimate, X)
        BY <1>f, <2>7, EstimatesJoin
      <3>4. Total(Estimate, Active(c) \cup X) \in Nat
        BY <3>1, Estimates
      <3> HIDE DEF T
      <3> QED BY <1>f, <1>g, <2>7, <3>2, <3>3, <3>4
    <2> HIDE DEF T, C
    <2> QED BY <1>f, <1>g, <1>h, <1>i, <2>4, <2>7, <2>8
  <1> QED BY <1>1, <1>2

LEMMA ReadStep ==
    ASSUME SafeInv, SafeInv', ExcessInv, NEW c \in Category, NEW R \in SUBSET Reading(c), Bounded(c, R),
           NEW k \in Call, ReadCosts(k)
    PROVE  \E S \in SUBSET Reading(c)' : Bounded(c, S)'
  <1> DEFINE n == NodeOf(k)
             ERA == {"executing", "returned", "allowed"}
  <1>a. TypeOK /\ n \in Node /\ CallStep(k) /\ pc[k] = "preflight"
    BY Calls DEF SafeInv, TypeInv, CallStep, ReadCosts
  <1>b. UNCHANGED <<entry, latest, costs, lock, outcome>> /\ pc'[k] = "reading"
    BY <1>a, Moved DEF ReadCosts, ledger, PC
  <1>c. Active(c)' = Active(c) /\ reused' = reused /\ Fresh' = Fresh
    BY <1>b DEF Active, Fresh, ReadCosts
  <1>d. Charging(c)' = Charging(c)
    BY <1>b, <1>c DEF Charging
  <1>e. /\ At(c, {"allowed"})' \subseteq At(c, {"allowed"})
        /\ At(c, ERA)' \subseteq At(c, ERA)
    BY <1>a, <1>b, AtMoves
  <1>f. seen'[k] = costs /\ \A j \in Call \ {k} : seen'[j] = seen[j]
    BY DEF ReadCosts, SafeInv, TypeInv
  <1>1. CASE /\ CategoryOf[n] = c
             /\ SpentIn(costs, c) + Total(Estimate, Left(c, R)) + Estimate[n] <= Cap[c]
    <2>1. PICK S : S = Reading(c)'
      OBVIOUS
    <2>2. Tally(c, S)' <= Cap[c] + Margin
      BY <1>1, <2>1, RoomForAll
    <2>3. Bounded(c, S)'
      BY <2>1, <2>2 DEF Bounded
    <2> QED BY <2>1, <2>3
  <1>2. CASE ~(/\ CategoryOf[n] = c
               /\ SpentIn(costs, c) + Total(Estimate, Left(c, R)) + Estimate[n] <= Cap[c])
    <2>1. /\ Reading(c)' \subseteq Reading(c) \cup {k} /\ Reading(c) \subseteq Reading(c)'
          /\ k \in Reading(c)' => CategoryOf[n] = c
      BY <1>a, <1>b, ReadingMoves
    <2>2. R \in SUBSET Reading(c)'
      BY <2>1
    <2>3. Left(c, R) \subseteq Left(c, R)' /\ Exposed(c, R)' \subseteq Exposed(c, R)
      BY <1>c, <1>e DEF Left, Exposed
    <2>4. /\ Counted(costs, c, reused) \in Nat /\ Charging(c) \in Nat
          /\ Total(Estimate, Left(c, R)) \in Nat /\ Total(Estimate, Exposed(c, R)) \in Nat
          /\ Exposed(c, R) \in SUBSET Node
      BY Terms
    <2>5. /\ Total(Estimate, Left(c, R)') \in Nat /\ Total(Estimate, Exposed(c, R)') \in Nat
          /\ Left(c, R)' \in SUBSET Node
      BY <2>2, TermsNext
    <2>6. /\ Total(Estimate, Left(c, R)) <= Total(Estimate, Left(c, R)')
          /\ Total(Estimate, Exposed(c, R)') <= Total(Estimate, Exposed(c, R))
      BY <2>3, <2>4, <2>5, Estimates
    <2>7. Tally(c, R)' <= Tally(c, R) /\ Tally(c, R)' \in Int
      <3>1. Tally(c, R) = Counted(costs, c, reused) + Charging(c) + Total(Estimate, Exposed(c, R))
        BY DEF Tally
      <3>2. Tally(c, R)' = Counted(costs, c, reused) + Charging(c) + Total(Estimate, Exposed(c, R)')
        BY <1>b, <1>c, <1>d DEF Tally
      <3> QED BY <2>4, <2>5, <2>6, <3>1, <3>2
    <2>8. ASSUME k \in Reading(c)' PROVE TooLittleLeft(k, c, R)'
      <3>0. SpentIn(costs, c) \in Nat
        BY CostsAreNumbers DEF SafeInv
      <3>1. SpentIn(costs, c) + Total(Estimate, Left(c, R)) + Estimate[n] > Cap[c]
            /\ Estimate[n] \in Nat /\ Cap[c] \in Nat
        BY <1>2, <1>a, <2>1, <2>4, <2>8, <3>0, BoundsAreNumbers
      <3>2. SpentIn(costs, c) + Total(Estimate, Left(c, R)') + Estimate[n] > Cap[c]
        BY <2>4, <2>5, <2>6, <3>0, <3>1
      <3> QED BY <1>f, <3>2 DEF TooLittleLeft
    <2>9. \A j \in Reading(c)' \ R :
             \/ /\ j \in Reading(c) \ R
                /\ seen'[j] = seen[j]
             \/ TooLittleLeft(j, c, R)'
      BY <1>c, <1>f, <2>1, <2>8 DEF Reading
    <2>10. Bounded(c, R)'
      BY <2>2, <2>5, <2>6, <2>7, <2>9, Narrows
    <2> QED BY <2>2, <2>10
  <1> QED BY <1>1, <1>2

\* What the first append of commit does to the holds of a category.
LEMMA MarkMoves ==
    ASSUME SafeInv, NEW k \in Call, CommitMark(k)
    PROVE  /\ NodeOf(k) \in Node /\ CallStep(k) /\ pc[k] = "returned" /\ pc'[k] = "marked"
           /\ lock = NoCall /\ lock' = k /\ lock' # NoCall
           /\ UNCHANGED <<costs, seen, outcome>> /\ reused' = reused
           /\ \A c : /\ NodeOf(k) \notin Active(c)'
                     /\ Active(c)' = Active(c) \ {NodeOf(k)}
                     /\ At(c, {"allowed"})' \subseteq At(c, {"allowed"})
                     /\ At(c, {"executing", "returned", "allowed"})'
                           \subseteq At(c, {"executing", "returned", "allowed"})
                     /\ CategoryOf[NodeOf(k)] = c =>
                           NodeOf(k) \in At(c, {"executing", "returned", "allowed"})
                     /\ Reading(c)' = Reading(c)
           /\ Fresh' \subseteq Fresh /\ NodeOf(k) \notin Fresh
           /\ CategoryOf[NodeOf(k)] \in Category
           /\ NodeOf(k) \notin reused => NodeOf(k) \in Active(CategoryOf[NodeOf(k)])
  <1> DEFINE n == NodeOf(k)
             ERA == {"executing", "returned", "allowed"}
  <1>a. /\ TypeOK /\ HoldInv /\ n \in Node /\ CallStep(k) /\ pc[k] = "returned"
        /\ {"active", "committed", "released"} \subseteq HoldState
        /\ k # NoCall
    BY Calls DEF SafeInv, TypeInv, HoldState, CallStep, CommitMark
  <1>b. pc'[k] = "marked"
    BY <1>a, Moved DEF CommitMark, PC
  <1>c. /\ lock = NoCall /\ lock' = k /\ UNCHANGED <<costs, seen, outcome>>
        /\ AppendHold(n, "committed") /\ cache[n] = "active"
    BY DEF CommitMark, MayCommit
  <1>d. reused' = reused
    BY DEF CommitMark
  <1>e. latest'[n] # "active"
    <2>1. latest[n] = "active" => ~Committed(n)
      BY <1>a DEF HoldInv, HoldSound
    <2> QED BY <1>a, <1>c, <2>1, Holds DEF Committed
  <1>f. Fresh' \subseteq Fresh /\ n \notin Fresh
    BY <1>a, <1>c, ReusedMoves DEF HoldInv, HoldSound, Fresh
  <1>1. ASSUME NEW c
        PROVE  /\ n \notin Active(c)'
               /\ Active(c)' = Active(c) \ {n}
               /\ At(c, {"allowed"})' \subseteq At(c, {"allowed"})
               /\ At(c, ERA)' \subseteq At(c, ERA)
               /\ CategoryOf[n] = c => n \in At(c, ERA)
               /\ Reading(c)' = Reading(c)
    <2>1. n \notin Active(c)'
      BY <1>e DEF Active
    <2>2. Active(c)' = Active(c) \ {n}
      BY <1>a, <2>1, ActiveMoves
    <2>3. /\ At(c, {"allowed"})' \subseteq At(c, {"allowed"})
          /\ At(c, ERA)' \subseteq At(c, ERA)
          /\ CategoryOf[n] = c => n \in At(c, ERA)
      BY <1>a, <1>b, AtMoves
    <2>4. Reading(c)' = Reading(c)
      BY <1>a, <1>b, ReadingMoves
    <2> QED BY <2>1, <2>2, <2>3, <2>4
  <1>2. CategoryOf[n] \in Category
    BY <1>a, BudgetAssumption
  <1>3. n \notin reused => n \in Active(CategoryOf[n])
    <2>1. n \notin reused => latest[n] = "active"
      BY <1>a, <1>c DEF SafeInv, SettledInv
    <2> QED BY <1>a, <2>1 DEF Active
  <1> QED BY <1>a, <1>b, <1>c, <1>d, <1>f, <1>1, <1>2, <1>3

\* An excess is committed only if it fits beside what is reserved.
LEMMA ExcessFits ==
    ASSUME SafeInv, NEW k \in Call, CommitMark(k), NodeOf(k) \notin reused,
           outcome[k].cost > Estimate[NodeOf(k)], NEW c, c = CategoryOf[NodeOf(k)]
    PROVE  Counted(costs, c, reused) + outcome[k].cost + Total(Estimate, Active(c)') <= Cap[c]
  <1> DEFINE n == NodeOf(k)
             cost == outcome[k].cost
             X == Active(c)'
  <1>1. n \in Node /\ n \in Active(c) /\ X = Active(c) \ {n} /\ c \in Category
    BY MarkMoves
  <1>2. cost \in Nat /\ Estimate[n] \in Nat /\ Cap[c] \in Nat
    <2>1. cost \in Actual \cup {0}
      BY DEF SafeInv, TypeInv, TypeOK, Outcome
    <2>2. \A x \in Actual : x \in Nat
      BY BudgetAssumption
    <2> QED BY <1>1, <2>1, <2>2, BoundsAreNumbers
  <1>3. Allowed(costs, c, cost - Estimate[n])
    BY DEF CommitMark, MayCommit
  <1>4. SpentIn(costs, c) + ReservedIn(c) + (cost - Estimate[n]) <= Cap[c]
    BY <1>2, <1>3 DEF Allowed
  <1>5. /\ Counted(costs, c, reused) \in Nat /\ SpentIn(costs, c) \in Nat
        /\ Counted(costs, c, reused) <= SpentIn(costs, c)
    BY CostsAreNumbers DEF SafeInv
  <1>6. ReservedIn(c) = Total(Estimate, Active(c))
    BY DEF ReservedIn, Active
  <1>7. X \in SUBSET Node /\ n \notin X /\ X \cup {n} = Active(c)
    <2>1. Active(c) \in SUBSET Node
      BY DEF Active
    <2> HIDE DEF X
    <2> QED BY <1>1, <2>1
  <1> HIDE DEF X, cost
  <1>8. Total(Estimate, X \cup {n}) = Total(Estimate, X) + Estimate[n] /\ Total(Estimate, X) \in Nat
    BY <1>1, <1>7, Estimates, EstimatesAdd
  <1>9. ReservedIn(c) = Total(Estimate, X) + Estimate[n]
    BY <1>6, <1>7, <1>8
  <1>10. Counted(costs, c, reused) + cost + Total(Estimate, X) <= Cap[c]
    BY <1>2, <1>4, <1>5, <1>8, <1>9
  <1> QED BY <1>10 DEF X, cost

LEMMA ExcessInvStep == SafeInv /\ ExcessInv /\ [Next]_vars => ExcessInv'
  <1> SUFFICES ASSUME SafeInv, ExcessInv, [Next]_vars PROVE ExcessInv'
    OBVIOUS
  <1>1. ASSUME NEW k \in Call, CommitMark(k) PROVE ExcessInv'
    <2>1. /\ lock' = k /\ UNCHANGED <<costs, outcome>> /\ reused' = reused
      BY <1>1, MarkMoves
    <2>2. ASSUME outcome[k].cost > Estimate[NodeOf(k)], NodeOf(k) \notin reused,
                 NEW c, c = CategoryOf[NodeOf(k)]
          PROVE  Counted(costs, c, reused) + outcome[k].cost + Total(Estimate, Active(c)') <= Cap[c]
      BY <1>1, <2>2, ExcessFits
    <2> QED BY <2>1, <2>2 DEF ExcessInv
  <1>2. CASE lock' = NoCall
    BY <1>2 DEF ExcessInv
  <1>3. CASE /\ lock # NoCall /\ UNCHANGED <<entry, latest, costs, lock, reused>>
             /\ outcome'[lock] = outcome[lock]
    <2>1. reused' = reused /\ \A c : Active(c)' = Active(c)
      BY <1>3 DEF Active
    <2> QED BY <1>3, <2>1 DEF ExcessInv
  <1>4. ASSUME NEW k \in Call, NEW status \in {"completed", "blocked"}, NEW cost \in Actual,
               ExecutorReturns(k, status, cost), lock # NoCall
        PROVE  outcome'[lock] = outcome[lock]
    <2>1. lock \in Call /\ lock # k /\ outcome \in [Call -> Outcome]
      BY <1>4 DEF SafeInv, LockInv, TypeInv, TypeOK, ExecutorReturns
    <2> QED BY <1>4, <2>1 DEF ExecutorReturns
  <1>5. ASSUME NEW k \in Call, CallStep(k), ~CommitMark(k), lock' # NoCall
        PROVE  /\ lock # NoCall /\ UNCHANGED <<entry, latest, costs, lock, reused>>
               /\ outcome'[lock] = outcome[lock]
    <2>1. CASE \E status \in {"completed", "blocked"}, cost \in Actual : ExecutorReturns(k, status, cost)
      BY <1>4, <1>5, <2>1 DEF ExecutorReturns, ledger
    <2> QED BY <1>5, <2>1 DEF CallStep, BeginCall, TimeOut, ReadCosts, Decide, Reserve, ExecutorRaises, CommitCost,
             SettleAfterCommit, CommitFails, ledger
  <1> QED BY <1>1, <1>2, <1>3, <1>5 DEF Next, Tick, Restart, vars, ledger

\* The first append of commit: an estimate gives way to a cost.
LEMMA MarkStep ==
    ASSUME SafeInv, SafeInv', NEW c \in Category, NEW R \in SUBSET Reading(c), Bounded(c, R),
           NEW k \in Call, CommitMark(k)
    PROVE  \E S \in SUBSET Reading(c)' : Bounded(c, S)'
  <1> DEFINE n == NodeOf(k)
             ERA == {"executing", "returned", "allowed"}
             C == Counted(costs, c, reused)
             X == Exposed(c, R)
             Y == Exposed(c, R)'
  <1>a. /\ n \in Node /\ lock = NoCall /\ lock' = k /\ lock' # NoCall
        /\ UNCHANGED <<costs, seen, outcome>> /\ reused' = reused
    BY MarkMoves
  <1>b. /\ Active(c)' = Active(c) \ {n}
        /\ At(c, {"allowed"})' \subseteq At(c, {"allowed"})
        /\ At(c, ERA)' \subseteq At(c, ERA)
        /\ CategoryOf[n] = c => n \in At(c, ERA)
        /\ Reading(c)' = Reading(c)
        /\ Fresh' \subseteq Fresh /\ n \notin Fresh
    BY MarkMoves
  <1>c. R \in SUBSET Reading(c)'
    BY <1>b
  <1>d. n \in Active(c) => CategoryOf[n] = c
    BY DEF Active
  <1>e. Left(c, R) \subseteq Left(c, R)' /\ Y \subseteq X /\ n \notin Y
    <2>1. Y = Active(c)' \cup ((At(c, {"allowed"})' \cup Late(R)) \cap Fresh')
      BY DEF Exposed
    <2> HIDE DEF Y
    <2> QED BY <1>b, <1>d, <2>1 DEF Left, Exposed
  <1>f. /\ C \in Nat /\ X \in SUBSET Node /\ Total(Estimate, X) \in Nat
        /\ Total(Estimate, Left(c, R)) \in Nat
    BY Terms
  <1>g. /\ Total(Estimate, Left(c, R)') \in Nat /\ Left(c, R)' \in SUBSET Node
        /\ Y \in SUBSET Node /\ Total(Estimate, Y) \in Nat /\ Charging(c)' \in Nat
        /\ Active(c)' \in SUBSET Node /\ Total(Estimate, Active(c)') \in Nat
    BY <1>c, TermsNext
  <1>h. Tally(c, R) = C + Total(Estimate, X) /\ Tally(c, R)' = C + Charging(c)' + Total(Estimate, Y)
    <2>1. Charging(c) = 0
      BY <1>a DEF Charging
    <2>2. Tally(c, R) = C + Charging(c) + Total(Estimate, X)
      BY DEF Tally
    <2>3. Tally(c, R)' = C + Charging(c)' + Total(Estimate, Y)
      BY <1>a DEF Tally
    <2> HIDE DEF C, X
    <2> QED BY <1>f, <2>1, <2>2, <2>3
  <1>i. Total(Estimate, Left(c, R)) <= Total(Estimate, Left(c, R)')
    BY <1>e, <1>g, Estimates
  <1>j. \A j \in Reading(c)' \ R :
           /\ j \in Reading(c) \ R
           /\ seen'[j] = seen[j]
    BY <1>a, <1>b
  <1>k. Charging(c)' = IF CategoryOf[n] = c /\ n \notin reused THEN outcome[k].cost ELSE 0
    BY <1>a DEF Charging
  <1>l. Cap[c] \in Nat /\ Estimate[n] \in Nat /\ outcome[k].cost \in Nat
    <2>1. outcome[k].cost \in Actual \cup {0}
      BY DEF SafeInv, TypeInv, TypeOK, Outcome
    <2>2. \A x \in Actual : x \in Nat
      BY BudgetAssumption
    <2> QED BY <1>a, <2>1, <2>2, BoundsAreNumbers
  <1>m. ASSUME Tally(c, R)' <= Tally(c, R) PROVE Bounded(c, R)'
    <2>1. Tally(c, R)' \in Int
      <3> HIDE DEF C, Y
      <3> QED BY <1>f, <1>g, <1>h
    <2> QED BY <1>c, <1>g, <1>i, <1>j, <1>m, <2>1, Narrows
  <1> HIDE DEF X, Y, C
  <1>1. CASE ~(CategoryOf[n] = c /\ n \notin reused)
    <2>1. Charging(c)' = 0
      BY <1>1, <1>k
    <2>2. Total(Estimate, Y) <= Total(Estimate, X)
      BY <1>e, <1>f, Estimates
    <2> QED BY <1>c, <1>f, <1>g, <1>h, <1>m, <2>1, <2>2
  <1>2. CASE CategoryOf[n] = c /\ n \notin reused /\ outcome[k].cost <= Estimate[n]
    <2>1. Charging(c)' = outcome[k].cost
      BY <1>2, <1>k
    <2>2. n \in X
      <3>1. n \in Active(c)
        BY <1>2, MarkMoves
      <3> QED BY <3>1 DEF X, Exposed
    <2>3. Total(Estimate, Y \cup {n}) = Total(Estimate, Y) + Estimate[n]
      BY <1>a, <1>e, <1>g, EstimatesAdd
    <2>4. Total(Estimate, Y \cup {n}) <= Total(Estimate, X)
      <3>1. Y \cup {n} \in SUBSET X
        BY <1>e, <2>2
      <3> QED BY <1>f, <3>1, Estimates
    <2>5. Tally(c, R)' <= Tally(c, R)
      BY <1>2, <1>f, <1>g, <1>h, <1>l, <2>1, <2>3, <2>4
    <2> QED BY <1>c, <1>m, <2>5
  <1>3. CASE CategoryOf[n] = c /\ n \notin reused /\ ~(outcome[k].cost <= Estimate[n])
    <2>1. Charging(c)' = outcome[k].cost
      BY <1>3, <1>k
    <2>2. C + outcome[k].cost + Total(Estimate, Active(c)') <= Cap[c]
      <3>1. outcome[k].cost > Estimate[n]
        BY <1>3, <1>l
      <3> QED BY <1>3, <3>1, ExcessFits DEF C
    <2> DEFINE J == RunningCalls \ {k}
               Z == {NodeOf(j) : j \in J}
    <2>3. k \in RunningCalls /\ pc[k] = "returned"
      BY DEF CommitMark, RunningCalls, Running, Ended
    <2>4. Y \subseteq Active(c)' \cup Z
      <3>1. At(c, {"allowed"}) \subseteq Z
        <4> SUFFICES ASSUME NEW m \in At(c, {"allowed"}) PROVE m \in Z
          OBVIOUS
        <4>1. PICK i \in 1..MaxCalls : pc[<<m, i>>] = "allowed"
          BY DEF At
        <4>2. m \in Node
          BY DEF At
        <4>3. <<m, i>> \in Call /\ NodeOf(<<m, i>>) = m
          BY <4>2, Calls
        <4>4. <<m, i>> \in J
          BY <2>3, <4>1, <4>3 DEF RunningCalls, Running, Ended
        <4> QED BY <4>3, <4>4
      <3>2. Late(R) \subseteq Z
        <4>1. \A j \in R : j \in J
          BY <2>3 DEF Reading, RunningCalls, Running, Ended
        <4> HIDE DEF J
        <4> QED BY <4>1 DEF Late
      <3>3. Y \subseteq Active(c)' \cup At(c, {"allowed"})' \cup Late(R)
        BY DEF Y, Exposed
      <3> HIDE DEF Z
      <3> QED BY <1>b, <3>1, <3>2, <3>3
    <2>5. J \in SUBSET (RunningCalls \ {k})
      OBVIOUS
    <2>6. /\ Z \in SUBSET Node /\ Total(Estimate, Z) \in Nat /\ Margin \in Nat
          /\ Total(Estimate, Z) <= Margin
      BY <2>3, <2>5, OthersFit
    <2> HIDE DEF Z, J
    <2>7. Total(Estimate, Y) <= Total(Estimate, Active(c)') + Total(Estimate, Z)
      <3>1. Active(c)' \cup Z \in SUBSET Node
        BY <1>g, <2>6
      <3>2. Total(Estimate, Y) <= Total(Estimate, Active(c)' \cup Z)
        BY <2>4, <3>1, Estimates
      <3>3. Total(Estimate, Active(c)' \cup Z) <= Total(Estimate, Active(c)') + Total(Estimate, Z)
        BY <1>g, <2>6, EstimatesJoin
      <3>4. Total(Estimate, Active(c)' \cup Z) \in Nat
        BY <3>1, Estimates
      <3> QED BY <1>g, <2>6, <3>2, <3>3, <3>4
    <2>8. Tally(c, R)' <= Cap[c] + Margin
      BY <1>f, <1>g, <1>h, <1>l, <2>1, <2>2, <2>6, <2>7
    <2>9. ASSUME NEW j \in Reading(c)' \ R PROVE TooLittleLeft(j, c, R)'
      <3>1. /\ j \in Reading(c) \ R /\ NodeOf(j) \in Node /\ j \in Call
            /\ seen'[j] = seen[j]
        BY <1>j, Calls DEF Reading
      <3>2. SpentIn(seen[j], c) + Total(Estimate, Left(c, R)) + Estimate[NodeOf(j)] > Cap[c]
        BY <3>1 DEF Bounded, TooLittleLeft
      <3>3. SpentIn(seen[j], c) \in Nat /\ Estimate[NodeOf(j)] \in Nat
        BY <3>1, Terms, BoundsAreNumbers
      <3>4. SpentIn(seen'[j], c) + Total(Estimate, Left(c, R)') + Estimate[NodeOf(j)] > Cap[c]
        BY <1>f, <1>g, <1>i, <1>l, <3>1, <3>2, <3>3
      <3> QED BY <3>4 DEF TooLittleLeft
    <2>10. Bounded(c, R)'
      BY <2>8, <2>9 DEF Bounded
    <2> QED BY <1>c, <2>10
  <1> QED BY <1>1, <1>2, <1>3, <1>l

\* The second append of commit: what was pending is spent.
LEMMA CostStep ==
    ASSUME SafeInv, SafeInv', NEW c \in Category, NEW R \in SUBSET Reading(c), Bounded(c, R),
           NEW k \in Call, CommitCost(k)
    PROVE  \E S \in SUBSET Reading(c)' : Bounded(c, S)'
  <1> DEFINE n == NodeOf(k)
             ERA == {"executing", "returned", "allowed"}
             e == <<n, outcome[k].cost, now>>
             D == {x \in costs : CategoryOf[x[1]] = c /\ x[1] \notin reused}
             DN == {x \in costs' : CategoryOf[x[1]] = c /\ x[1] \notin reused}
  <1>a. /\ TypeOK /\ n \in Node /\ CallStep(k) /\ pc[k] = "marked" /\ lock = k /\ lock # NoCall
        /\ lock' = NoCall /\ UNCHANGED <<seen, outcome>> /\ costs' = costs \cup {e}
    BY Calls DEF SafeInv, TypeInv, CallStep, CommitCost, LockInv, SettleAfterCommit
  <1>b. UNCHANGED <<entry, latest, cache>>
    <2>1. cache[n] = "committed"
      BY <1>a DEF SafeInv, SettledInv
    <2> QED BY <2>1 DEF CommitCost, SettleAfterCommit, Release
  <1>c. pc'[k] \in {"done", "blocked"}
    <2>1. Move(k, "done") \/ Move(k, "blocked")
      BY DEF CommitCost, SettleAfterCommit
    <2> QED BY <1>a, <2>1, Moved DEF PC
  <1>d. Active(c)' = Active(c) /\ reused' = reused /\ Fresh' = Fresh
    BY <1>b DEF Active, Fresh, CommitCost
  <1>e. Reading(c)' = Reading(c)
    BY <1>a, <1>c, ReadingMoves
  <1>f. /\ At(c, {"allowed"})' \subseteq At(c, {"allowed"})
        /\ At(c, ERA)' \subseteq At(c, ERA)
    BY <1>a, <1>c, AtMoves
  <1>1. Left(c, R) \subseteq Left(c, R)' /\ Exposed(c, R)' \subseteq Exposed(c, R)
    BY <1>d, <1>f DEF Left, Exposed
  <1>2. Counted(costs', c, reused') + Charging(c)' <= Counted(costs, c, reused) + Charging(c)
    <2>1. Charging(c)' = 0
      BY <1>a DEF Charging
    <2>2. /\ IsFiniteSet(costs) /\ \A x \in costs : CostOf[x] \in Nat
      BY CostsAreNumbers DEF SafeInv
    <2>3. IsFiniteSet(D) /\ \A x \in D : CostOf[x] \in Nat
      BY <2>2, FS_Subset
    <2>4. CostOf[e] = outcome[k].cost /\ e[1] = n /\ outcome[k].cost \in Nat
      <3>1. outcome[k].cost \in Actual \cup {0}
        BY <1>a DEF TypeOK, Outcome
      <3>2. \A x \in Actual : x \in Nat
        BY BudgetAssumption
      <3>3. e \in Node \X Nat \X Clock
        BY <1>a, <3>1, <3>2 DEF TypeOK
      <3> QED BY <3>1, <3>2, <3>3 DEF CostOf
    <2>5. /\ Counted(costs, c, reused) = Total(CostOf, D)
          /\ Counted(costs', c, reused') = Total(CostOf, DN)
      BY <1>d DEF Counted
    <2>6. Total(CostOf, D) \in Nat /\ Charging(c) \in Nat
      <3> HIDE DEF D
      <3> QED BY <2>3, TotalType, ChargingIsNumber DEF SafeInv
    <2>7. CASE CategoryOf[n] = c /\ n \notin reused /\ e \notin D
      <3>1. DN = D \cup {e}
        BY <1>a, <2>4, <2>7
      <3>2. Charging(c) = CostOf[e]
        BY <1>a, <2>4, <2>7 DEF Charging
      <3> HIDE DEF D, DN, e
      <3>3. Total(CostOf, D \cup {e}) = Total(CostOf, D) + CostOf[e]
        BY <2>3, <2>4, <2>7, TotalAdd
      <3>4. Total(CostOf, DN) = Total(CostOf, D) + CostOf[e]
        BY <3>1, <3>3
      <3> QED BY <2>1, <2>4, <2>5, <2>6, <3>2, <3>4
    <2>8. CASE ~(CategoryOf[n] = c /\ n \notin reused /\ e \notin D)
      <3>1. DN = D
        BY <1>a, <2>4, <2>8
      <3> HIDE DEF D, DN, e
      <3>2. Total(CostOf, DN) = Total(CostOf, D)
        BY <3>1
      <3> QED BY <2>1, <2>5, <2>6, <3>2
    <2> QED BY <2>7, <2>8
  <1>3. \A j \in Reading(c)' \ R :
           /\ j \in Reading(c) \ R
           /\ seen'[j] = seen[j]
    BY <1>a, <1>d, <1>e
  <1>4. R \in SUBSET Reading(c)'
    BY <1>e
  <1>5. Bounded(c, R)'
    BY <1>1, <1>2, <1>3, <1>4, NarrowsSets
  <1> QED BY <1>4, <1>5

\* A restart ends every reading and every doubt.
LEMMA RestartStep ==
    ASSUME SafeInv, SafeInv', NEW c \in Category, NEW R \in SUBSET Reading(c), Bounded(c, R), Restart
    PROVE  \E S \in SUBSET Reading(c)' : Bounded(c, S)'
  <1>a. /\ UNCHANGED <<entry, latest, costs, outcome>> /\ lock' = NoCall
        /\ \A j \in Call : pc'[j] \notin {"reading", "allowed"}
    BY DEF Restart, ledger, SafeInv, TypeInv, TypeOK, Running, Ended
  <1>b. Active(c)' = Active(c) /\ reused' = reused
    BY <1>a DEF Active, Restart
  <1>c. Reading(c)' = {} /\ At(c, {"allowed"})' = {}
    BY <1>a, Calls DEF Reading, At
  <1>1. Exposed(c, {})' = Active(c)
    BY <1>b, <1>c DEF Exposed, Late
  <1>2. /\ Counted(costs, c, reused) \in Nat /\ Charging(c) \in Nat
        /\ Total(Estimate, Exposed(c, R)) \in Nat /\ Total(Estimate, Active(c)) \in Nat
        /\ Exposed(c, R) \in SUBSET Node
    BY Terms
  <1>3. Total(Estimate, Active(c)) <= Total(Estimate, Exposed(c, R))
    <2>1. Active(c) \in SUBSET Exposed(c, R)
      BY DEF Exposed
    <2> QED BY <1>2, <2>1, Estimates
  <1>4. Tally(c, {})' = Counted(costs, c, reused) + Total(Estimate, Active(c))
    <2>1. Charging(c)' = 0
      BY <1>a DEF Charging
    <2>2. Tally(c, {})' = Counted(costs, c, reused) + Charging(c)' + Total(Estimate, Active(c))
      BY <1>a, <1>b, <1>1 DEF Tally
    <2> QED BY <1>2, <2>1, <2>2
  <1>5. Tally(c, R) = Counted(costs, c, reused) + Charging(c) + Total(Estimate, Exposed(c, R))
    BY DEF Tally
  <1>6. Tally(c, R) <= Cap[c] + Margin /\ Cap[c] \in Nat /\ Margin \in Int
    BY BoundsAreNumbers DEF Bounded
  <1>7. Tally(c, {})' <= Cap[c] + Margin
    BY <1>2, <1>3, <1>4, <1>5, <1>6
  <1>8. Bounded(c, {})'
    BY <1>c, <1>7 DEF Bounded
  <1> QED BY <1>8

\* Steps that touch neither a reservation nor a call.
LEMMA IdleStep ==
    ASSUME SafeInv, SafeInv', NEW c \in Category, NEW R \in SUBSET Reading(c), Bounded(c, R),
           Tick \/ UNCHANGED vars \/ \E k \in Call : TimeOut(k)
    PROVE  \E S \in SUBSET Reading(c)' : Bounded(c, S)'
  <1>1. UNCHANGED <<entry, latest, costs, lock, pc, seen, outcome, reused>>
    BY DEF Tick, TimeOut, vars, ledger
  <1>2. /\ Reading(c)' = Reading(c) /\ Fresh' = Fresh /\ Active(c)' = Active(c)
        /\ \A places : At(c, places)' = At(c, places)
    BY <1>1 DEF Reading, Fresh, Active, At
  <1>3. Left(c, R)' = Left(c, R) /\ Exposed(c, R)' = Exposed(c, R) /\ Charging(c)' = Charging(c)
    BY <1>1, <1>2 DEF Left, Exposed, Charging
  <1>4. Bounded(c, R)'
    BY <1>1, <1>2, <1>3 DEF Bounded, TooLittleLeft, Tally
  <1> QED BY <1>2, <1>4

LEMMA OverInvStep ==
    SafeInv /\ SafeInv' /\ ExcessInv /\ OverInv /\ [Next]_vars => OverInv'
  <1> SUFFICES ASSUME SafeInv, SafeInv', ExcessInv, OverInv, [Next]_vars, NEW c \in Category
               PROVE  \E S \in SUBSET Reading(c)' : Bounded(c, S)'
    BY DEF OverInv
  <1>0. PICK R \in SUBSET Reading(c) : Bounded(c, R)
    BY DEF OverInv
  <1>a. TypeOK /\ \A k \in Call, place \in PC : Move(k, place) => pc'[k] = place
    BY Moved DEF SafeInv, TypeInv
  <1>1. ASSUME NEW k \in Call, BeginCall(k) PROVE \E S \in SUBSET Reading(c)' : Bounded(c, S)'
    <2>1. /\ CallStep(k) /\ UNCHANGED <<entry, latest, costs, lock, seen, outcome, reused>>
          /\ pc[k] = "new" /\ pc'[k] = "preflight"
      BY <1>1, <1>a DEF BeginCall, CallStep, ledger, PC
    <2>2. Bounded(c, R)' /\ R \in SUBSET Reading(c)'
      BY <1>0, <2>1, QuietStep
    <2> QED BY <2>2
  <1>2. ASSUME NEW k \in Call, NEW status \in {"completed", "blocked"}, NEW cost \in Actual,
               ExecutorReturns(k, status, cost)
        PROVE  \E S \in SUBSET Reading(c)' : Bounded(c, S)'
    <2>1. /\ CallStep(k) /\ UNCHANGED <<entry, latest, costs, lock, seen, reused>>
          /\ pc[k] = "executing" /\ pc'[k] = "returned"
      BY <1>2, <1>a DEF ExecutorReturns, CallStep, ledger, PC
    <2>2. lock # NoCall => outcome'[lock] = outcome[lock]
      <3>1. lock # NoCall => lock \in Call /\ lock # k
        BY <2>1 DEF SafeInv, LockInv
      <3> QED BY <1>2, <1>a, <3>1 DEF ExecutorReturns, TypeOK
    <2>3. Bounded(c, R)' /\ R \in SUBSET Reading(c)'
      BY <1>0, <2>1, <2>2, QuietStep
    <2> QED BY <2>3
  <1>3. ASSUME NEW k \in Call, Reserve(k) \/ ExecutorRaises(k) \/ CommitFails(k)
        PROVE  \E S \in SUBSET Reading(c)' : Bounded(c, S)'
    <2>1. /\ CallStep(k) /\ UNCHANGED <<costs, seen>> /\ lock = NoCall /\ lock' = NoCall
          /\ pc[k] \in {"allowed", "executing", "returned"}
      BY <1>3 DEF Reserve, ExecutorRaises, CommitFails, CallStep
    <2>2. Move(k, "executing") \/ Move(k, "blocked") \/ Move(k, "raised")
      BY <1>3 DEF Reserve, ExecutorRaises, CommitFails
    <2>3. pc'[k] \notin {"allowed", "reading"}
      BY <1>a, <2>2 DEF PC
    <2>4. Bounded(c, R)' /\ R \in SUBSET Reading(c)'
      BY <1>0, <2>1, <2>3, HoldStep
    <2> QED BY <2>4
  <1>4. ASSUME NEW k \in Call, ReadCosts(k) PROVE \E S \in SUBSET Reading(c)' : Bounded(c, S)'
    BY <1>0, <1>4, ReadStep
  <1>5. ASSUME NEW k \in Call, Decide(k) PROVE \E S \in SUBSET Reading(c)' : Bounded(c, S)'
    BY <1>0, <1>5, DecideStep
  <1>6. ASSUME NEW k \in Call, CommitMark(k) PROVE \E S \in SUBSET Reading(c)' : Bounded(c, S)'
    BY <1>0, <1>6, MarkStep
  <1>7. ASSUME NEW k \in Call, CommitCost(k) PROVE \E S \in SUBSET Reading(c)' : Bounded(c, S)'
    BY <1>0, <1>7, CostStep
  <1>8. CASE Restart
    BY <1>0, <1>8, RestartStep
  <1>9. CASE Tick \/ UNCHANGED vars \/ \E k \in Call : TimeOut(k)
    BY <1>0, <1>9, IdleStep
  <1> QED BY <1>1, <1>2, <1>3, <1>4, <1>5, <1>6, <1>7, <1>8, <1>9 DEF Next, CallStep

OverrunInv == BudgetInv /\ SafeInv /\ ExcessInv /\ OverInv

LEMMA OverrunAlways == Spec => []OverrunInv
  <1>1. Init => OverrunInv
    <2> SUFFICES ASSUME Init, BudgetInv PROVE OverrunInv
      BY InitBudget
    <2>1. /\ \A k \in Call : pc[k] = "new"
          /\ \A n \in Node : latest[n] = "none" /\ ~Committed(n) /\ entry[n]["active"] = Absent
                             /\ \A s \in HoldState : entry[n][s] = 0
      BY DEF Init, Committed, HoldState, Absent
    <2>2. costs = {} /\ lock = NoCall /\ now = 1
      BY DEF Init
    <2>3. RunningCalls = {}
      BY <2>1 DEF RunningCalls, Running
    <2>4. WorkersInv
      BY <2>3, FS_EmptySet, BudgetAssumption DEF WorkersInv
    <2>6. SettledInv
      BY <2>1, <2>2 DEF Init, SettledInv
    <2>7. CostsInv
      BY <2>2, FS_EmptySet DEF CostsInv, Charged
    <2>8. SafeInv
      BY <2>4, <2>6, <2>7 DEF SafeInv, BudgetInv
    <2>9. ExcessInv
      BY <2>2 DEF ExcessInv
    <2>10. ASSUME NEW c \in Category PROVE \E S \in SUBSET Reading(c) : Bounded(c, S)
      <3>1. Reading(c) = {} /\ At(c, {"allowed"}) = {} /\ Active(c) = {}
        BY <2>1, Calls DEF Reading, At, Active
      <3>2. Exposed(c, {}) = {} /\ Charging(c) = 0
        BY <2>2, <3>1 DEF Exposed, Late, Charging
      <3>3. Counted(costs, c, reused) = 0
        <4>1. {x \in costs : CategoryOf[x[1]] = c /\ x[1] \notin reused} = {}
          BY <2>2
        <4> QED BY <4>1, TotalEmpty DEF Counted
      <3>4. Total(Estimate, Exposed(c, {})) = 0
        BY <3>2, TotalEmpty
      <3>5. Tally(c, {}) = 0
        BY <3>2, <3>3, <3>4 DEF Tally
      <3>6. Margin \in Nat
        <4>1. Workers - 1 \in Nat /\ MaxEstimate \in Nat
          BY BudgetAssumption, Largest
        <4> QED BY <4>1 DEF Margin
      <3>7. Bounded(c, {})
        BY <3>1, <3>5, <3>6, BoundsAreNumbers DEF Bounded
      <3> QED BY <3>7
    <2> QED BY <2>8, <2>9, <2>10 DEF OverrunInv, OverInv
  <1>2. OverrunInv /\ [Next]_vars => OverrunInv'
    <2> SUFFICES ASSUME OverrunInv, [Next]_vars PROVE OverrunInv'
      OBVIOUS
    <2>1. BudgetInv'
      BY TypesStep, HoldInvStep, OwnerInvStep, LockInvStep, ChargeInvStep DEF BudgetInv, OverrunInv
    <2>2. WorkersInv' /\ SettledInv' /\ CostsInv'
      BY WorkersInvStep, SettledInvStep, CostsInvStep DEF OverrunInv, SafeInv
    <2>3. SafeInv'
      BY <2>1, <2>2 DEF SafeInv, BudgetInv
    <2>4. ExcessInv' /\ OverInv'
      BY <2>3, ExcessInvStep, OverInvStep DEF OverrunInv
    <2> QED BY <2>1, <2>3, <2>4 DEF OverrunInv
  <1> QED BY <1>1, <1>2, PTL DEF Spec

\* For any nodes, estimates, caps, costs and numbers of calls, workers and crashes.
THEOREM OverrunIsBounded == Spec => []OverrunBounded
  <1>1. OverrunInv => OverrunBounded
    <2> SUFFICES ASSUME OverrunInv, NEW c \in Category
                 PROVE  Counted(costs, c, reused) + ReservedIn(c) <= Cap[c] + Margin
      BY DEF OverrunBounded, Counted, Margin, MaxEstimate
    <2>0. SafeInv
      BY DEF OverrunInv
    <2>1. PICK R \in SUBSET Reading(c) : Bounded(c, R)
      BY DEF OverrunInv, OverInv
    <2>2. /\ Counted(costs, c, reused) \in Nat /\ Charging(c) \in Nat
          /\ Total(Estimate, Exposed(c, R)) \in Nat /\ Total(Estimate, Active(c)) \in Nat
          /\ Exposed(c, R) \in SUBSET Node
      BY <2>0, Terms
    <2>3. Total(Estimate, Active(c)) <= Total(Estimate, Exposed(c, R))
      <3>1. Active(c) \in SUBSET Exposed(c, R)
        BY DEF Exposed
      <3> QED BY <2>2, <3>1, Estimates
    <2>4. ReservedIn(c) = Total(Estimate, Active(c))
      BY DEF ReservedIn, Active
    <2>5. Counted(costs, c, reused) + Charging(c) + Total(Estimate, Exposed(c, R)) <= Cap[c] + Margin
      BY <2>1 DEF Bounded, Tally
    <2> QED BY <2>2, <2>3, <2>4, <2>5, BoundsAreNumbers
  <1> QED BY <1>1, OverrunAlways, PTL

-----------------------------------------------------------------------------
(* The snippets that a chapter's context is made of. *)

LEMMA SnippetsFinite == IsFiniteSet(Snippet)
  <1> DEFINE Ids == {"contract"} \cup Material
             Anchors == {Anchor(id) : id \in Ids}
             Techniques == {Technique(c) : c \in Craft}
             f == [id \in Ids |-> Anchor(id)]
             g == [c \in Craft |-> Technique(c)]
  <1>1. IsFiniteSet(Ids) /\ IsFiniteSet(Craft)
    BY StudioAssumption, FS_AddElement, FS_EmptySet, FS_Union
  <1>2. f \in Surjection(Ids, Anchors) /\ g \in Surjection(Craft, Techniques)
    BY DEF Surjection
  <1>3. IsFiniteSet(Anchors) /\ IsFiniteSet(Techniques)
    <2> HIDE DEF Ids, Anchors, Techniques, f, g
    <2> QED BY <1>1, <1>2, FS_Surjection
  <1> QED BY <1>3, FS_Union DEF Snippet

LEMMA SnippetCosts ==
    /\ \A s \in Snippet : SnippetTokens[s] \in Nat
    /\ \A S \in SUBSET Snippet : IsFiniteSet(S) /\ Cost(S) \in Nat
  <1>1. ASSUME NEW s \in Snippet PROVE SnippetTokens[s] \in Nat
    <2>1. s.id \in {"contract"} \cup Material \cup Craft
      <3>1. CASE \E id \in {"contract"} \cup Material : s = Anchor(id)
        BY <3>1 DEF Anchor
      <3>2. CASE \E c \in Craft : s = Technique(c)
        BY <3>2 DEF Technique
      <3> QED BY <3>1, <3>2 DEF Snippet
    <2>2. SnippetTokens[s] = Tokens[s.id]
      BY DEF SnippetTokens
    <2> QED BY <2>1, <2>2, StudioAssumption
  <1>2. ASSUME NEW S \in SUBSET Snippet PROVE IsFiniteSet(S) /\ Cost(S) \in Nat
    <2>1. IsFiniteSet(S)
      BY SnippetsFinite, FS_Subset
    <2> QED BY <1>1, <2>1, TotalType DEF Cost
  <1> QED BY <1>1, <1>2

LEMMA CostAdds ==
    ASSUME NEW S \in SUBSET Snippet, NEW s \in Snippet, s \notin S
    PROVE  Cost(S \cup {s}) = Cost(S) + SnippetTokens[s]
  BY SnippetCosts, TotalAdd DEF Cost

LEMMA Minimum ==
    ASSUME NEW T \in SUBSET Nat, T # {}
    PROVE  \E n \in T : \A m \in T : n <= m
  <1>1. IsWellFoundedOn(Less, Nat)
    BY NatLessThanWellFounded, Zenon DEF Less
  <1>2. Less = {ss \in Nat \X Nat : ss[1] < ss[2]}
    BY Zenon DEF Less, OpToRel
  <1>3. PICK n \in T : \A m \in T : <<m, n>> \notin Less
    BY <1>1, WFMin
  <1>4. ASSUME NEW m \in T PROVE n <= m
    <2>1. m \in Nat /\ n \in Nat /\ ~(m < n)
      BY <1>2, <1>3
    <2> QED BY <2>1
  <1> QED BY <1>4

\* The recursion of Chosen, over the places in D.
Trims(order, budget, D, g) ==
    g = [i \in D |->
            IF i = 0 THEN Mandatory(order)
            ELSE IF i \in Ranked(order) THEN Tried(g[i - 1], order[i], budget)
            ELSE g[i - 1]]

LEMMA ChosenIsTrimmed ==
    ASSUME NEW order, NEW budget
    PROVE  Chosen(order, budget) =
               (CHOOSE g : Trims(order, budget, {0} \cup DOMAIN order, g))[Cardinality(DOMAIN order)]
  BY Zenon DEF Chosen, Trims

LEMMA TrimStep ==
    ASSUME NEW order, NEW budget, NEW D, NEW g, Trims(order, budget, D, g)
    PROVE  /\ 0 \in D => g[0] = Mandatory(order)
           /\ \A i \in D : i # 0 =>
                 g[i] = IF i \in Ranked(order) THEN Tried(g[i - 1], order[i], budget)
                        ELSE g[i - 1]
  BY DEF Trims

LEMMA TrimsExist ==
    ASSUME NEW order, NEW budget, NEW n \in Nat
    PROVE  \E g : Trims(order, budget, 0..n, g)
  <1> DEFINE N == {k \in Nat : \E g : Trims(order, budget, 0..k, g)}
  <1>1. 0 \in N
    <2> DEFINE g == [i \in 0..0 |-> Mandatory(order)]
    <2>1. Trims(order, budget, 0..0, g)
      BY DEF Trims
    <2> HIDE DEF g
    <2> QED BY <2>1
  <1>2. ASSUME NEW k \in Nat, k \in N PROVE k + 1 \in N
    <2>1. PICK g : Trims(order, budget, 0..k, g)
      BY <1>2
    <2> DEFINE next == IF k + 1 \in Ranked(order) THEN Tried(g[k], order[k + 1], budget) ELSE g[k]
               h == [i \in 0..(k + 1) |-> IF i = k + 1 THEN next ELSE g[i]]
    <2>2. \A i \in 0..k : h[i] = g[i]
      OBVIOUS
    <2>3. h[k + 1] = next
      OBVIOUS
    <2> DEFINE Body(i) == IF i = 0 THEN Mandatory(order)
                          ELSE IF i \in Ranked(order) THEN Tried(h[i - 1], order[i], budget)
                          ELSE h[i - 1]
    <2>4. ASSUME NEW i \in 0..(k + 1) PROVE h[i] = Body(i)
      <3>1. CASE i = 0
        <4>1. 0 \in 0..k
          OBVIOUS
        <4>2. g[0] = Mandatory(order)
          BY <2>1, <4>1, TrimStep
        <4> HIDE DEF h
        <4> QED BY <2>2, <3>1, <4>1, <4>2
      <3>2. CASE i # 0 /\ i # k + 1
        <4>1. i \in 0..k /\ i - 1 \in 0..k
          BY <3>2
        <4>2. g[i] = IF i \in Ranked(order) THEN Tried(g[i - 1], order[i], budget) ELSE g[i - 1]
          BY <2>1, <3>2, <4>1, TrimStep
        <4> HIDE DEF h
        <4> QED BY <2>2, <3>2, <4>1, <4>2
      <3>3. CASE i = k + 1
        <4>1. i # 0 /\ i - 1 = k /\ k \in 0..k
          BY <3>3
        <4> HIDE DEF h
        <4>2. h[i - 1] = g[k] /\ h[i] = next
          BY <2>2, <2>3, <3>3, <4>1
        <4> QED BY <3>3, <4>1, <4>2
      <3> QED BY <3>1, <3>2, <3>3
    <2>5. h = [i \in 0..(k + 1) |-> h[i]]
      OBVIOUS
    <2>6. Trims(order, budget, 0..(k + 1), h)
      <3> HIDE DEF h
      <3> QED BY <2>4, <2>5 DEF Trims
    <2>7. \E e : Trims(order, budget, 0..(k + 1), e)
      <3> HIDE DEF h
      <3> QED BY <2>6
    <2> QED BY <2>7
  <1>3. \A k \in Nat : k \in N
    <2> HIDE DEF N
    <2> QED BY <1>1, <1>2, Counting
  <1> QED BY <1>3

\* What is chosen at each place: what is left out so far does not fit, and will not.
Fits(order, budget, chosen, i) ==
    /\ chosen \subseteq Offered(order) /\ Mandatory(order) \subseteq chosen
    /\ Cost(chosen) <= budget
    /\ \A j \in Ranked(order) :
          j <= i => order[j] \in chosen \/ Cost(chosen) + SnippetTokens[order[j]] > budget

LEMMA OrderIsFinite ==
    ASSUME NEW S \in SUBSET Snippet, NEW order \in Orders(S)
    PROVE  /\ Cardinality(S) \in Nat /\ DOMAIN order = 1..Cardinality(S)
           /\ Cardinality(DOMAIN order) = Cardinality(S)
           /\ \A i \in DOMAIN order : order[i] \in S
           /\ Offered(order) \subseteq S
           /\ {0} \cup DOMAIN order = 0..Cardinality(S)
  <1>1. Cardinality(S) \in Nat
    BY SnippetCosts, FS_CardinalityType
  <1>2. DOMAIN order = 1..Cardinality(S) /\ \A i \in DOMAIN order : order[i] \in S
    BY DEF Orders
  <1>3. Cardinality(1..Cardinality(S)) = Cardinality(S)
    BY <1>1, FS_Interval
  <1>4. Offered(order) \subseteq S
    BY <1>2 DEF Offered, Ranked
  <1>5. {0} \cup DOMAIN order = 0..Cardinality(S)
    BY <1>1, <1>2
  <1> QED BY <1>1, <1>2, <1>3, <1>4, <1>5

LEMMA MandatoryOffered ==
    ASSUME NEW S \in SUBSET Snippet, NEW order \in Orders(S)
    PROVE  /\ Mandatory(order) \subseteq Offered(order)
           /\ HasEachKind(S) => HasEachKind(Mandatory(order))
  <1>1. Mandatory(order) \subseteq Offered(order)
    <2> SUFFICES ASSUME NEW i \in DOMAIN order, Before(order, i) = {}
                 PROVE  i \in Ranked(order)
      BY DEF Mandatory, Offered
    <2>1. Cardinality(Before(order, i)) = 0
      BY FS_EmptySet
    <2> QED BY <2>1, StudioAssumption DEF Ranked
  <1>2. ASSUME HasEachKind(S), NEW kind \in Kind
        PROVE  \E s \in Mandatory(order) : s.kind = kind
    <2> DEFINE T == {i \in DOMAIN order : order[i].kind = kind}
    <2>1. PICK s \in S : s.kind = kind
      BY <1>2 DEF HasEachKind
    <2>2. T \in SUBSET Nat
      BY OrderIsFinite
    <2>3. T # {}
      BY <2>1 DEF Orders
    <2>4. PICK n \in T : \A m \in T : n <= m
      <3> HIDE DEF T
      <3> QED BY <2>2, <2>3, Minimum
    <2>5. Before(order, n) = {}
      <3> SUFFICES ASSUME NEW j \in Before(order, n) PROVE FALSE
        OBVIOUS
      <3>1. j \in T /\ j < n
        BY DEF Before, OfKind
      <3>2. j \in Nat /\ n \in Nat
        BY <2>2, <3>1
      <3> QED BY <2>4, <3>1, <3>2
    <2> QED BY <2>4, <2>5 DEF Mandatory
  <1> QED BY <1>1, <1>2 DEF HasEachKind

LEMMA TriedFits ==
    ASSUME NEW S \in SUBSET Snippet, NEW order \in Orders(S), NEW budget \in Nat,
           NEW chosen, NEW i \in Nat, Fits(order, budget, chosen, i), i + 1 \in DOMAIN order
    PROVE  Fits(order, budget,
                IF i + 1 \in Ranked(order) THEN Tried(chosen, order[i + 1], budget) ELSE chosen,
                i + 1)
  <1> DEFINE s == order[i + 1]
             next == IF i + 1 \in Ranked(order) THEN Tried(chosen, s, budget) ELSE chosen
  <1>1. chosen \in SUBSET Snippet /\ s \in Snippet /\ Ranked(order) \subseteq Nat
    BY OrderIsFinite DEF Fits, Ranked
  <1>2. Cost(chosen) \in Nat /\ SnippetTokens[s] \in Nat
        /\ \A j \in Ranked(order) : SnippetTokens[order[j]] \in Nat
    BY <1>1, SnippetCosts, OrderIsFinite DEF Ranked
  <1>3. CASE next = chosen
    <2>1. ASSUME NEW j \in Ranked(order), j <= i + 1
          PROVE  order[j] \in chosen \/ Cost(chosen) + SnippetTokens[order[j]] > budget
      <3>1. CASE j <= i
        BY <3>1 DEF Fits
      <3>2. CASE ~(j <= i)
        <4>1. j = i + 1
          BY <1>1, <2>1, <3>2
        <4>2. CASE s \in chosen
          BY <4>1, <4>2
        <4>3. CASE s \notin chosen
          <5>1. ~(Cost(chosen) + SnippetTokens[s] <= budget)
            BY <1>3, <2>1, <4>1, <4>3 DEF Tried
          <5> QED BY <1>2, <4>1, <5>1
        <4> QED BY <4>2, <4>3
      <3> QED BY <3>1, <3>2
    <2>2. Fits(order, budget, chosen, i + 1)
      BY <2>1 DEF Fits
    <2> HIDE DEF next
    <2>3. Fits(order, budget, next, i + 1)
      BY <1>3, <2>2
    <2> QED BY <2>3 DEF next
  <1>4. CASE next # chosen
    <2>1. i + 1 \in Ranked(order) /\ s \notin chosen /\ next = chosen \cup {s}
          /\ Cost(chosen) + SnippetTokens[s] <= budget
      BY <1>4 DEF Tried
    <2>2. Cost(chosen \cup {s}) = Cost(chosen) + SnippetTokens[s]
      BY <1>1, <2>1, CostAdds
    <2>3. s \in Offered(order)
      BY <2>1 DEF Offered
    <2>4. ASSUME NEW j \in Ranked(order), j <= i + 1, order[j] \notin chosen \cup {s}
          PROVE  Cost(chosen \cup {s}) + SnippetTokens[order[j]] > budget
      <3>1. j <= i
        BY <1>1, <2>4
      <3>2. Cost(chosen) + SnippetTokens[order[j]] > budget
        BY <2>4, <3>1 DEF Fits
      <3> QED BY <1>2, <2>2, <3>2
    <2>5. Fits(order, budget, chosen \cup {s}, i + 1)
      BY <2>1, <2>2, <2>3, <2>4 DEF Fits
    <2> HIDE DEF next
    <2>6. Fits(order, budget, next, i + 1)
      BY <2>1, <2>5
    <2> QED BY <2>6 DEF next
  <1> QED BY <1>3, <1>4

LEMMA ChosenFits ==
    ASSUME NEW S \in SUBSET Snippet, NEW order \in Orders(S), NEW budget \in Nat,
           Cost(Mandatory(order)) <= budget
    PROVE  Fits(order, budget, Chosen(order, budget), Cardinality(S))
  <1> DEFINE n == Cardinality(S)
             g == CHOOSE e : Trims(order, budget, 0..n, e)
  <1>1. n \in Nat /\ DOMAIN order = 1..n /\ {0} \cup DOMAIN order = 0..n
        /\ Cardinality(DOMAIN order) = n
    BY OrderIsFinite
  <1>2. Trims(order, budget, 0..n, g)
    <2> HIDE DEF n
    <2> QED BY <1>1, TrimsExist
  <1>3. Chosen(order, budget) = g[n]
    BY <1>1, ChosenIsTrimmed
  <1> HIDE DEF g, n
  <1>s. /\ 0 \in 0..n => g[0] = Mandatory(order)
        /\ \A i \in 0..n : i # 0 =>
              g[i] = IF i \in Ranked(order) THEN Tried(g[i - 1], order[i], budget) ELSE g[i - 1]
    <2> DEFINE D == 0..n
    <2>1. Trims(order, budget, D, g)
      BY <1>2
    <2> HIDE DEF D
    <2>2. /\ 0 \in D => g[0] = Mandatory(order)
          /\ \A i \in D : i # 0 =>
                g[i] = IF i \in Ranked(order) THEN Tried(g[i - 1], order[i], budget) ELSE g[i - 1]
      BY ONLY <2>1, TrimStep
    <2> QED BY <2>2 DEF D
  <1> DEFINE N == {i \in Nat : i <= n => Fits(order, budget, g[i], i)}
  <1>4. 0 \in N
    <2>1. g[0] = Mandatory(order)
      <3>1. 0 \in 0..n
        BY <1>1
      <3> QED BY <1>s, <3>1
    <2>2. Ranked(order) \subseteq 1..n
      BY <1>1 DEF Ranked
    <2>3. Fits(order, budget, Mandatory(order), 0)
      BY <1>1, <2>2, MandatoryOffered DEF Fits
    <2> QED BY <2>1, <2>3
  <1>5. ASSUME NEW i \in Nat, i \in N PROVE i + 1 \in N
    <2> SUFFICES ASSUME i + 1 <= n PROVE Fits(order, budget, g[i + 1], i + 1)
      OBVIOUS
    <2>1. Fits(order, budget, g[i], i) /\ i + 1 \in DOMAIN order /\ i + 1 \in 0..n
      BY <1>1, <1>5
    <2>2. g[i + 1] = IF i + 1 \in Ranked(order) THEN Tried(g[i], order[i + 1], budget) ELSE g[i]
      <3>1. i + 1 # 0 /\ (i + 1) - 1 = i
        OBVIOUS
      <3>2. g[i + 1] = IF i + 1 \in Ranked(order) THEN Tried(g[(i + 1) - 1], order[i + 1], budget)
                       ELSE g[(i + 1) - 1]
        BY <1>s, <2>1, <3>1
      <3> QED BY <3>1, <3>2
    <2>3. Fits(order, budget,
               IF i + 1 \in Ranked(order) THEN Tried(g[i], order[i + 1], budget) ELSE g[i], i + 1)
      BY <2>1, TriedFits
    <2> QED BY <2>2, <2>3
  <1>6. n \in N
    <2> HIDE DEF N
    <2>1. \A i \in Nat : i \in N
      BY <1>4, <1>5, Counting
    <2> QED BY <1>1, <2>1
  <1>7. Fits(order, budget, g[n], n)
    BY <1>1, <1>6
  <1> QED BY <1>3, <1>7 DEF n

\* What ContextIsSound asks of a context, of what was chosen for it.
BestOf(offered, selected, budget) ==
    /\ selected \subseteq offered /\ Cost(selected) <= budget
    /\ HasEachKind(selected)
    /\ \A s \in offered \ selected : Cost(selected \cup {s}) > budget

LEMMA SelectionIsBest ==
    ASSUME NEW o \in Selections, o.enough
    PROVE  BestOf(o.offered, o.selected, o.budget) /\ o.offered \subseteq o.candidates
  <1>1. PICK S \in SUBSET Snippet, budget \in Budgets :
              HasEachKind(S) /\ \E order \in Orders(S) : o = Selection(S, budget, order)
    BY DEF Selections
  <1>2. PICK order \in Orders(S) : o = Selection(S, budget, order)
    BY <1>1
  <1> DEFINE chosen == Chosen(order, budget)
  <1>3. /\ o.candidates = S /\ o.budget = budget /\ o.offered = Offered(order)
        /\ o.selected = chosen /\ Cost(Mandatory(order)) <= budget
    BY <1>2 DEF Selection
  <1>4. budget \in Nat
    BY StudioAssumption
  <1>5. Fits(order, budget, chosen, Cardinality(S))
    BY <1>3, <1>4, ChosenFits
  <1> HIDE DEF chosen
  <1>6. Offered(order) \subseteq S
    BY OrderIsFinite
  <1>7. chosen \in SUBSET Snippet
    BY <1>5, <1>6 DEF Fits
  <1>8. HasEachKind(chosen)
    BY <1>1, <1>5, MandatoryOffered DEF Fits, HasEachKind
  <1>9. ASSUME NEW s \in Offered(order) \ chosen PROVE Cost(chosen \cup {s}) > budget
    <2>1. PICK j \in Ranked(order) : s = order[j]
      BY DEF Offered
    <2>2. j <= Cardinality(S)
      BY OrderIsFinite DEF Ranked
    <2>3. Cost(chosen) + SnippetTokens[s] > budget
      BY <1>5, <2>1, <2>2 DEF Fits
    <2>4. Cost(chosen \cup {s}) = Cost(chosen) + SnippetTokens[s]
      BY <1>6, <1>7, CostAdds
    <2> QED BY <2>3, <2>4
  <1>10. BestOf(Offered(order), chosen, budget)
    BY <1>5, <1>8, <1>9 DEF Fits, BestOf
  <1> QED BY <1>3, <1>6, <1>10

-----------------------------------------------------------------------------
(* The studio: what the files and the runs hold. *)

Place == {"new", "contract", "baseline", "bible", "query", "trim", "package", "record", "done", "failed"}
Mem ==
    [runs : Nat, reviewed : SUBSET Material, seed : 0 .. MaxSeeds, sources : SUBSET Material,
     contract : Part, baseline : 0 .. MaxSeeds, job : Job \cup {"none"},
     budget : Budgets \cup {0}, bible : BibleType \cup {NoBible}, assets : SUBSET Craft]
StudioTypes ==
    /\ project \in [exists : BOOLEAN, runs : Nat, bibles : Nat]
    /\ catalog \in [Material -> Status] /\ seed \in 0 .. MaxSeeds
    /\ current \in Bibles \cup {NoBible}
    /\ packaged \subseteq [bible : BibleType, reviewed : SUBSET Material]
    /\ torn \subseteq {"project", "catalog", "seed", "bible"}
    /\ busy \in {Idle} \cup [file : {"catalog", "project"}, by : Run \cup {"create", "request"}]
    /\ stage \in [Run -> Place]
    /\ mem \in [Run -> Mem]
    /\ jobs = [j \in Job |-> jobs[j]]
    /\ recorded \subseteq Run /\ IsFiniteSet(recorded)
    /\ deaths \in 0 .. MaxDeaths

\* Each run is at a stage of its own workflow.
PlaceInv ==
    \A r \in Run :
        /\ stage[r] \in {"contract", "baseline", "bible"} => r \in BibleRun
        /\ stage[r] = "record" => r \notin ContextRun
        /\ stage[r] \in {"query", "trim", "package"} => r \in ContextRun

\* The parts of a bible that a run holds when it comes to a stage.
PartsSound(held, at) ==
    /\ at \in {"contract", "baseline", "bible"} =>
          held.sources # {} /\ held.sources \subseteq held.reviewed
    /\ at \in {"baseline", "bible"} =>
          held.contract = [seed |-> held.seed, evidence |-> held.sources]
    /\ at = "bible" => held.baseline = held.seed
PartsInv == \A r \in Run : PartsSound(mem[r], stage[r])

LEMMA BiblesSame == ASSUME UNCHANGED packaged PROVE Bibles' = Bibles
  BY DEF Bibles

LEMMA StudioTypesStep ==
    ASSUME StudioTypes, PlaceInv, [StudioNext]_studioVars
    PROVE  StudioTypes'
  <1> DEFINE Files == /\ project \in [exists : BOOLEAN, runs : Nat, bibles : Nat]
                      /\ catalog \in [Material -> Status] /\ seed \in 0 .. MaxSeeds
                      /\ torn \subseteq {"project", "catalog", "seed", "bible"}
                      /\ busy \in {Idle} \cup [file : {"catalog", "project"},
                                               by : Run \cup {"create", "request"}]
             Written == /\ current \in Bibles \cup {NoBible}
                        /\ packaged \subseteq [bible : BibleType, reviewed : SUBSET Material]
                        /\ jobs = [j \in Job |-> jobs[j]]
             Runs == stage \in [Run -> Place] /\ mem \in [Run -> Mem]
             Rest == recorded \subseteq Run /\ IsFiniteSet(recorded) /\ deaths \in 0 .. MaxDeaths
  <1>0. Files /\ Written /\ Runs /\ Rest
    BY DEF StudioTypes
  <1>n. NoMem \in Mem
    BY StudioAssumption DEF NoMem, Mem, Part, NoPart
  <1>e. ASSUME NEW r \in Run, NEW how \in Place, Ends(r, how) PROVE Runs'
    BY <1>0, <1>n, <1>e DEF Ends, Goes
  <1>f. \A r \in Run : Failed(r) \in Place
    BY DEF Failed, Place
  <1> USE <1>0
  <1>1. CASE UNCHANGED studioVars
    BY <1>1, BiblesSame DEF studioVars, files, past, StudioTypes
  <1>2. CASE CreateProject
    <2>1. Files'
      BY <1>2 DEF CreateProject, NoProject, Writes
    <2>2. Written' /\ Runs' /\ Rest'
      BY <1>2, BiblesSame DEF CreateProject, past
    <2> QED BY <2>1, <2>2 DEF StudioTypes
  <1>3. CASE CreateCatalog
    <2>1. Files'
      BY <1>3 DEF CreateCatalog, Idle, files
    <2>2. Written' /\ Runs' /\ Rest'
      BY <1>3, BiblesSame DEF CreateCatalog, past, files
    <2> QED BY <2>1, <2>2 DEF StudioTypes
  <1>4. CASE SaveSeed
    <2>1. Files'
      BY <1>4, StudioAssumption DEF SaveSeed, Writes
    <2>2. Written' /\ Runs' /\ Rest'
      BY <1>4, BiblesSame DEF SaveSeed, past
    <2> QED BY <2>1, <2>2 DEF StudioTypes
  <1>5. ASSUME NEW m \in Material, RegisterMaterial(m) PROVE StudioTypes'
    <2>1. Files'
      BY <1>5 DEF RegisterMaterial, Writes, Status
    <2>2. Written' /\ Runs' /\ Rest'
      BY <1>5, BiblesSame DEF RegisterMaterial, past
    <2> QED BY <2>1, <2>2 DEF StudioTypes
  <1>6. ASSUME NEW m \in Material, NEW decision \in {"approved", "rejected"},
               ReviewMaterial(m, decision)
        PROVE  StudioTypes'
    <2>1. Files'
      BY <1>6 DEF ReviewMaterial, Writes, Status
    <2>2. Written' /\ Runs' /\ Rest'
      BY <1>6, BiblesSame DEF ReviewMaterial, past
    <2> QED BY <2>1, <2>2 DEF StudioTypes
  <1>b. ASSUME NEW r \in Run, NEW holds \in Mem, NEW to \in Place, Begin(r, holds, to)
        PROVE  StudioTypes'
    <2>1. Files' /\ Written' /\ Rest'
      BY <1>b, BiblesSame DEF Begin, files, past
    <2>2. Runs'
      BY <1>b DEF Begin, Goes
    <2> QED BY <2>1, <2>2 DEF StudioTypes
  <1>7. ASSUME NEW r \in Run, BeginBootstrap(r) PROVE StudioTypes'
    <2>1. [NoMem EXCEPT !.runs = project.runs] \in Mem
      BY <1>n DEF Mem, NoMem
    <2> QED BY <1>7, <1>b, <2>1 DEF BeginBootstrap, Place
  <1>8. ASSUME NEW r \in Run, BeginBible(r) PROVE StudioTypes'
    <2>1. Sources \subseteq Material /\ Approved \subseteq Material
      BY DEF Sources, Approved
    <2>2. [NoMem EXCEPT !.reviewed = Approved, !.seed = seed, !.sources = Sources] \in Mem
      BY <1>n, <2>1 DEF Mem, NoMem
    <2> QED BY <1>8, <1>b, <2>2 DEF BeginBible, Place
  <1>9. ASSUME NEW r \in Run, NEW j \in Job, NEW budget \in Budgets, BeginContext(r, j, budget)
        PROVE  StudioTypes'
    <2>1. ContextRequest(j, budget) \in Mem
      BY <1>n DEF Mem, NoMem, ContextRequest
    <2> QED BY <1>9, <1>b, <2>1 DEF BeginContext, Place
  <1>10. ASSUME NEW r \in Run, NarrativeContract(r) PROVE StudioTypes'
    <2>1. Files' /\ Written' /\ Rest'
      BY <1>10, BiblesSame DEF NarrativeContract, files, past
    <2>2. mem[r] \in Mem
      OBVIOUS
    <2>3. [seed |-> mem[r].seed, evidence |-> Evidence(r)] \in Part
      BY <2>2 DEF Mem, Part, Evidence
    <2>4. [mem[r] EXCEPT !.contract = [seed |-> mem[r].seed, evidence |-> Evidence(r)]] \in Mem
      BY <2>2, <2>3 DEF Mem
    <2>5. Runs'
      BY <1>10, <2>4 DEF NarrativeContract, Goes, Place
    <2> QED BY <2>1, <2>5 DEF StudioTypes
  <1>11. ASSUME NEW r \in Run, ContinuityBaseline(r) PROVE StudioTypes'
    <2>1. Files' /\ Written' /\ Rest'
      BY <1>11, BiblesSame DEF ContinuityBaseline, files, past
    <2>2. mem[r] \in Mem
      OBVIOUS
    <2>3. Inputs(r) \in 0 .. MaxSeeds
      BY <2>2 DEF Mem, Inputs
    <2>4. [mem[r] EXCEPT !.baseline = Inputs(r)] \in Mem
      BY <2>2, <2>3 DEF Mem
    <2>5. Runs'
      BY <1>11, <2>4 DEF ContinuityBaseline, Goes, Place
    <2> QED BY <2>1, <2>5 DEF StudioTypes
  <1>12. ASSUME NEW r \in Run, PackageBible(r) PROVE StudioTypes'
    <2>1. Files' /\ Rest'
      BY <1>12 DEF PackageBible
    <2>2. Runs'
      BY <1>12 DEF PackageBible, Goes, Place
    <2>3. mem[r] \in Mem /\ r \in BibleRun
      BY <1>12 DEF PackageBible, PlaceInv
    <2>4. [bible |-> Bible(r), reviewed |-> mem[r].reviewed]
             \in [bible : BibleType, reviewed : SUBSET Material]
      BY <2>3 DEF Mem, Bible, BibleType
    <2>5. Bible(r) \in Bibles'
      <3> DEFINE p == [bible |-> Bible(r), reviewed |-> mem[r].reviewed]
      <3>1. p \in packaged' /\ p.bible = Bible(r)
        BY <1>12 DEF PackageBible
      <3> HIDE DEF p
      <3> QED BY <3>1 DEF Bibles
    <2>6. Written'
      BY <1>12, <2>4, <2>5 DEF PackageBible
    <2> QED BY <2>1, <2>2, <2>6 DEF StudioTypes
  <1>13. ASSUME NEW r \in Run, RecordRun(r) PROVE StudioTypes'
    <2>1. Files' /\ Written' /\ Runs'
      BY <1>13, BiblesSame DEF RecordRun, files, past, Writes
    <2>2. Rest'
      BY <1>13, FS_AddElement DEF RecordRun, past
    <2> QED BY <2>1, <2>2 DEF StudioTypes
  <1>14. CASE UpdateProject
    <2>1. project' \in [exists : BOOLEAN, runs : Nat, bibles : Nat]
      <3>1. project' = [project EXCEPT !.runs = IF busy.by \in Run THEN @ + 1 ELSE @,
                                       !.bibles = IF busy.by \in BibleRun THEN @ + 1 ELSE @]
        BY <1>14 DEF UpdateProject, ProjectAfter, ProjectNow
      <3>2. /\ (IF busy.by \in Run THEN project.runs + 1 ELSE project.runs) \in Nat
            /\ (IF busy.by \in BibleRun THEN project.bibles + 1 ELSE project.bibles) \in Nat
        OBVIOUS
      <3> QED BY <3>1, <3>2
    <2>2. Files'
      BY <1>14, <2>1 DEF UpdateProject, Idle
    <2>3. Written' /\ Rest'
      BY <1>14, BiblesSame DEF UpdateProject, past
    <2>4. Runs'
      <3>1. CASE busy.by \in Run
        BY <1>14, <1>e, <3>1 DEF UpdateProject, Place
      <3>2. CASE busy.by \notin Run
        BY <1>14, <3>2 DEF UpdateProject
      <3> QED BY <3>1, <3>2
    <2> QED BY <2>2, <2>3, <2>4 DEF StudioTypes
  <1>15. ASSUME NEW r \in Run, KnowledgeQuery(r) PROVE StudioTypes'
    <2>1. Files' /\ Written' /\ Rest'
      BY <1>15, BiblesSame DEF KnowledgeQuery, files, past
    <2>2. PICK assets \in CraftCatalogs :
             IF BibleReady /\ ~Blocked(assets)
             THEN mem' = [mem EXCEPT ![r] = Queried(r, assets)] /\ Goes(r, "trim")
             ELSE Ends(r, Failed(r))
      BY <1>15 DEF KnowledgeQuery
    <2>3. CASE Ends(r, Failed(r))
      BY <1>e, <1>f, <2>1, <2>3 DEF StudioTypes
    <2>4. CASE mem' = [mem EXCEPT ![r] = Queried(r, assets)] /\ Goes(r, "trim")
      <3>1. mem[r] \in Mem /\ current \in BibleType \cup {NoBible} /\ assets \subseteq Craft
        BY DEF Bibles, CraftCatalogs
      <3>2. Queried(r, assets) \in Mem
        BY <3>1 DEF Mem, Queried
      <3>3. Runs'
        BY <2>4, <3>2 DEF Goes, Place
      <3> QED BY <2>1, <3>3 DEF StudioTypes
    <2> QED BY <2>2, <2>3, <2>4
  <1>16. ASSUME NEW r \in Run, TrimContext(r) PROVE StudioTypes'
    <2>1. Files' /\ Rest'
      BY <1>16 DEF TrimContext, past
    <2>2. Written'
      <3>1. jobs' = jobs \/ \E x : jobs' = [jobs EXCEPT ![mem[r].job] = x]
        BY <1>16 DEF TrimContext
      <3>2. jobs' = [j \in Job |-> jobs'[j]]
        BY <3>1
      <3>3. current' = current /\ packaged' = packaged
        BY <1>16 DEF TrimContext, past
      <3> QED BY <3>2, <3>3, BiblesSame
    <2>3. Runs'
      <3>1. Ends(r, Failed(r)) \/ (Goes(r, "package") /\ UNCHANGED mem)
        BY <1>16 DEF TrimContext
      <3>2. CASE Ends(r, Failed(r))
        BY <1>e, <1>f, <3>2
      <3>3. CASE Goes(r, "package") /\ UNCHANGED mem
        BY <3>3 DEF Goes, Place
      <3> QED BY <3>1, <3>2, <3>3
    <2> QED BY <2>1, <2>2, <2>3 DEF StudioTypes
  <1>17. ASSUME NEW r \in Run, RecordContext(r) PROVE StudioTypes'
    <2>1. Files' /\ Written'
      BY <1>17, BiblesSame DEF RecordContext, files, past
    <2>2. Runs'
      BY <1>17, <1>e DEF RecordContext, Place
    <2>3. Rest'
      BY <1>17, FS_AddElement DEF RecordContext, past
    <2> QED BY <2>1, <2>2, <2>3 DEF StudioTypes
  <1>18. ASSUME NEW r \in Run, Raise(r) PROVE StudioTypes'
    <2>1. Files' /\ Written' /\ Rest'
      BY <1>18, BiblesSame DEF Raise, files, past
    <2>2. Runs'
      BY <1>18, <1>e, <1>f DEF Raise
    <2> QED BY <2>1, <2>2 DEF StudioTypes
  <1>19. CASE Crash
    <2>1. HalfWritten \subseteq {"project", "catalog", "seed", "bible"}
      <3>1. ~Quiet => busy.file \in {"catalog", "project"}
        BY DEF Quiet
      <3> QED BY <3>1 DEF HalfWritten
    <2>2. Files'
      BY <1>19, <2>1 DEF Crash, Idle
    <2>3. Written'
      BY <1>19, BiblesSame DEF Crash
    <2>4. Runs'
      BY <1>19, <1>n, <1>f DEF Crash
    <2>5. Rest'
      BY <1>19, StudioAssumption DEF Crash
    <2> QED BY <2>2, <2>3, <2>4, <2>5 DEF StudioTypes
  <1> QED BY <1>1, <1>2, <1>3, <1>4, <1>5, <1>6, <1>7, <1>8, <1>9, <1>10, <1>11, <1>12, <1>13,
             <1>14, <1>15, <1>16, <1>17, <1>18, <1>19
          DEF StudioNext, Owner, Start, Finish, Stage

Stops(q) == stage'[q] \in {"new", "failed", "done"}
\* What a step may do to a run.
Progress(q) ==
    \/ stage'[q] = stage[q] /\ mem'[q] = mem[q]
    \/ Stops(q)
    \/ q \in BootRun /\ stage'[q] = "record"
    \/ /\ q \in BibleRun /\ Sources # {} /\ stage'[q] = "contract"
       /\ mem'[q] = [NoMem EXCEPT !.reviewed = Approved, !.seed = seed, !.sources = Sources]
    \/ NarrativeContract(q) \/ ContinuityBaseline(q) \/ PackageBible(q)
    \/ /\ q \in ContextRun /\ (current # NoBible \/ "bible" \in torn)
       /\ UNCHANGED files /\ stage'[q] = "query"
    \/ /\ stage[q] = "query" /\ stage'[q] = "trim" /\ "bible" \notin torn
       /\ mem'[q].bible = current
    \/ stage[q] = "trim" /\ stage'[q] = "package"

LEMMA Progresses ==
    ASSUME StudioTypes, [StudioNext]_studioVars, NEW q \in Run
    PROVE  Progress(q)
  <1>0. stage \in [Run -> Place] /\ mem \in [Run -> Mem]
    BY DEF StudioTypes
  <1> DEFINE Stays == stage'[q] = stage[q] /\ mem'[q] = mem[q]
  <1>e. \A r \in Run, how \in {"new", "failed", "done"} : Ends(r, how) => Stays \/ Stops(q)
    BY <1>0 DEF Ends, Goes, Stops
  <1>f. \A r \in Run : Failed(r) \in {"new", "failed", "done"}
    BY DEF Failed
  <1>g. \A r \in Run, to \in Place :
           Goes(r, to) => stage'[q] = IF q = r THEN to ELSE stage[q]
    BY <1>0 DEF Goes
  <1>m. \A r \in Run : \A x : mem' = [mem EXCEPT ![r] = x] => mem'[q] = IF q = r THEN x ELSE mem[q]
    BY <1>0
  <1> USE DEF Place
  <1>1. CASE UNCHANGED <<stage, mem>>
    BY <1>1 DEF Progress
  <1>2. CASE UNCHANGED studioVars \/ CreateCatalog \/ Owner
    <2>1. UNCHANGED <<stage, mem>>
      BY <1>2 DEF studioVars, CreateCatalog, Owner, CreateProject, SaveSeed, RegisterMaterial, ReviewMaterial
    <2> QED BY <1>1, <2>1
  <1>3. CASE UpdateProject
    <2>1. CASE busy.by \in Run
      BY <1>3, <1>e, <2>1 DEF UpdateProject, Progress
    <2>2. CASE busy.by \notin Run
      BY <1>1, <1>3, <2>2 DEF UpdateProject
    <2> QED BY <2>1, <2>2
  <1>4. CASE Crash
    BY <1>4, <1>f DEF Crash, Progress, Underway, Stops
  <1>b. ASSUME NEW r \in Run, NEW holds, NEW to \in Place, Begin(r, holds, to)
        PROVE  /\ q # r => Stays
               /\ q = r => stage'[q] = to /\ mem'[q] = holds
               /\ UNCHANGED files
    BY <1>b, <1>g, <1>m DEF Begin
  <1>5. ASSUME NEW r \in Run, BeginBootstrap(r) PROVE Progress(q)
    <2>1. Begin(r, [NoMem EXCEPT !.runs = project.runs], "record") /\ r \in BootRun
      BY <1>5 DEF BeginBootstrap
    <2> QED BY <1>b, <2>1 DEF Progress
  <1>6. ASSUME NEW r \in Run, BeginBible(r) PROVE Progress(q)
    <2> DEFINE holds == [NoMem EXCEPT !.reviewed = Approved, !.seed = seed, !.sources = Sources]
    <2>1. Begin(r, holds, "contract") /\ r \in BibleRun /\ Sources # {}
      BY <1>6 DEF BeginBible
    <2>2. q = r => stage'[q] = "contract" /\ mem'[q] = holds
      <3> HIDE DEF holds
      <3> QED BY <1>b, <2>1
    <2>3. q # r => Stays
      <3> HIDE DEF holds
      <3> QED BY <1>b, <2>1
    <2> QED BY <2>1, <2>2, <2>3 DEF Progress
  <1>7. ASSUME NEW r \in Run, NEW j \in Job, NEW budget \in Budgets, BeginContext(r, j, budget)
        PROVE  Progress(q)
    <2>1. Begin(r, ContextRequest(j, budget), "query") /\ r \in ContextRun
          /\ (current # NoBible \/ "bible" \in torn)
      BY <1>7 DEF BeginContext
    <2> QED BY <1>b, <2>1 DEF Progress
  <1>8. ASSUME NEW r \in Run, NarrativeContract(r) \/ ContinuityBaseline(r) PROVE Progress(q)
    <2>1. CASE q = r
      BY <1>8, <2>1 DEF Progress
    <2>2. CASE q # r
      BY <1>0, <1>8, <2>2 DEF Progress, NarrativeContract, ContinuityBaseline, Goes
    <2> QED BY <2>1, <2>2
  <1>9. ASSUME NEW r \in Run, PackageBible(r) PROVE Progress(q)
    <2>1. CASE q = r
      BY <1>9, <2>1 DEF Progress
    <2>2. CASE q # r
      BY <1>0, <1>9, <2>2 DEF Progress, PackageBible, Goes
    <2> QED BY <2>1, <2>2
  <1>10. ASSUME NEW r \in Run, RecordRun(r) PROVE Progress(q)
    BY <1>1, <1>10 DEF RecordRun
  <1>11. ASSUME NEW r \in Run, KnowledgeQuery(r) PROVE Progress(q)
    <2>1. PICK assets \in CraftCatalogs :
             IF BibleReady /\ ~Blocked(assets)
             THEN mem' = [mem EXCEPT ![r] = Queried(r, assets)] /\ Goes(r, "trim")
             ELSE Ends(r, Failed(r))
      BY <1>11 DEF KnowledgeQuery
    <2>2. CASE Ends(r, Failed(r))
      BY <1>e, <1>f, <2>2 DEF Progress
    <2>3. CASE BibleReady /\ mem' = [mem EXCEPT ![r] = Queried(r, assets)] /\ Goes(r, "trim")
      <3>1. Queried(r, assets).bible = current
        <4>1. mem[r] \in Mem
          BY <1>0
        <4> QED BY <4>1 DEF Queried, Mem
      <3>2. stage[r] = "query" /\ "bible" \notin torn
        BY <1>11, <2>3 DEF KnowledgeQuery, BibleReady, Readable
      <3> QED BY <1>0, <2>3, <1>g, <1>m, <3>1, <3>2 DEF Progress
    <2> QED BY <2>1, <2>2, <2>3
  <1>12. ASSUME NEW r \in Run, TrimContext(r) PROVE Progress(q)
    <2>1. stage[r] = "trim" /\ (Ends(r, Failed(r)) \/ (Goes(r, "package") /\ UNCHANGED mem))
      BY <1>12 DEF TrimContext
    <2>2. CASE Ends(r, Failed(r))
      BY <1>e, <1>f, <2>2 DEF Progress
    <2>3. CASE Goes(r, "package") /\ UNCHANGED mem
      BY <1>g, <2>1, <2>3 DEF Progress
    <2> QED BY <2>1, <2>2, <2>3
  <1>13. ASSUME NEW r \in Run, RecordContext(r) \/ Raise(r) PROVE Progress(q)
    <2>1. Ends(r, "done") \/ Ends(r, Failed(r))
      BY <1>13 DEF RecordContext, Raise
    <2> QED BY <1>e, <1>f, <2>1 DEF Progress
  <1> QED BY <1>2, <1>3, <1>4, <1>5, <1>6, <1>7, <1>8, <1>9, <1>10, <1>11, <1>12, <1>13
          DEF StudioNext, Finish, Start, Stage

LEMMA PlaceInvStep ==
    ASSUME StudioTypes, PlaceInv, [StudioNext]_studioVars
    PROVE  PlaceInv'
  <1> SUFFICES ASSUME NEW q \in Run
               PROVE  /\ stage'[q] \in {"contract", "baseline", "bible"} => q \in BibleRun
                      /\ stage'[q] = "record" => q \notin ContextRun
                      /\ stage'[q] \in {"query", "trim", "package"} => q \in ContextRun
    BY DEF PlaceInv
  <1>1. Progress(q)
    BY Progresses
  <1>2. /\ stage[q] \in {"contract", "baseline", "bible"} => q \in BibleRun
        /\ stage[q] = "record" => q \notin ContextRun
        /\ stage[q] \in {"query", "trim", "package"} => q \in ContextRun
    BY DEF PlaceInv
  <1>3. (q \in BootRun \/ q \in BibleRun) => q \notin ContextRun
    BY StudioAssumption
  <1>4. /\ NarrativeContract(q) => stage[q] = "contract" /\ stage'[q] = "baseline"
        /\ ContinuityBaseline(q) => stage[q] = "baseline" /\ stage'[q] = "bible"
        /\ PackageBible(q) => stage[q] = "bible" /\ stage'[q] = "record"
    BY DEF NarrativeContract, ContinuityBaseline, PackageBible, Goes, StudioTypes
  <1>5. CASE stage'[q] = stage[q]
    BY <1>2, <1>5
  <1>6. CASE NarrativeContract(q) \/ ContinuityBaseline(q) \/ PackageBible(q)
    <2>1. q \in BibleRun
      BY <1>2, <1>4, <1>6
    <2> QED BY <1>3, <1>4, <1>6, <2>1
  <1>7. CASE /\ stage[q] \in {"query", "trim"} /\ stage'[q] \in {"trim", "package"}
    BY <1>2, <1>7
  <1>8. CASE \/ q \in BootRun /\ stage'[q] = "record"
             \/ q \in BibleRun /\ stage'[q] = "contract"
             \/ q \in ContextRun /\ stage'[q] = "query"
             \/ Stops(q)
    BY <1>3, <1>8 DEF Stops
  <1> QED BY <1>1, <1>5, <1>6, <1>7, <1>8 DEF Progress

LEMMA PartsInvStep ==
    ASSUME StudioTypes, PartsInv, [StudioNext]_studioVars
    PROVE  PartsInv'
  <1> SUFFICES ASSUME NEW q \in Run PROVE PartsSound(mem'[q], stage'[q])
    BY DEF PartsInv
  <1>1. Progress(q)
    BY Progresses
  <1>2. PartsSound(mem[q], stage[q]) /\ stage \in [Run -> Place] /\ mem \in [Run -> Mem]
        /\ mem[q] \in Mem
    BY DEF PartsInv, StudioTypes
  <1>3. CASE /\ Sources # {} /\ stage'[q] = "contract"
             /\ mem'[q] = [NoMem EXCEPT !.reviewed = Approved, !.seed = seed, !.sources = Sources]
    BY <1>3 DEF PartsSound, NoMem, Sources
  <1>4. CASE NarrativeContract(q)
    <2>1. stage[q] = "contract" /\ stage'[q] = "baseline"
          /\ mem'[q] = [mem[q] EXCEPT !.contract = [seed |-> mem[q].seed, evidence |-> mem[q].sources]]
      BY <1>2, <1>4 DEF NarrativeContract, Goes, Evidence
    <2>2. /\ mem'[q].contract = [seed |-> mem[q].seed, evidence |-> mem[q].sources]
          /\ mem'[q].seed = mem[q].seed /\ mem'[q].sources = mem[q].sources
          /\ mem'[q].reviewed = mem[q].reviewed
      BY <1>2, <2>1 DEF Mem
    <2> QED BY <1>2, <2>1, <2>2 DEF PartsSound
  <1>5. CASE ContinuityBaseline(q)
    <2>1. stage[q] = "baseline" /\ stage'[q] = "bible"
          /\ mem'[q] = [mem[q] EXCEPT !.baseline = mem[q].seed]
      BY <1>2, <1>5 DEF ContinuityBaseline, Goes, Inputs
    <2>2. /\ mem'[q].baseline = mem[q].seed /\ mem'[q].contract = mem[q].contract
          /\ mem'[q].seed = mem[q].seed /\ mem'[q].sources = mem[q].sources
          /\ mem'[q].reviewed = mem[q].reviewed
      BY <1>2, <2>1 DEF Mem
    <2> QED BY <1>2, <2>1, <2>2 DEF PartsSound
  <1>6. CASE PackageBible(q)
    <2>1. stage'[q] = "record"
      BY <1>2, <1>6 DEF PackageBible, Goes
    <2> QED BY <2>1 DEF PartsSound
  <1>7. CASE stage'[q] \in {"new", "failed", "done", "record", "query", "trim", "package"}
    BY <1>7 DEF PartsSound
  <1>8. CASE stage'[q] = stage[q] /\ mem'[q] = mem[q]
    BY <1>2, <1>8
  <1> QED BY <1>1, <1>3, <1>4, <1>5, <1>6, <1>7, <1>8 DEF Progress, Stops

\* Only PackageBible adds a bible.
LEMMA Packages ==
    ASSUME [StudioNext]_studioVars
    PROVE  packaged' = packaged \/ \E r \in Run : PackageBible(r)
  BY DEF StudioNext, studioVars, past, files, Owner, Start, Finish, Stage, CreateProject, CreateCatalog,
         SaveSeed, RegisterMaterial, ReviewMaterial, Begin, BeginBootstrap, BeginBible, BeginContext,
         NarrativeContract, ContinuityBaseline, RecordRun, UpdateProject, KnowledgeQuery,
         TrimContext, RecordContext, Raise, Crash

LEMMA BibleSoundStep ==
    ASSUME StudioTypes, PartsInv, BibleIsSound, [StudioNext]_studioVars
    PROVE  BibleIsSound'
  <1> DEFINE Sound(p) == /\ p.bible.sources # {} /\ p.bible.sources \subseteq p.reviewed
                         /\ p.bible.contract = [seed |-> p.bible.baseline, evidence |-> p.bible.sources]
  <1>1. \A p \in packaged : Sound(p)
    BY DEF BibleIsSound, BibleIsApproved, BibleIsWhole, Bibles
  <1>2. ASSUME NEW p \in packaged', p \notin packaged PROVE Sound(p)
    <2>1. PICK r \in Run : PackageBible(r)
      BY <1>2, Packages
    <2>2. p = [bible |-> Bible(r), reviewed |-> mem[r].reviewed] /\ stage[r] = "bible"
      BY <1>2, <2>1 DEF PackageBible
    <2>3. PartsSound(mem[r], "bible")
      BY <2>2 DEF PartsInv
    <2> QED BY <2>2, <2>3 DEF PartsSound, Bible
  <1>3. \A p \in packaged' : Sound(p)
    BY <1>1, <1>2
  <1> QED BY <1>3 DEF BibleIsSound, BibleIsApproved, BibleIsWhole, Bibles

\* project.json and the runs that it counts, one of which it may not know of yet.
Ending(R) == IF busy.by \in R THEN 1 ELSE 0
Counts(count, S) ==
    count <= Cardinality(S) /\ Cardinality(S) <= count + deaths
Closed(q) == stage[q] \in {"done", "failed"}
CountInv ==
    /\ \A q \in recorded \ ContextRun : Closed(q) \/ (busy.by = q /\ stage[q] = "record")
    /\ busy.by \in Run => /\ busy.file = "project" /\ stage[busy.by] = "record"
                          /\ busy.by \in recorded \ ContextRun
    /\ ~project.exists => /\ recorded = {} /\ project.runs = 0 /\ project.bibles = 0
                          /\ \A q \in Run : stage[q] = "new"
    /\ Counts(project.runs + Ending(Run), recorded \ ContextRun)
    /\ Counts(project.bibles + Ending(BibleRun), recorded \cap BibleRun)

LEMMA IdleBy == Quiet => busy.by \notin Run
  BY StudioAssumption DEF Quiet, Idle

LEMMA ClosedStays ==
    ASSUME StudioTypes, CountInv, [StudioNext]_studioVars, NEW q \in Run, Closed(q)
    PROVE  stage'[q] = stage[q]
  <1>0. stage \in [Run -> Place] /\ stage[q] \notin {"new", "contract", "baseline", "bible", "record",
                                                     "query", "trim", "package"}
    BY DEF StudioTypes, Closed
  <1>g. \A r \in Run, to \in {"new", "contract", "baseline", "bible", "query", "trim", "package",
                              "record", "done", "failed"} :
           q # r /\ Goes(r, to) => stage'[q] = stage[q]
    BY <1>0 DEF Goes
  <1>f. \A r \in Run : Failed(r) \in {"new", "failed"}
    BY DEF Failed
  <1>1. CASE UNCHANGED studioVars \/ CreateCatalog \/ Owner
    BY <1>1 DEF studioVars, CreateCatalog, Owner, CreateProject, SaveSeed, RegisterMaterial, ReviewMaterial
  <1>2. CASE UpdateProject
    <2>1. CASE busy.by \in Run
      <3>1. q # busy.by
        BY <1>0, <2>1 DEF CountInv
      <3> QED BY <1>2, <1>g, <2>1, <3>1 DEF UpdateProject, Ends
    <2>2. CASE busy.by \notin Run
      BY <1>2, <2>2 DEF UpdateProject
    <2> QED BY <2>1, <2>2
  <1>3. CASE Crash
    BY <1>0, <1>3 DEF Crash, Underway, Closed
  <1>4. ASSUME NEW r \in Run, Start(r) PROVE stage'[q] = stage[q]
    BY <1>0, <1>4, <1>g DEF Start, BeginBootstrap, BeginBible, BeginContext, Begin
  <1>5. ASSUME NEW r \in Run, NarrativeContract(r) \/ ContinuityBaseline(r) \/ PackageBible(r) \/ RecordRun(r)
        PROVE  stage'[q] = stage[q]
    BY <1>0, <1>5, <1>g DEF NarrativeContract, ContinuityBaseline, PackageBible, RecordRun
  <1>6. ASSUME NEW r \in Run, KnowledgeQuery(r) PROVE stage'[q] = stage[q]
    <2>1. q # r /\ (Goes(r, "trim") \/ Goes(r, Failed(r)))
      BY <1>0, <1>6 DEF KnowledgeQuery, Ends
    <2> QED BY <2>1, <1>f, <1>g
  <1>7. ASSUME NEW r \in Run, TrimContext(r) PROVE stage'[q] = stage[q]
    <2>1. q # r /\ (Goes(r, "package") \/ Goes(r, Failed(r)))
      BY <1>0, <1>7 DEF TrimContext, Ends
    <2> QED BY <2>1, <1>f, <1>g
  <1>8. ASSUME NEW r \in Run, RecordContext(r) \/ Raise(r) PROVE stage'[q] = stage[q]
    <2>1. q # r /\ (Goes(r, "done") \/ Goes(r, Failed(r)))
      <3>1. CASE RecordContext(r)
        BY <1>0, <3>1 DEF RecordContext, Ends
      <3>2. CASE Raise(r)
        BY <3>2 DEF Raise, Underway, Ends, Closed
      <3> QED BY <1>8, <3>1, <3>2
    <2> QED BY <2>1, <1>f, <1>g
  <1> QED BY <1>1, <1>2, <1>3, <1>4, <1>5, <1>6, <1>7, <1>8 DEF StudioNext, Finish, Stage

\* Nothing begins before there is a project.
LEMMA NoneBegins ==
    ASSUME StudioTypes, CountInv, [StudioNext]_studioVars, ~project.exists
    PROVE  /\ \A q \in Run : stage'[q] = "new"
           /\ recorded' = {} /\ busy'.by \notin Run
           /\ project'.runs = 0 /\ project'.bibles = 0
  <1>0. recorded = {} /\ project.runs = 0 /\ project.bibles = 0 /\ \A q \in Run : stage[q] = "new"
    BY DEF CountInv
  <1>1. busy.by \notin Run
    BY <1>0 DEF CountInv
  <1>2. {"create", "request"} \cap Run = {} /\ Idle.by \notin Run
    BY StudioAssumption DEF Idle
  <1>3. \A r \in Run : ~Start(r) /\ ~Stage(r) /\ ~Raise(r)
    BY <1>0 DEF Start, BeginBootstrap, BeginBible, BeginContext, Begin, HasProject, Stage,
               NarrativeContract, ContinuityBaseline, PackageBible, RecordRun, KnowledgeQuery,
               TrimContext, RecordContext, Raise, Underway
  <1>4. CASE UNCHANGED studioVars
    BY <1>0, <1>1, <1>4 DEF studioVars, files, past
  <1>5. CASE Owner
    BY <1>0, <1>2, <1>5 DEF Owner, CreateProject, SaveSeed, RegisterMaterial, ReviewMaterial,
               HasProject, NoProject, Writes
  <1>6. CASE CreateCatalog
    BY <1>0, <1>2, <1>6 DEF CreateCatalog, files
  <1>7. CASE UpdateProject
    <2>1. busy.by \notin BibleRun
      BY <1>1 DEF Run
    <2>2. project' = [project EXCEPT !.runs = project.runs, !.bibles = project.bibles]
      BY <1>1, <1>7, <2>1 DEF UpdateProject, ProjectAfter, ProjectNow
    <2>3. project'.runs = 0 /\ project'.bibles = 0
      BY <1>0, <2>2 DEF StudioTypes
    <2> QED BY <1>0, <1>1, <1>2, <1>7, <2>3 DEF UpdateProject
  <1>8. CASE Crash
    BY <1>0, <1>2, <1>8 DEF Crash, Underway
  <1> QED BY <1>3, <1>4, <1>5, <1>6, <1>7, <1>8 DEF StudioNext, Finish

LEMMA CardinalitiesNat ==
    ASSUME StudioTypes
    PROVE  /\ IsFiniteSet(recorded \ ContextRun) /\ IsFiniteSet(recorded \cap BibleRun)
           /\ Cardinality(recorded \ ContextRun) \in Nat
           /\ Cardinality(recorded \cap BibleRun) \in Nat
           /\ project.runs \in Nat /\ project.bibles \in Nat /\ deaths \in Nat
           /\ Ending(Run) \in {0, 1} /\ Ending(BibleRun) \in {0, 1}
  <1>1. IsFiniteSet(recorded \ ContextRun) /\ IsFiniteSet(recorded \cap BibleRun)
    BY FS_Subset DEF StudioTypes
  <1>2. deaths \in Nat
    BY StudioAssumption DEF StudioTypes
  <1> QED BY <1>1, <1>2, FS_CardinalityType DEF StudioTypes, Ending

\* What a step leaves alone that records no run.
Uncounted ==
    /\ recorded' \ ContextRun = recorded \ ContextRun
    /\ recorded' \cap BibleRun = recorded \cap BibleRun
    /\ project'.runs = project.runs /\ project'.bibles = project.bibles
    /\ deaths' = deaths
    /\ busy'.by \notin Run

LEMMA RunsOnly ==
    ASSUME StudioTypes, PlaceInv, [StudioNext]_studioVars, project.exists, Quiet
    PROVE  UNCHANGED studioVars \/ Uncounted \/ Crash \/ \E r \in Run : RecordRun(r)
  <1>1. busy.by \notin Run /\ {"create", "request"} \cap Run = {}
    BY IdleBy, StudioAssumption
  <1>2. CASE Owner
    BY <1>1, <1>2 DEF Owner, CreateProject, SaveSeed, RegisterMaterial, ReviewMaterial, Writes,
               past, Uncounted
  <1>3. CASE Finish
    <2>1. busy.file = "none"
      BY DEF Quiet, Idle
    <2> QED BY <1>3, <2>1 DEF Finish, CreateCatalog, UpdateProject
  <1>4. ASSUME NEW r \in Run, Start(r) \/ NarrativeContract(r) \/ ContinuityBaseline(r) \/ PackageBible(r)
                               \/ KnowledgeQuery(r) \/ TrimContext(r) \/ Raise(r)
        PROVE  Uncounted
    <2>1. UNCHANGED <<project, busy, recorded, deaths>>
      BY <1>4 DEF Start, BeginBootstrap, BeginBible, BeginContext, Begin, NarrativeContract,
               ContinuityBaseline, PackageBible, KnowledgeQuery, TrimContext, Raise, files, past
    <2> QED BY <1>1, <2>1 DEF Uncounted
  <1>5. ASSUME NEW r \in Run, RecordContext(r) PROVE Uncounted
    <2>1. recorded' = recorded \cup {r} /\ UNCHANGED <<project, busy, deaths>> /\ stage[r] = "package"
      BY <1>5 DEF RecordContext, files, past
    <2>2. r \in ContextRun /\ r \notin BibleRun
      BY <2>1, StudioAssumption DEF PlaceInv
    <2> QED BY <1>1, <2>1, <2>2 DEF Uncounted
  <1> QED BY <1>2, <1>3, <1>4, <1>5 DEF StudioNext, Stage

LEMMA CountInvStep ==
    ASSUME StudioTypes, PlaceInv, CountInv, [StudioNext]_studioVars
    PROVE  CountInv'
  <1> DEFINE R == recorded \ ContextRun
             B == recorded \cap BibleRun
             ByRun == busy.by \in Run => /\ busy.file = "project" /\ stage[busy.by] = "record"
                                         /\ busy.by \in recorded \ ContextRun
             Places == \A q \in recorded \ ContextRun :
                          Closed(q) \/ (busy.by = q /\ stage[q] = "record")
             Tallies == /\ Counts(project.runs + Ending(Run), recorded \ ContextRun)
                        /\ Counts(project.bibles + Ending(BibleRun), recorded \cap BibleRun)
  <1>0. Places /\ ByRun /\ Tallies
    BY DEF CountInv
  <1>t. StudioTypes'
    BY StudioTypesStep
  <1>n. /\ IsFiniteSet(R) /\ IsFiniteSet(B) /\ Cardinality(R) \in Nat /\ Cardinality(B) \in Nat
        /\ project.runs \in Nat /\ project.bibles \in Nat /\ deaths \in Nat
        /\ Ending(Run) \in {0, 1} /\ Ending(BibleRun) \in {0, 1}
    BY CardinalitiesNat
  <1>c. R \subseteq Run /\ BibleRun \subseteq Run
    BY DEF StudioTypes, Run
  <1>s. \A q \in Run : Closed(q) => Closed(q)'
    BY ClosedStays DEF Closed
  <1>b. busy.by \in BibleRun => busy.by \in Run
    BY <1>c
  <1>1. CASE ~project.exists
    <2>1. recorded' = {} /\ busy'.by \notin Run /\ project'.runs = 0 /\ project'.bibles = 0
          /\ \A q \in Run : stage'[q] = "new"
      BY <1>1, NoneBegins
    <2>2. Ending(Run)' = 0 /\ Ending(BibleRun)' = 0
      BY <1>c, <2>1 DEF Ending
    <2>3. recorded' \ ContextRun = {} /\ recorded' \cap BibleRun = {} /\ deaths' \in Nat
      BY <1>t, <2>1, StudioAssumption DEF StudioTypes
    <2>4. Tallies'
      BY <2>1, <2>2, <2>3, FS_EmptySet DEF Counts
    <2> QED BY <2>1, <2>4 DEF CountInv
  <1>2. CASE project.exists
    <2>0. project'.exists \/ UNCHANGED studioVars
      <3>1. CASE UpdateProject
        BY <1>2, <3>1 DEF UpdateProject, ProjectAfter, ProjectNow, StudioTypes
      <3>2. CASE ~UpdateProject /\ StudioNext
        <4>1. project' = project \/ CreateProject
          BY <3>2 DEF StudioNext, Owner, Finish, Start, Stage, CreateCatalog, SaveSeed,
                 RegisterMaterial, ReviewMaterial, BeginBootstrap, BeginBible, BeginContext, Begin,
                 NarrativeContract, ContinuityBaseline, PackageBible, RecordRun, KnowledgeQuery,
                 TrimContext, RecordContext, Raise, Crash, files
        <4>2. CASE CreateProject
          BY <1>2, <4>2 DEF CreateProject
        <4> QED BY <1>2, <4>1, <4>2
      <3> QED BY <3>1, <3>2
    <2>1. CASE UNCHANGED studioVars
      <3>1. UNCHANGED <<project, recorded, busy, stage, deaths>>
        BY <2>1 DEF studioVars, files, past
      <3> QED BY <3>1 DEF CountInv, Counts, Ending, Closed
    <2>2. CASE Uncounted /\ busy.by \notin Run /\ project'.exists
      <3>1. recorded' \ ContextRun = R /\ recorded' \cap BibleRun = B /\ deaths' = deaths
            /\ project'.runs = project.runs /\ project'.bibles = project.bibles
            /\ busy'.by \notin Run
        BY <2>2 DEF Uncounted
      <3>2. \A q \in R : Closed(q)'
        BY <1>0, <1>c, <1>s, <2>2
      <3>3. Places'
        BY <3>1, <3>2
      <3>4. Ending(Run) = 0 /\ Ending(BibleRun) = 0 /\ Ending(Run)' = 0 /\ Ending(BibleRun)' = 0
        BY <1>c, <2>2, <3>1 DEF Ending
      <3>5. Tallies'
        BY <1>0, <3>1, <3>4 DEF Counts
      <3> QED BY <2>2, <3>1, <3>3, <3>5 DEF CountInv
    <2>3. CASE Crash
      <3>1. UNCHANGED <<project, recorded>> /\ busy'.by \notin Run /\ deaths' = deaths + 1
            /\ \A q \in Run : stage'[q] = IF Underway(q) THEN Failed(q) ELSE stage[q]
        BY <2>3, StudioAssumption DEF Crash, Idle
      <3>2. \A q \in R : Closed(q)'
        BY <1>0, <1>c, <1>s, <3>1 DEF Underway, Failed, Closed
      <3>3. Ending(Run)' = 0 /\ Ending(BibleRun)' = 0
        BY <1>c, <3>1 DEF Ending
      <3>4. Tallies'
        <4>1. recorded' \ ContextRun = R /\ recorded' \cap BibleRun = B
          BY <3>1
        <4>2. /\ project.runs + Ending(Run) <= Cardinality(R)
              /\ Cardinality(R) <= project.runs + Ending(Run) + deaths
              /\ project.bibles + Ending(BibleRun) <= Cardinality(B)
              /\ Cardinality(B) <= project.bibles + Ending(BibleRun) + deaths
          BY <1>0 DEF Counts
        <4>3. /\ project.runs <= Cardinality(R) /\ Cardinality(R) <= project.runs + (deaths + 1)
              /\ project.bibles <= Cardinality(B) /\ Cardinality(B) <= project.bibles + (deaths + 1)
          BY <1>n, <4>2
        <4> QED BY <1>n, <3>1, <3>3, <4>1, <4>3 DEF Counts
      <3>5. project'.exists
        BY <1>2, <3>1
      <3> QED BY <3>1, <3>2, <3>4, <3>5 DEF CountInv
    <2>4. ASSUME NEW r \in Run, RecordRun(r) PROVE CountInv'
      <3>1. /\ recorded' = recorded \cup {r} /\ r \notin ContextRun /\ stage[r] = "record"
            /\ UNCHANGED <<project, deaths, stage>> /\ Quiet
            /\ busy' = [file |-> "project", by |-> r]
        BY <2>4 DEF RecordRun, files, past, Writes
      <3>2. busy.by \notin Run
        BY <3>1, IdleBy
      <3>3. r \notin recorded
        BY <1>0, <3>1, <3>2 DEF Closed
      <3>4. ByRun' /\ Places'
        <4>1. \A q \in R : Closed(q)'
          BY <1>0, <1>c, <1>s, <3>2
        <4> QED BY <3>1, <4>1
      <3>5. Ending(Run) = 0 /\ Ending(BibleRun) = 0 /\ Ending(Run)' = 1
            /\ Ending(BibleRun)' = IF r \in BibleRun THEN 1 ELSE 0
        BY <1>c, <3>1, <3>2 DEF Ending
      <3>6. recorded' \ ContextRun = R \cup {r}
            /\ recorded' \cap BibleRun = IF r \in BibleRun THEN B \cup {r} ELSE B
        BY <3>1
      <3>7. /\ Cardinality(R \cup {r}) = Cardinality(R) + 1
            /\ Cardinality(B \cup {r}) = Cardinality(B) + 1
        BY <1>n, <3>3, FS_AddElement
      <3>8. Counts(project.runs + 1, R \cup {r})
        BY <1>0, <1>n, <3>5, <3>7 DEF Counts
      <3>9. Counts(project.bibles + Ending(BibleRun)', recorded' \cap BibleRun)
        <4>1. CASE r \in BibleRun
          <5>1. Counts(project.bibles + 1, B \cup {r})
            BY <1>0, <1>n, <3>5, <3>7 DEF Counts
          <5> QED BY <3>5, <3>6, <4>1, <5>1
        <4>2. CASE r \notin BibleRun
          BY <1>0, <1>n, <3>5, <3>6, <4>2 DEF Counts
        <4> QED BY <4>1, <4>2
      <3>10. Tallies'
        BY <3>1, <3>5, <3>6, <3>8, <3>9 DEF Counts
      <3>11. project'.exists
        BY <1>2, <3>1
      <3> QED BY <3>4, <3>10, <3>11 DEF CountInv
    <2>5. CASE CreateCatalog
      <3>1. busy.by \notin Run
        BY <1>0, <2>5 DEF CreateCatalog
      <3>2. Uncounted /\ project'.exists
        BY <1>2, <2>5, StudioAssumption DEF CreateCatalog, files, past, Uncounted, Idle
      <3> QED BY <2>2, <3>1, <3>2
    <2>6. CASE UpdateProject
      <3>1. project' = [project EXCEPT !.runs = IF busy.by \in Run THEN @ + 1 ELSE @,
                                       !.bibles = IF busy.by \in BibleRun THEN @ + 1 ELSE @]
            /\ busy' = Idle /\ recorded' = recorded /\ deaths' = deaths
        BY <2>6 DEF UpdateProject, ProjectAfter, ProjectNow, past
      <3>2. busy'.by \notin Run
        BY <3>1, StudioAssumption DEF Idle
      <3>3. project'.runs + Ending(Run)' = project.runs + Ending(Run)
            /\ project'.bibles + Ending(BibleRun)' = project.bibles + Ending(BibleRun)
        <4>1. project'.runs = (IF busy.by \in Run THEN project.runs + 1 ELSE project.runs)
              /\ project'.bibles = (IF busy.by \in BibleRun THEN project.bibles + 1 ELSE project.bibles)
          BY <3>1 DEF StudioTypes
        <4>2. Ending(Run)' = 0 /\ Ending(BibleRun)' = 0
          BY <1>c, <3>2 DEF Ending
        <4> QED BY <1>n, <4>1, <4>2 DEF Ending
      <3>4. Tallies'
        BY <1>0, <3>1, <3>3 DEF Counts
      <3>5. \A q \in R : Closed(q)'
        <4>1. busy.by \in Run => stage'[busy.by] = "done"
          BY <2>6 DEF UpdateProject, Ends, Goes, StudioTypes
        <4> QED BY <1>0, <1>c, <1>s, <4>1 DEF Closed
      <3>6. project'.exists
        BY <1>2, <3>1 DEF StudioTypes
      <3> QED BY <3>1, <3>2, <3>4, <3>5, <3>6 DEF CountInv
    <2>7. CASE Quiet
      BY <1>2, <2>0, <2>1, <2>2, <2>3, <2>4, <2>7, IdleBy, RunsOnly
    <2>8. CASE ~Quiet
      <3>1. UNCHANGED studioVars \/ CreateCatalog \/ UpdateProject \/ Crash
        BY <2>8 DEF StudioNext, Owner, Finish, Start, Stage, CreateProject, SaveSeed,
                 RegisterMaterial, ReviewMaterial, BeginBootstrap, BeginBible, BeginContext, Begin,
                 NarrativeContract, ContinuityBaseline, PackageBible, RecordRun, KnowledgeQuery,
                 TrimContext, RecordContext, Raise
      <3> QED BY <2>1, <2>3, <2>5, <2>6, <3>1
    <2> QED BY <2>7, <2>8
  <1> QED BY <1>1, <1>2

\* The bible that a run of the third workflow is to find, and that it has found.
QueryInv ==
    \A r \in Run :
        /\ stage[r] = "query" => current \in Bibles \/ "bible" \in torn
        /\ stage[r] = "trim" => mem[r].bible \in Bibles

\* What becomes of the current bible.
LEMMA BibleFile ==
    ASSUME StudioTypes, [StudioNext]_studioVars
    PROVE  /\ Bibles \subseteq Bibles'
           /\ \/ current' = current /\ ("bible" \in torn => "bible" \in torn')
              \/ current' \in Bibles'
  <1>1. packaged \subseteq packaged'
    <2>1. \A r \in Run : PackageBible(r) => packaged \subseteq packaged'
      BY DEF PackageBible
    <2> QED BY <2>1, Packages
  <1>2. Bibles \subseteq Bibles'
    BY <1>1 DEF Bibles
  <1>3. CASE \E r \in Run : PackageBible(r)
    <2>1. PICK r \in Run : PackageBible(r)
      BY <1>3
    <2> DEFINE p == [bible |-> Bible(r), reviewed |-> mem[r].reviewed]
    <2>2. p \in packaged' /\ p.bible = Bible(r) /\ current' = Bible(r)
      BY <2>1 DEF PackageBible
    <2> HIDE DEF p
    <2>3. current' \in Bibles'
      BY <2>2 DEF Bibles
    <2> QED BY <1>2, <2>3
  <1>4. CASE ~\E r \in Run : PackageBible(r)
    <2>1. current' = current
      BY <1>4 DEF StudioNext, studioVars, files, past, Owner, Start, Finish, Stage, CreateProject, CreateCatalog,
         SaveSeed, RegisterMaterial, ReviewMaterial, Begin, BeginBootstrap, BeginBible, BeginContext,
         NarrativeContract, ContinuityBaseline, RecordRun, UpdateProject, KnowledgeQuery,
         TrimContext, RecordContext, Raise, Crash
    <2>2. torn \subseteq torn' \/ torn' = torn \ {"seed"}
      BY <1>4 DEF StudioNext, studioVars, files, past, Owner, Start, Finish, Stage, CreateProject, CreateCatalog,
         SaveSeed, RegisterMaterial, ReviewMaterial, Begin, BeginBootstrap, BeginBible, BeginContext,
         NarrativeContract, ContinuityBaseline, RecordRun, UpdateProject, KnowledgeQuery,
         TrimContext, RecordContext, Raise, Crash
    <2> QED BY <1>2, <2>1, <2>2
  <1> QED BY <1>3, <1>4

LEMMA QueryInvStep ==
    ASSUME StudioTypes, QueryInv, [StudioNext]_studioVars
    PROVE  QueryInv'
  <1> SUFFICES ASSUME NEW q \in Run
               PROVE  /\ stage'[q] = "query" => current' \in Bibles' \/ "bible" \in torn'
                      /\ stage'[q] = "trim" => mem'[q].bible \in Bibles'
    BY DEF QueryInv
  <1>1. Progress(q)
    BY Progresses
  <1>2. Bibles \subseteq Bibles' /\ \/ current' = current /\ ("bible" \in torn => "bible" \in torn')
                                    \/ current' \in Bibles'
    BY BibleFile
  <1>3. /\ stage[q] = "query" => current \in Bibles \/ "bible" \in torn
        /\ stage[q] = "trim" => mem[q].bible \in Bibles
    BY DEF QueryInv
  <1>4. current \in Bibles \cup {NoBible}
    BY DEF StudioTypes
  <1>5. /\ NarrativeContract(q) => stage'[q] = "baseline"
        /\ ContinuityBaseline(q) => stage'[q] = "bible"
        /\ PackageBible(q) => stage'[q] = "record"
    BY DEF NarrativeContract, ContinuityBaseline, PackageBible, Goes, StudioTypes
  <1>6. CASE stage'[q] = stage[q] /\ mem'[q] = mem[q]
    BY <1>2, <1>3, <1>6
  <1>7. CASE /\ current # NoBible \/ "bible" \in torn
             /\ UNCHANGED files /\ stage'[q] = "query"
    BY <1>2, <1>4, <1>7 DEF files
  <1>8. CASE /\ stage[q] = "query" /\ stage'[q] = "trim" /\ "bible" \notin torn
             /\ mem'[q].bible = current
    BY <1>2, <1>3, <1>8
  <1>9. CASE stage'[q] \notin {"query", "trim"}
    BY <1>9
  <1> QED BY <1>1, <1>5, <1>6, <1>7, <1>8, <1>9 DEF Progress, Stops

\* What ContextIsSound asks of one context.
Grounded(c) ==
    /\ c.bible \in Bibles
    /\ \A s \in c.offered :
          s.kind = "story-anchor" => s = Anchor("contract") \/ s.id \in c.bible.sources
JobsInv ==
    \A j \in Job : jobs[j] # NoContext =>
        BestOf(jobs[j].offered, jobs[j].selected, jobs[j].budget) /\ Grounded(jobs[j])

LEMMA CandidatesGrounded ==
    ASSUME NEW r, NEW s \in Candidates(r), s.kind = "story-anchor"
    PROVE  s = Anchor("contract") \/ s.id \in mem[r].bible.sources
  BY DEF Candidates, Anchor, Technique

LEMMA JobsWritten ==
    ASSUME [StudioNext]_studioVars
    PROVE  jobs' = jobs \/ \E r \in Run : TrimContext(r)
  BY DEF StudioNext, studioVars, files, past, Owner, Start, Finish, Stage, CreateProject, CreateCatalog,
         SaveSeed, RegisterMaterial, ReviewMaterial, Begin, BeginBootstrap, BeginBible, BeginContext,
         NarrativeContract, ContinuityBaseline, PackageBible, RecordRun, UpdateProject,
         KnowledgeQuery, RecordContext, Raise, Crash

LEMMA JobsInvStep ==
    ASSUME StudioTypes, QueryInv, JobsInv, [StudioNext]_studioVars
    PROVE  JobsInv'
  <1> SUFFICES ASSUME NEW j \in Job, jobs'[j] # NoContext
               PROVE  BestOf(jobs'[j].offered, jobs'[j].selected, jobs'[j].budget) /\ Grounded(jobs[j])'
    BY DEF JobsInv
  <1>1. Bibles \subseteq Bibles'
    BY BibleFile
  <1>2. CASE jobs'[j] = jobs[j]
    <2>1. BestOf(jobs[j].offered, jobs[j].selected, jobs[j].budget) /\ Grounded(jobs[j])
      BY <1>2 DEF JobsInv
    <2> QED BY <1>1, <1>2, <2>1 DEF Grounded
  <1>3. CASE jobs'[j] # jobs[j]
    <2>1. PICK r \in Run : TrimContext(r)
      BY <1>3, JobsWritten
    <2>2. PICK o \in Selections :
             /\ o.candidates = Candidates(r) /\ o.budget = mem[r].budget
             /\ IF ~o.enough
                THEN Ends(r, Failed(r)) /\ UNCHANGED jobs
                ELSE /\ jobs' = [jobs EXCEPT ![mem[r].job] =
                                     [run |-> r, bible |-> BibleOfMessage(r), budget |-> o.budget,
                                      offered |-> o.offered, selected |-> o.selected]]
                     /\ Goes(r, "package") /\ UNCHANGED mem
      BY <2>1 DEF TrimContext
    <2> DEFINE c == [run |-> r, bible |-> BibleOfMessage(r), budget |-> o.budget,
                     offered |-> o.offered, selected |-> o.selected]
    <2>3. o.enough /\ jobs'[j] = c
      BY <1>3, <2>2 DEF StudioTypes
    <2>4. /\ c.bible = mem[r].bible /\ c.budget = o.budget
          /\ c.offered = o.offered /\ c.selected = o.selected
      BY DEF BibleOfMessage
    <2> HIDE DEF c
    <2>5. mem[r].bible \in Bibles
      BY <2>1 DEF TrimContext, QueryInv
    <2>6. BestOf(o.offered, o.selected, o.budget) /\ o.offered \subseteq Candidates(r)
      BY <2>2, <2>3, SelectionIsBest
    <2>7. \A s \in o.offered :
             s.kind = "story-anchor" => s = Anchor("contract") \/ s.id \in mem[r].bible.sources
      BY <2>6, CandidatesGrounded
    <2> QED BY <1>1, <2>3, <2>4, <2>5, <2>6, <2>7 DEF Grounded
  <1> QED BY <1>2, <1>3

\* The inductive invariant.
StudioInv == StudioTypes /\ PlaceInv /\ PartsInv /\ BibleIsSound /\ CountInv /\ QueryInv /\ JobsInv

LEMMA StudioInitInv == StudioInit => StudioInv
  <1> SUFFICES ASSUME StudioInit PROVE StudioInv
    OBVIOUS
  <1>1. NoMem \in Mem
    BY StudioAssumption DEF NoMem, Mem, Part, NoPart
  <1>2. StudioTypes
    BY <1>1, StudioAssumption, FS_EmptySet
       DEF StudioInit, StudioTypes, NoProject, Status, Bibles, Idle, Place
  <1>3. PlaceInv /\ PartsInv
    BY DEF StudioInit, PlaceInv, PartsInv, PartsSound
  <1>4. BibleIsSound
    BY DEF StudioInit, BibleIsSound, BibleIsApproved, BibleIsWhole, Bibles
  <1>5. CountInv
    <2>1. busy.by \notin Run
      BY StudioAssumption DEF StudioInit, Idle
    <2>2. Ending(Run) = 0 /\ Ending(BibleRun) = 0
      BY <2>1 DEF Ending, Run
    <2>3. recorded \ ContextRun = {} /\ recorded \cap BibleRun = {} /\ deaths = 0
          /\ project.runs = 0 /\ project.bibles = 0
      BY DEF StudioInit, NoProject
    <2> QED BY <2>1, <2>2, <2>3, FS_EmptySet DEF CountInv, Counts, StudioInit
  <1>6. QueryInv /\ JobsInv
    BY DEF StudioInit, QueryInv, JobsInv
  <1> QED BY <1>2, <1>3, <1>4, <1>5, <1>6 DEF StudioInv

LEMMA StudioAlways == StudioSpec => []StudioInv
  <1>1. StudioInv /\ [StudioNext]_studioVars => StudioInv'
    BY StudioTypesStep, PlaceInvStep, PartsInvStep, BibleSoundStep, CountInvStep, QueryInvStep,
       JobsInvStep DEF StudioInv
  <1> QED BY <1>1, StudioInitInv, PTL DEF StudioSpec

\* The files and the runs hold what the code writes there, the current bible is
\* one that was packaged, and only runs of bibles package one.
THEOREM StudioTypesHold == StudioSpec => []StudioTypeOK
  <1>1. StudioInv => StudioTypeOK
    BY DEF StudioInv, StudioTypes, StudioTypeOK, Bibles, Place
  <1> QED BY <1>1, StudioAlways, PTL

\* Every bible that a story-bible run packages rests on approved materials, at
\* least one, and all its parts are of the seed and of the sources that the run
\* began with (run_story_bible), whatever the owner does between its stages.
THEOREM BibleSoundHolds == StudioSpec => []BibleIsSound
  <1>1. StudioInv => BibleIsSound
    BY DEF StudioInv
  <1> QED BY <1>1, StudioAlways, PTL

\* project.json counts the runs with a run.json, one of them perhaps not yet and
\* as many lost as there were crashes (run_bootstrap, run_story_bible).
THEOREM CountsTrueHolds == StudioSpec => []CountsAreTrue
  <1>1. StudioInv => CountsAreTrue
    <2> SUFFICES ASSUME StudioInv PROVE CountsAreTrue
      OBVIOUS
    <2>1. StudioTypes /\ CountInv
      BY DEF StudioInv
    <2>2. /\ project.runs + Ending(Run) <= Cardinality(recorded \ ContextRun)
          /\ Cardinality(recorded \ ContextRun) <= project.runs + Ending(Run) + deaths
          /\ project.bibles + Ending(BibleRun) <= Cardinality(recorded \cap BibleRun)
          /\ Cardinality(recorded \cap BibleRun) <= project.bibles + Ending(BibleRun) + deaths
      BY <2>1 DEF CountInv, Counts
    <2>3. /\ Cardinality(recorded \ ContextRun) \in Nat
          /\ Cardinality(recorded \cap BibleRun) \in Nat
          /\ project.runs \in Nat /\ project.bibles \in Nat /\ deaths \in Nat
          /\ Ending(Run) \in {0, 1} /\ Ending(BibleRun) \in {0, 1}
      BY <2>1, CardinalitiesNat
    <2>4. Pending = Ending(Run) /\ Ending(BibleRun) <= Ending(Run)
      BY <2>1 DEF CountInv, Pending, Ending, Run
    <2> QED BY <2>2, <2>3, <2>4 DEF CountsAreTrue, CountsUp
  <1> QED BY <1>1, StudioAlways, PTL

\* Every chapter context is within its token budget, has a snippet of each kind,
\* leaves none out that fits, and quotes the one bible it cites, which was
\* assembled (build_chapter_context, run_chapter_context): for any catalog,
\* ranking, tokens and budget, and any bible written between its stages.
THEOREM ContextSoundHolds == StudioSpec => []ContextIsSound
  <1>1. StudioInv => ContextIsSound
    BY DEF StudioInv, JobsInv, Grounded, BestOf, ContextIsSound, ContextFits, ContextIsGrounded, Contexts
  <1> QED BY <1>1, StudioAlways, PTL
=============================================================================

--------------------------- MODULE RewardsFunding ---------------------------
(***************************************************************************)
(* On a database that locks rows, every price is paid exactly: what is     *)
(* reserved for a reward never exceeds its price, a request is submitted   *)
(* when the sum is reached, and it is approved only when it has been paid. *)
(* The prices are compared with sums over tables, so the module begins     *)
(* with what a sum over a finite set is.                                   *)
(***************************************************************************)
EXTENDS RewardsProofs, FiniteSetTheorems, WellFoundedInduction

(* Induction over the natural numbers, for a set of numbers. *)
LEMMA NatSetInduction ==
  ASSUME NEW S, 0 \in S, \A n \in S \intersect Nat : n + 1 \in S
  PROVE  Nat \subseteq S
  <1> DEFINE R == {p \in Nat \X Nat : p[1] < p[2]}
             Bad == Nat \ S
  <1>1. IsWellFoundedOn(R, Nat)
    <2>1. R = OpToRel(<, Nat)
      BY DEF OpToRel
    <2> QED
      BY <2>1, NatLessThanWellFounded
  <1>2. SUFFICES ASSUME Bad # {} PROVE FALSE
    OBVIOUS
  <1>3. PICK m \in Bad : \A n \in Bad : ~(<<n, m>> \in R)
    <2> HIDE DEF R
    <2> QED
      BY <1>1, <1>2, WFMin
  <1>4. m \in Nat /\ m # 0
    OBVIOUS
  <1>5. m - 1 \in Nat /\ m - 1 < m
    BY <1>4
  <1>6. m - 1 \notin Bad
    BY <1>3, <1>5
  <1>7. m = (m - 1) + 1
    BY <1>4
  <1> QED
    BY <1>5, <1>6, <1>7

(* A sum takes its summands in the order that Some picks them; Recursive   *)
(* and Iter are the recursion that the folds of the library unfold to.     *)
Some(s) == CHOOSE x \in s : TRUE

LEMMA SomeIsMember == ASSUME NEW s, s # {} PROVE Some(s) \in s
  BY Zenon DEF Some

Recursive(g, f, S) ==
  g = [s \in SUBSET S |-> IF s = {} THEN 0 ELSE f[Some(s)] + g[s \ {Some(s)}]]

Iter(f, S) == CHOOSE g : Recursive(g, f, S)

LEMMA IterExists ==
  ASSUME NEW f, NEW S, IsFiniteSet(S)
  PROVE  \E g : Recursive(g, f, S)
  <1> DEFINE Body(g, s) == IF s = {} THEN 0 ELSE f[Some(s)] + g[s \ {Some(s)}]
             UpTo(n) == {s \in SUBSET S : Cardinality(s) <= n}
             Good == {n \in Nat : \E g : g = [s \in SUBSET S |-> g[s]] /\ \A s \in UpTo(n) : g[s] = Body(g, s)}
  <1>0. \A s \in SUBSET S : IsFiniteSet(s) /\ Cardinality(s) \in Nat
    BY FS_Subset, FS_CardinalityType
  <1>1. 0 \in Good
    <2> DEFINE g == [s \in SUBSET S |-> 0]
    <2>1. \A s \in UpTo(0) : s = {}
      BY <1>0, FS_EmptySet
    <2>2. \A s \in UpTo(0) : g[s] = Body(g, s)
      BY <2>1
    <2>3. g = [s \in SUBSET S |-> g[s]]
      OBVIOUS
    <2> QED
      BY <2>2, <2>3
  <1>2. ASSUME NEW n \in Good \intersect Nat PROVE n + 1 \in Good
    <2>1. PICK g : g = [s \in SUBSET S |-> g[s]] /\ \A s \in UpTo(n) : g[s] = Body(g, s)
      OBVIOUS
    <2> DEFINE h == [s \in SUBSET S |-> Body(g, s)]
    <2>2. ASSUME NEW s \in UpTo(n + 1) PROVE h[s] = Body(h, s)
      <3>1. CASE s = {}
        BY <3>1
      <3>2. CASE s # {}
        <4> DEFINE r == s \ {Some(s)}
        <4>1. r \in UpTo(n)
          <5>1. Cardinality(r) = Cardinality(s) - 1
            BY <3>2, <1>0, SomeIsMember, FS_RemoveElement
          <5> QED
            BY <5>1, <1>0
        <4>2. h[r] = g[r]
          BY <2>1, <4>1
        <4> QED
          BY <3>2, <4>2
      <3> QED
        BY <3>1, <3>2
    <2>3. h = [s \in SUBSET S |-> h[s]]
      OBVIOUS
    <2>4. n + 1 \in Nat
      OBVIOUS
    <2> HIDE DEF h, Body, UpTo
    <2> QED
      BY <2>2, <2>3, <2>4
  <1>3. Cardinality(S) \in Good
    <2> HIDE DEF Good
    <2> QED
      BY <1>1, <1>2, NatSetInduction, FS_CardinalityType
  <1>4. PICK g : g = [s \in SUBSET S |-> g[s]] /\ \A s \in UpTo(Cardinality(S)) : g[s] = Body(g, s)
    BY <1>3
  <1>5. \A s \in SUBSET S : g[s] = Body(g, s)
    BY <1>0, <1>4, FS_Subset
  <1>6. g = [s \in SUBSET S |-> Body(g, s)]
    BY <1>4, <1>5
  <1>7. Recursive(g, f, S)
    BY <1>6 DEF Recursive
  <1> QED
    BY <1>7

LEMMA IterUnfolds ==
  ASSUME NEW f, NEW S, IsFiniteSet(S)
  PROVE  \A s \in SUBSET S :
           Iter(f, S)[s] = IF s = {} THEN 0 ELSE f[Some(s)] + Iter(f, S)[s \ {Some(s)}]
  <1>1. \E g : Recursive(g, f, S)
    BY IterExists
  <1>2. Recursive(Iter(f, S), f, S)
    BY <1>1, Zenon DEF Iter
  <1> QED
    BY <1>2 DEF Recursive

LEMMA IterOfNothing ==
  ASSUME NEW f, NEW S, IsFiniteSet(S)
  PROVE  Iter(f, S)[{}] = 0
  <1>1. \A s \in SUBSET S :
           Iter(f, S)[s] = IF s = {} THEN 0 ELSE f[Some(s)] + Iter(f, S)[s \ {Some(s)}]
    BY IterUnfolds
  <1>2. {} \in SUBSET S
    OBVIOUS
  <1> QED
    BY <1>1, <1>2

LEMMA IterOfSome ==
  ASSUME NEW f, NEW S, IsFiniteSet(S), NEW s \in SUBSET S, s # {}
  PROVE  Iter(f, S)[s] = f[Some(s)] + Iter(f, S)[s \ {Some(s)}]
  <1>1. \A r \in SUBSET S :
           Iter(f, S)[r] = IF r = {} THEN 0 ELSE f[Some(r)] + Iter(f, S)[r \ {Some(r)}]
    BY IterUnfolds
  <1> QED
    BY <1>1

LEMMA SumIsIter ==
  ASSUME NEW f, NEW S
  PROVE  SumFunctionOnSet(f, S) = Iter(f, S)[S]
  BY DEF SumFunctionOnSet, FoldFunctionOnSet, MapThenFoldSet, Iter, Recursive, Some

(* Sums over one set, of functions that agree on it, whatever the larger set. *)
LEMMA IterAgrees ==
  ASSUME NEW f, NEW g, NEW S, IsFiniteSet(S), NEW T, IsFiniteSet(T), NEW U, U \subseteq S, U \subseteq T,
         \A x \in U : f[x] = g[x]
  PROVE  Iter(f, S)[U] = Iter(g, T)[U]
  <1> DEFINE Good == {n \in Nat : \A s \in SUBSET U : Cardinality(s) = n => Iter(f, S)[s] = Iter(g, T)[s]}
  <1>0. \A s \in SUBSET U : IsFiniteSet(s) /\ Cardinality(s) \in Nat
    BY FS_Subset, FS_CardinalityType
  <1>1. 0 \in Good
    <2>1. \A s \in SUBSET U : Cardinality(s) <= 0 => s = {}
      BY <1>0, FS_EmptySet
    <2> QED
      BY <2>1, IterOfNothing, Z3
  <1>2. ASSUME NEW n \in Good \intersect Nat PROVE n + 1 \in Good
    <2>1. ASSUME NEW s \in SUBSET U, Cardinality(s) = n + 1 PROVE Iter(f, S)[s] = Iter(g, T)[s]
      <3>1. s # {} /\ Some(s) \in s
        BY <2>1, FS_EmptySet, SomeIsMember
      <3>2. Cardinality(s \ {Some(s)}) = n
        <4>1. Cardinality(s \ {Some(s)}) = Cardinality(s) - 1
          BY <1>0, <3>1, FS_RemoveElement
        <4> QED
          BY <2>1, <4>1
      <3>3. Iter(f, S)[s \ {Some(s)}] = Iter(g, T)[s \ {Some(s)}]
        BY <3>2
      <3>4. s \in SUBSET S /\ s \in SUBSET T /\ f[Some(s)] = g[Some(s)]
        BY <3>1
      <3>5. Iter(f, S)[s] = f[Some(s)] + Iter(f, S)[s \ {Some(s)}]
        BY <3>1, <3>4, IterOfSome, Z3
      <3>6. Iter(g, T)[s] = g[Some(s)] + Iter(g, T)[s \ {Some(s)}]
        BY <3>1, <3>4, IterOfSome, Z3
      <3> QED
        BY <3>3, <3>4, <3>5, <3>6
    <2> QED
      BY <2>1
  <1>3. Nat \subseteq Good
    <2> HIDE DEF Good
    <2> QED
      BY <1>1, <1>2, NatSetInduction
  <1> QED
    BY <1>0, <1>3

LEMMA SumEmpty == \A f : SumFunctionOnSet(f, {}) = 0
  BY SumIsIter, IterOfNothing, FS_EmptySet

(* The order in which a sum is formed does not matter. *)
LEMMA SumRemoves ==
  ASSUME NEW S, IsFiniteSet(S), NEW f, \A x \in S : f[x] \in Int, NEW x \in S
  PROVE  /\ SumFunctionOnSet(f, S) \in Int
         /\ SumFunctionOnSet(f, S) = f[x] + SumFunctionOnSet(f, S \ {x})
  <1> DEFINE I(s) == Iter(f, S)[s]
             Good == {n \in Nat : \A s \in SUBSET S : Cardinality(s) <= n =>
                        /\ I(s) \in Int
                        /\ \A y \in s : I(s) = f[y] + I(s \ {y})}
  <1>0. \A s \in SUBSET S : IsFiniteSet(s) /\ Cardinality(s) \in Nat
    BY FS_Subset, FS_CardinalityType
  <1>1. 0 \in Good
    <2>1. \A s \in SUBSET S : Cardinality(s) <= 0 => s = {}
      BY <1>0, FS_EmptySet
    <2> QED
      BY <2>1, IterOfNothing, Z3
  <1>2. ASSUME NEW n \in Good \intersect Nat PROVE n + 1 \in Good
    <2> DEFINE G(s) == I(s) \in Int /\ \A y \in s : I(s) = f[y] + I(s \ {y})
    <2>0. \A s \in SUBSET S : Cardinality(s) <= n => G(s)
      OBVIOUS
    <2>1. ASSUME NEW s \in SUBSET S, Cardinality(s) <= n + 1, s # {} PROVE G(s)
      <3> DEFINE c == Some(s)
      <3>1. s # {} /\ c \in s
        BY <2>1, SomeIsMember
      <3>2. I(s) = f[c] + I(s \ {c})
        BY <3>1, IterOfSome, Z3
      <3>3. \A y \in s : s \ {y} \in SUBSET S /\ Cardinality(s \ {y}) <= n
        BY <1>0, <2>1, FS_RemoveElement
      <3>4. \A y \in s : G(s \ {y})
        BY <2>0, <3>3
      <3>5. ASSUME NEW y \in s, y # c PROVE I(s) = f[y] + I(s \ {y})
        <4>1. I(s \ {c}) = f[y] + I((s \ {c}) \ {y})
          BY <3>1, <3>4, <3>5
        <4>2. I(s \ {y}) = f[c] + I((s \ {y}) \ {c})
          BY <3>1, <3>4, <3>5
        <4>3. (s \ {c}) \ {y} = (s \ {y}) \ {c}
          OBVIOUS
        <4>5. f[y] \in Int /\ f[c] \in Int
          BY <3>1
        <4>6. I((s \ {c}) \ {y}) \in Int
          <5> DEFINE r == (s \ {c}) \ {y}
          <5>1. r \in SUBSET S /\ Cardinality(r) <= n
            <6>1. r \subseteq s \ {c} /\ s \ {c} \in SUBSET S /\ IsFiniteSet(s \ {c})
              BY <1>0, <3>1
            <6>2. Cardinality(r) <= Cardinality(s \ {c})
              BY <6>1, FS_Subset
            <6> QED
              BY <1>0, <3>1, <3>3, <6>1, <6>2
          <5> HIDE DEF I
          <5> QED
            BY <2>0, <5>1
        <4> HIDE DEF I
        <4> QED
          BY <3>2, <4>1, <4>2, <4>3, <4>5, <4>6
      <3>6. I(s) \in Int
        <4>1. f[c] \in Int /\ I(s \ {c}) \in Int
          BY <3>1, <3>4
        <4> HIDE DEF I
        <4> QED
          BY <3>2, <4>1
      <3> HIDE DEF I
      <3> QED
        BY <3>2, <3>5, <3>6
    <2>3. G({})
      BY IterOfNothing
    <2> HIDE DEF I
    <2>2. n + 1 \in Nat
      OBVIOUS
    <2> QED
      BY <2>1, <2>2, <2>3
  <1>3. Nat \subseteq Good
    <2> HIDE DEF Good
    <2> QED
      BY <1>1, <1>2, NatSetInduction
  <1>4. I(S) \in Int /\ I(S) = f[x] + I(S \ {x})
    <2> HIDE DEF I
    <2> QED
      BY <1>0, <1>3
  <1>5. I(S \ {x}) = SumFunctionOnSet(f, S \ {x})
    <2>1. IsFiniteSet(S \ {x})
      BY <1>0
    <2> QED
      BY <2>1, SumIsIter, IterAgrees
  <1> QED
    BY <1>4, <1>5, SumIsIter

-----------------------------------------------------------------------------
(* Sums over the points of a contributions table *)

(* The points of the rows S of a contributions table. *)
Total(table, S) == SumFunction([c \in S |-> table[c].points])

LEMMA PointsAreTotal == ASSUME NEW S PROVE PointsIn(S) = Total(contribution, S)
  BY DEF PointsIn, Total

LEMMA TotalAgrees ==
  ASSUME NEW f, NEW g, NEW S, \A c \in S : f[c].points = g[c].points
  PROVE  Total(f, S) = Total(g, S)
  <1>1. [c \in S |-> f[c].points] = [c \in S |-> g[c].points]
    OBVIOUS
  <1> QED
    BY <1>1 DEF Total

LEMMA TotalIsSum ==
  ASSUME NEW f, NEW S PROVE Total(f, S) = SumFunctionOnSet([c \in S |-> f[c].points], S)
  BY DEF Total, SumFunction

LEMMA TotalEmpty == ASSUME NEW f PROVE Total(f, {}) = 0
  BY TotalIsSum, SumEmpty

LEMMA TotalAdds ==
  ASSUME NEW f, NEW S, IsFiniteSet(S), \A x \in S : f[x].points \in Int, NEW c \in S
  PROVE  /\ Total(f, S) \in Int
         /\ Total(f, S) = f[c].points + Total(f, S \ {c})
  <1> DEFINE g == [x \in S |-> f[x].points]
             h == [x \in S \ {c} |-> f[x].points]
  <1>1. SumFunctionOnSet(g, S) \in Int /\ SumFunctionOnSet(g, S) = g[c] + SumFunctionOnSet(g, S \ {c})
    <2>1. \A x \in S : g[x] \in Int
      OBVIOUS
    <2> HIDE DEF g
    <2> QED
      BY <2>1, SumRemoves
  <1>2. SumFunctionOnSet(g, S \ {c}) = SumFunctionOnSet(h, S \ {c})
    <2>1. \A x \in S \ {c} : g[x] = h[x]
      OBVIOUS
    <2>2. IsFiniteSet(S \ {c})
      BY FS_Subset
    <2> HIDE DEF g, h
    <2> QED
      BY <2>1, <2>2, SumIsIter, IterAgrees
  <1> QED
    BY <1>1, <1>2, TotalIsSum

LEMMA TotalType ==
  ASSUME NEW f, NEW S, IsFiniteSet(S), \A x \in S : f[x].points \in Int
  PROVE  Total(f, S) \in Int
  <1>1. CASE S = {}
    BY <1>1, TotalEmpty
  <1>2. ASSUME NEW c \in S PROVE Total(f, S) \in Int
    BY <1>2, TotalAdds
  <1> QED
    BY <1>1, <1>2

(* Every row has points that can be added up, and no table is infinite. *)
LEMMA Summable ==
  ASSUME WellFormed, NEW S, S \subseteq Contributions
  PROVE  /\ IsFiniteSet(S)
         /\ \A c \in S : contribution[c].points \in Int
         /\ PointsIn(S) \in Int
  <1>1. IsFiniteSet(S)
    BY RowsAreFinite, FS_Subset DEF RowsAreFinite
  <1>2. \A c \in S : contribution[c].points \in Int
    BY PointsNat DEF WellFormed, TypeOK, ContributionRow
  <1> QED
    BY <1>1, <1>2, TotalType, PointsAreTotal

LEMMA ActiveRows ==
  /\ \A w : ActiveOf(w) \subseteq Contributions
  /\ \A r : LinkedTo(r) \subseteq Contributions
  BY DEF ActiveOf, LinkedTo

LEMMA PointsNext ==
  ASSUME NEW w
  PROVE  PointsIn(ActiveOf(w))' = Total(contribution', ActiveOf(w)')
  BY DEF PointsIn, Total

-----------------------------------------------------------------------------

LEMMA SolventParts ==
  Solvent => /\ Safe /\ WellFormed /\ TypeOK /\ NeverOverReserved /\ OpenOrSubmitted
             /\ \A t \in Threads : Informed(t)
  BY DEF Solvent, Safe, WellFormed

LEMMA InitSolvent == Init => Solvent
  <1> SUFFICES ASSUME Init PROVE Solvent
    OBVIOUS
  <1>1. \A w : ActiveOf(w) = {}
    BY DEF Init, ActiveOf, NoContribution
  <1>2. NeverOverReserved
    BY <1>1 DEF NeverOverReserved
  <1>3. OpenOrSubmitted
    BY DEF Init, OpenOrSubmitted, NoContribution
  <1>4. \A t \in Threads : Informed(t)
    BY DEF Init, Informed, HoldsReward
  <1> QED
    BY <1>2, <1>3, <1>4, InitSafe DEF Solvent

(* A session stays informed while nobody changes the price and the         *)
(* contributions of the reward it has locked.                              *)
LEMMA OthersInformed ==
  ASSUME NEW s \in Threads, WellFormed, Informed(s),
         pc'[s] = pc[s], request'[s] = request[s], seen'[s] = seen[s],
         \A w \in Rewards : HoldsReward(s) /\ w = request[s].reward =>
           reward'[w].cost = reward[w].cost /\ ActiveOf(w)' = ActiveOf(w),
         \A c \in Contributions : contribution[c].status # "none" =>
           contribution'[c].points = contribution[c].points
  PROVE  Informed(s)'
  <1>1. HoldsReward(s)' = HoldsReward(s) /\ Takes(s)' = Takes(s)
    BY DEF HoldsReward, Takes
  <1>2. \A c \in seen[s].contributions : contribution'[c].points = contribution[c].points
    BY ThreadTypes DEF WellFormed, Local
  <1>3. PointsIn(seen[s].contributions)' = PointsIn(seen[s].contributions)
    <2>1. PointsIn(seen[s].contributions)' = Total(contribution', seen[s].contributions)
      BY DEF PointsIn, Total
    <2> QED
      BY <1>2, <2>1, TotalAgrees, PointsAreTotal
  <1>4. pc[s] \in {"user", "write"} => HoldsReward(s)
    BY DEF HoldsReward
  <1>5. HoldsReward(s) => request[s].reward \in Rewards
    BY Roles
  <1>6. ASSUME HoldsReward(s), NEW w \in Rewards, w = request[s].reward PROVE Informed(s)'
    <2>1. reward'[w].cost = reward[w].cost /\ ActiveOf(w)' = ActiveOf(w)
      BY <1>6
    <2>2. request'[s].reward = w
      BY <1>6
    <2>3. ActiveOf(request[s].reward)' = ActiveOf(w)
      BY <2>1, <2>2 DEF ActiveOf
    <2> QED
      BY <1>1, <1>3, <1>4, <1>6, <2>1, <2>2, <2>3 DEF Informed
  <1> QED
    BY <1>1, <1>4, <1>5, <1>6 DEF Informed

LEMMA EndInformed ==
  ASSUME WellFormed, NEW t \in Threads, End(t)
  PROVE  Informed(t)'
  BY DEF End, WellFormed, TypeOK, Informed, HoldsReward

(* The statements that only read. *)
LEMMA ReadOnlySolvent ==
  ASSUME Solvent, Safe', NEW t \in Threads, UNCHANGED tables, Informed(t)',
         \A s \in Threads \ {t} : pc'[s] = pc[s] /\ request'[s] = request[s] /\ seen'[s] = seen[s]
  PROVE  Solvent'
  <1>1. /\ \A w : ActiveOf(w)' = ActiveOf(w) /\ PointsIn(ActiveOf(w))' = PointsIn(ActiveOf(w))
        /\ \A r : LinkedTo(r)' = LinkedTo(r)
    BY SameTables DEF tables, PointsIn
  <1>2. NeverOverReserved'
    BY <1>1 DEF Solvent, NeverOverReserved, tables
  <1>3. OpenOrSubmitted'
    <2>1. OpenOrSubmitted
      BY DEF Solvent
    <2> QED
      BY <1>1, <2>1 DEF OpenOrSubmitted, tables
  <1>4. \A s \in Threads \ {t} : Informed(s)'
    BY <1>1, OthersInformed, SolventParts DEF tables
  <1> QED
    BY <1>2, <1>3, <1>4 DEF Solvent

LEMMA ArriveSolvent ==
  ASSUME Solvent, NEW t \in Threads, Arrive(t)
  PROVE  Solvent'
  <1>1. Safe /\ WellFormed /\ TypeOK
    BY SolventParts
  <1>2. /\ UNCHANGED tables /\ pc'[t] \in {"redemption", "reward"}
        /\ \A s \in Threads \ {t} : pc'[s] = pc[s] /\ request'[s] = request[s] /\ seen'[s] = seen[s]
    BY <1>1 DEF TypeOK, Arrive, StartContribute, StartRedeem, StartUpdate, StartDelete,
                StartReview, Start
  <1>3. Informed(t)'
    BY <1>2 DEF Informed, HoldsReward
  <1> QED
    BY <1>1, <1>2, <1>3, ArriveSafe, ReadOnlySolvent

LEMMA RollbackSolvent ==
  ASSUME Solvent, NEW t \in Threads, Refuse(t) \/ AbortDeadlocked(t)
  PROVE  Solvent'
  <1>1. Safe /\ WellFormed /\ TypeOK
    BY SolventParts
  <1>2. End(t) /\ UNCHANGED tables
    BY DEF Refuse, AbortDeadlocked
  <1>3. \A s \in Threads \ {t} : pc'[s] = pc[s] /\ request'[s] = request[s] /\ seen'[s] = seen[s]
    BY <1>1, <1>2 DEF End, TypeOK
  <1> QED
    BY <1>1, <1>2, <1>3, RollbackSafe, EndInformed, ReadOnlySolvent

LEMMA SelectSolvent ==
  ASSUME RowLocks, Solvent, NEW t \in Threads,
         \/ SelectRedemption(t) \/ SelectReward(t) \/ SelectPending(t)
         \/ SelectContributions(t) \/ SelectLedger(t) \/ SelectBalance(t)
  PROVE  Solvent'
  <1>1. /\ Safe /\ WellFormed /\ TypeOK /\ Informed(t) /\ Local(t)
        /\ seen[t] \in Seen /\ pc \in [Threads -> PCs] /\ seen \in [Threads -> Seen]
    BY SolventParts DEF WellFormed, TypeOK
  <1>2. /\ UNCHANGED tables /\ UNCHANGED request
        /\ \A s \in Threads \ {t} : pc'[s] = pc[s] /\ request'[s] = request[s] /\ seen'[s] = seen[s]
    BY <1>1 DEF Advance, SelectRedemption, SelectReward, SelectPending,
                SelectContributions, SelectLedger, SelectBalance
  <1>3. Takes(t)' = Takes(t)
    BY <1>2 DEF Takes
  <1>4. Informed(t)'
    <2>1. CASE SelectRedemption(t)
      BY <1>1, <2>1 DEF SelectRedemption, Advance, Informed, HoldsReward
    <2>2. CASE SelectReward(t)
      <3>1. /\ pc'[t] \in {"contributions", "pending"}
            /\ seen'[t].reward = Values(reward[request[t].reward])
        BY <1>1, <2>2 DEF SelectReward, Advance, Seen
      <3> QED
        BY <1>2, <3>1 DEF Informed, Values, tables
    <2>3. CASE SelectPending(t)
      BY <1>1, <1>2, <2>3 DEF SelectPending, Advance, Informed, HoldsReward, tables
    <2>4. CASE SelectContributions(t)
      <3>1. /\ pc[t] = "contributions" /\ ~RefusedContributions(t)
            /\ seen'[t].reward = seen[t].reward
            /\ ~IsReview(t) => seen'[t].contributions = ActiveOf(request[t].reward)
            /\ pc'[t] \in {"ledger", "user", "write"}
        BY <1>1, <2>4 DEF SelectContributions, Advance, Seen
      <3>2. seen[t].reward.cost = reward[request[t].reward].cost
        BY <1>1, <3>1 DEF Informed, HoldsReward
      <3>3. Takes(t) => ~IsReview(t)
        BY <1>1, Roles
      <3>4. request[t].op = "contribute" =>
              request[t].points <= seen[t].reward.cost - PointsIn(ActiveOf(request[t].reward))
        <4>1. PointsIn(ActiveOf(request[t].reward)) \in Int /\ seen[t].reward.cost \in Int
          BY <1>1, Summable, ActiveRows, ThreadTypes DEF RewardValues
        <4>2. request[t].op = "contribute" => request[t].points \in Int
          BY <1>1, <3>1, ThreadTypes, RequestFields, PointsNat
        <4> QED
          BY <3>1, <4>1, <4>2 DEF RefusedContributions
      <3>5. Takes(t) => /\ seen'[t].contributions = ActiveOf(request[t].reward)
                        /\ PointsIn(seen[t].contributions)' = PointsIn(ActiveOf(request[t].reward))
        BY <1>2, <3>1, <3>3 DEF PointsIn, tables
      <3> QED
        <4>1. Takes(t) => (request[t].op = "redeem" => ActiveOf(request[t].reward) = {})
          BY <3>1 DEF RefusedContributions
        <4> QED
          BY <1>2, <1>3, <3>1, <3>2, <3>4, <3>5, <4>1, SameTables DEF Informed, tables
    <2>5. CASE SelectLedger(t)
      <3>1. /\ pc[t] = "ledger" /\ ~Takes(t) /\ seen'[t].reward = seen[t].reward
        BY <1>1, <2>5, Roles DEF SelectLedger, Advance, Seen, Local
      <3> QED
        BY <1>1, <1>2, <1>3, <3>1 DEF Informed, HoldsReward, tables
    <2>6. CASE SelectBalance(t)
      <3>1. pc[t] = "user" /\ seen'[t] = seen[t]
        BY <1>1, <2>6 DEF SelectBalance, Advance
      <3>2. PointsIn(seen[t].contributions)' = PointsIn(seen[t].contributions)
        BY <1>2, <3>1 DEF PointsIn, tables
      <3> QED
        BY <1>1, <1>2, <1>3, <3>1, <3>2, SameTables DEF Informed, HoldsReward, tables
    <2> QED
      BY <2>1, <2>2, <2>3, <2>4, <2>5, <2>6
  <1> QED
    BY <1>1, <1>2, <1>4, SelectSafe, ReadOnlySolvent

-----------------------------------------------------------------------------
(* Commits *)

(* The parts of OpenOrSubmitted, for one contribution and before and after *)
(* a step.                                                                 *)
Submitted(c) ==
  LET row == contribution[c] IN
  /\ row.redemption \in Redemptions
  /\ redemption[row.redemption].status = "pending"
  /\ redemption[row.redemption].reward = row.reward
  /\ LinkedTo(row.redemption) = ActiveOf(row.reward)
  /\ PointsIn(ActiveOf(row.reward)) = reward[row.reward].cost

LEMMA OpenOrSubmittedParts ==
  OpenOrSubmitted <=>
    \A c \in Contributions : /\ contribution[c].status = "reserved" => contribution[c].redemption = None
                             /\ contribution[c].status = "submitted" => Submitted(c)
  BY DEF OpenOrSubmitted, Submitted

LEMMA SubmittedNext ==
  ASSUME NEW c, NEW x, NEW r \in Redemptions,
         contribution'[c].reward = x, contribution'[c].redemption = r,
         redemption'[r].status = "pending", redemption'[r].reward = x,
         LinkedTo(r)' = ActiveOf(x)', PointsIn(ActiveOf(x))' = reward'[x].cost
  PROVE  Submitted(c)'
  <1>1. /\ LinkedTo(contribution[c].redemption)' = LinkedTo(r)'
        /\ ActiveOf(contribution[c].reward)' = ActiveOf(x)'
    BY DEF LinkedTo, ActiveOf
  <1>2. PointsIn(ActiveOf(contribution[c].reward))' = PointsIn(ActiveOf(x))'
    BY <1>1 DEF PointsIn
  <1> QED
    BY <1>1, <1>2 DEF Submitted

(* A commit for the reward w leaves the contributions, the open request    *)
(* and the price of every other reward alone.                              *)
OnlyReward(w) ==
  /\ \A c \in Contributions : contribution[c].status # "none" =>
       /\ contribution'[c].points = contribution[c].points
       /\ contribution'[c].reward = contribution[c].reward
       /\ contribution[c].reward # w => contribution'[c] = contribution[c]
  /\ \A c \in Contributions : contribution[c].status = "none" /\ contribution'[c].status # "none" =>
       contribution'[c].reward = w
  /\ \A r \in Redemptions : redemption[r].status = "pending" /\ redemption[r].reward # w =>
       redemption'[r] = redemption[r] /\ LinkedTo(r)' = LinkedTo(r)
  /\ \A x \in Rewards \ {w} : reward'[x] = reward[x]

LEMMA OthersActive ==
  ASSUME NEW w, OnlyReward(w), NEW x \in Rewards \ {w}
  PROVE  /\ ActiveOf(x)' = ActiveOf(x)
         /\ PointsIn(ActiveOf(x))' = PointsIn(ActiveOf(x))
         /\ reward'[x] = reward[x]
  <1>1. ActiveOf(x)' = ActiveOf(x)
    BY DEF OnlyReward, ActiveOf
  <1>2. \A c \in ActiveOf(x) : contribution'[c].points = contribution[c].points
    BY DEF OnlyReward, ActiveOf
  <1> QED
    BY <1>1, <1>2, PointsNext, TotalAgrees, PointsAreTotal DEF OnlyReward

LEMMA OthersSubmitted ==
  ASSUME Solvent, NEW w, OnlyReward(w), NEW c \in Contributions, contribution'[c].reward # w
  PROVE  /\ contribution'[c].status = "reserved" => contribution'[c].redemption = None
         /\ contribution'[c].status = "submitted" => Submitted(c)'
  <1>1. WellFormed /\ OpenOrSubmitted
    BY SolventParts
  <1>2. CASE contribution'[c].status = "none"
    BY <1>2
  <1>3. CASE contribution'[c].status # "none"
    <2>1. contribution'[c] = contribution[c] /\ contribution[c].status # "none"
      BY <1>3 DEF OnlyReward
    <2>2. contribution[c].status = "reserved" => contribution[c].redemption = None
      BY <1>1, OpenOrSubmittedParts
    <2>3. ASSUME contribution[c].status = "submitted" PROVE Submitted(c)'
      <3>1. Submitted(c)
        BY <1>1, <2>3, OpenOrSubmittedParts
      <3>2. PICK x \in Rewards \ {w}, r \in Redemptions :
               contribution[c].reward = x /\ contribution[c].redemption = r
        BY <1>1, <2>1, <3>1 DEF WellFormed, RowsKnown, Submitted
      <3>3. redemption'[r] = redemption[r] /\ LinkedTo(r)' = LinkedTo(r)
        BY <3>1, <3>2 DEF OnlyReward, Submitted
      <3>4. /\ ActiveOf(x)' = ActiveOf(x)
            /\ PointsIn(ActiveOf(x))' = PointsIn(ActiveOf(x))
            /\ reward'[x] = reward[x]
        BY OthersActive
      <3>5. LinkedTo(r) = ActiveOf(x) /\ PointsIn(ActiveOf(x)) = reward[x].cost
            /\ redemption[r].status = "pending" /\ redemption[r].reward = x
        BY <3>1, <3>2 DEF Submitted
      <3>6. contribution'[c].reward = x /\ contribution'[c].redemption = r
        BY <2>1, <3>2
      <3> QED
        BY <3>3, <3>4, <3>5, <3>6, SubmittedNext
    <2> QED
      BY <2>1, <2>2, <2>3
  <1> QED
    BY <1>2, <1>3

(* A commit keeps every price paid if it does so for its own reward. *)
LEMMA CommitSolvent ==
  ASSUME RowLocks, Solvent, Safe', NEW t \in Threads, Committing(t), HoldsReward(t),
         NEW w \in Rewards, w = request[t].reward, OnlyReward(w),
         ActiveOf(w)' # {} => PointsIn(ActiveOf(w))' <= reward'[w].cost,
         \A c \in ActiveOf(w)' : /\ contribution'[c].status = "reserved" => contribution'[c].redemption = None
                                 /\ contribution'[c].status = "submitted" => Submitted(c)'
  PROVE  Solvent'
  <1>1. Safe /\ WellFormed /\ TypeOK /\ NeverOverReserved /\ \A s \in Threads : Informed(s) /\ Held(s)
    BY SolventParts DEF Safe
  <1>2. NeverOverReserved'
    BY <1>1, OthersActive DEF NeverOverReserved
  <1>3. OpenOrSubmitted'
    <2>1. ASSUME NEW c \in Contributions
          PROVE  /\ contribution'[c].status = "reserved" => contribution'[c].redemption = None
                 /\ contribution'[c].status = "submitted" => Submitted(c)'
      <3>1. CASE contribution'[c].reward # w
        BY <3>1, OthersSubmitted
      <3>2. CASE contribution'[c].reward = w
        BY <3>2 DEF ActiveOf
      <3> QED
        BY <3>1, <3>2
    <2> QED
      BY <2>1 DEF OpenOrSubmitted, Submitted
  <1>4. ASSUME NEW s \in Threads PROVE Informed(s)'
    <2>1. CASE s = t
      BY <1>1, <2>1, EndInformed DEF Committing
    <2>2. CASE s # t
      <3>1. pc'[s] = pc[s] /\ request'[s] = request[s] /\ seen'[s] = seen[s]
        BY <1>1, <2>2 DEF Committing, End, TypeOK
      <3>2. HoldsReward(s) => request[s].reward # w
        BY <1>1, <2>2, Roles DEF Held
      <3>3. ASSUME NEW x \in Rewards, HoldsReward(s), x = request[s].reward
            PROVE  reward'[x].cost = reward[x].cost /\ ActiveOf(x)' = ActiveOf(x)
        BY <3>2, <3>3, OthersActive
      <3>4. \A c \in Contributions : contribution[c].status # "none" =>
              contribution'[c].points = contribution[c].points
        BY DEF OnlyReward
      <3> QED
        BY <1>1, <3>1, <3>3, <3>4, OthersInformed
    <2> QED
      BY <2>1, <2>2
  <1> QED
    BY <1>2, <1>3, <1>4 DEF Solvent

(* What a contribution knows of its reward when it commits. *)
LEMMA AtContribution ==
  ASSUME RowLocks, Solvent, NEW t \in Threads, Writes(t, "contribute")
  PROVE  /\ Committing(t) /\ HoldsReward(t) /\ Safe /\ WellFormed /\ TypeOK
         /\ request[t].reward \in Rewards /\ request[t].points \in Points /\ request[t].points \in Int
         /\ request[t].op = "contribute"
         /\ seen[t].reward.cost = reward[request[t].reward].cost
         /\ reward[request[t].reward].cost \in Int
         /\ PointsIn(seen[t].contributions) = PointsIn(ActiveOf(request[t].reward))
         /\ PointsIn(ActiveOf(request[t].reward)) \in Int
         /\ IsFiniteSet(ActiveOf(request[t].reward))
         /\ request[t].points <= reward[request[t].reward].cost - PointsIn(ActiveOf(request[t].reward))
         /\ PendingOf(request[t].reward) = {}
         /\ \A c \in ActiveOf(request[t].reward) :
              contribution[c].status = "reserved" /\ contribution[c].redemption = None
  <1>1. /\ Safe /\ WellFormed /\ TypeOK /\ Informed(t) /\ OpenOrSubmitted
        /\ request[t].op = "contribute" /\ Takes(t) /\ pc[t] = "write"
    BY SolventParts DEF Writes, Takes
  <1>2. /\ Committing(t) /\ HoldsReward(t) /\ request[t] \in Request
        /\ request[t].reward \in Rewards /\ PendingOf(request[t].reward) = {}
    BY <1>1, AtCommit
  <1>3. request[t].points \in Points /\ request[t].points \in Int
    BY <1>1, <1>2, RequestFields, PointsNat
  <1>4. reward[request[t].reward].cost \in Int
    BY <1>1, <1>2 DEF TypeOK, RewardRow
  <1>5. PointsIn(ActiveOf(request[t].reward)) \in Int /\ IsFiniteSet(ActiveOf(request[t].reward))
    BY <1>1, ActiveRows, Summable
  <1>6. ASSUME NEW c \in ActiveOf(request[t].reward)
        PROVE  contribution[c].status = "reserved" /\ contribution[c].redemption = None
    <2>1. c \in Contributions /\ contribution[c].reward = request[t].reward
          /\ contribution[c].status \in {"reserved", "submitted"}
      BY DEF ActiveOf
    <2>2. contribution[c].status # "submitted"
      BY <1>1, <1>2, <2>1, OpenOrSubmittedParts DEF Submitted, PendingOf
    <2> QED
      BY <1>1, <2>1, <2>2, OpenOrSubmittedParts
  <1> QED
    BY <1>1, <1>2, <1>3, <1>4, <1>5, <1>6 DEF Informed

LEMMA ContributeSolvent ==
  ASSUME RowLocks, Solvent, NEW t \in Threads, Contribute(t)
  PROVE  Solvent'
  <1> DEFINE q == request[t]
  <1>1. Writes(t, "contribute") /\ ~Completes(t)
    BY DEF Contribute
  <1>0. PICK w \in Rewards, n \in Int : w = q.reward /\ n = q.points
    BY <1>1, AtContribution
  <1>2. PICK c \in Contributions :
           /\ contribution[c].status = "none"
           /\ contribution' = [contribution EXCEPT ![c] = NewContribution(t, "reserved", None)]
           /\ UNCHANGED <<reward, redemption>>
    BY DEF Contribute, FreeContributions
  <1>3. TypeOK
    BY SolventParts
  <1>4. /\ contribution'[c] = NewContribution(t, "reserved", None)
        /\ \A x \in Contributions \ {c} : contribution'[x] = contribution[x]
    BY <1>2, <1>3 DEF TypeOK
  <1>5. OnlyReward(w)
    <2>1. \A r \in Redemptions : LinkedTo(r)' = LinkedTo(r)
      BY <1>2, <1>4, Idle DEF LinkedTo, NewContribution
    <2> QED
      BY <1>0, <1>2, <1>4, <2>1 DEF OnlyReward, NewContribution
  <1>6. ActiveOf(w)' = ActiveOf(w) \union {c} /\ c \notin ActiveOf(w)
    BY <1>0, <1>2, <1>4 DEF ActiveOf, NewContribution
  <1>7. PointsIn(ActiveOf(w))' = n + PointsIn(ActiveOf(w))
    <2>1. contribution'[c].points = n
      BY <1>0, <1>4 DEF NewContribution
    <2>2. \A x \in ActiveOf(w)' : contribution'[x].points \in Int
      BY <1>1, <1>4, <1>6, <2>1, ActiveRows, Summable, AtContribution
    <2>3. IsFiniteSet(ActiveOf(w)')
      BY <1>0, <1>1, <1>6, AtContribution, FS_AddElement
    <2>4. Total(contribution', ActiveOf(w)') = n + Total(contribution', ActiveOf(w))
      <3>1. ActiveOf(w)' \ {c} = ActiveOf(w) /\ c \in ActiveOf(w)'
        BY <1>6
      <3> QED
        BY <2>1, <2>2, <2>3, <3>1, TotalAdds
    <2>5. Total(contribution', ActiveOf(w)) = Total(contribution, ActiveOf(w))
      BY <1>4, <1>6, ActiveRows, TotalAgrees
    <2> QED
      BY <2>4, <2>5, PointsNext, PointsAreTotal
  <1>8. PointsIn(ActiveOf(w))' <= reward'[w].cost
    <2>1. reward'[w].cost = reward[w].cost
      BY <1>2
    <2>2. /\ PointsIn(ActiveOf(w)) \in Int /\ reward[w].cost \in Int
          /\ n <= reward[w].cost - PointsIn(ActiveOf(w))
      BY <1>0, <1>1, AtContribution
    <2> QED
      BY <1>7, <2>1, <2>2
  <1>9. ASSUME NEW x \in ActiveOf(w)'
        PROVE  contribution'[x].status = "reserved" /\ contribution'[x].redemption = None
    BY <1>0, <1>1, <1>4, <1>6, AtContribution, ActiveRows DEF NewContribution
  <1>10. Safe' /\ Committing(t) /\ HoldsReward(t)
    BY <1>1, ContributeSafe, AtContribution
  <1> QED
    BY <1>0, <1>5, <1>8, <1>9, <1>10, CommitSolvent

LEMMA ContributeAndRequestSolvent ==
  ASSUME RowLocks, Solvent, NEW t \in Threads, ContributeAndRequest(t)
  PROVE  Solvent'
  <1>1. Writes(t, "contribute") /\ Completes(t)
    BY DEF ContributeAndRequest
  <1>2. PICK w \in Rewards, n \in Int : w = request[t].reward /\ n = request[t].points
    BY <1>1, AtContribution
  <1>3. PICK c \in Contributions, r \in Redemptions :
           /\ contribution[c].status = "none" /\ redemption[r].status = "none"
           /\ contribution' =
                [x \in Contributions |->
                   IF x = c THEN NewContribution(t, "submitted", r)
                   ELSE IF /\ contribution[x].reward = request[t].reward
                           /\ contribution[x].status = "reserved"
                           /\ contribution[x].redemption = None
                        THEN [contribution[x] EXCEPT !.status = "submitted", !.redemption = r]
                        ELSE contribution[x]]
           /\ redemption' = [redemption EXCEPT ![r] = NewRedemption(t)]
           /\ UNCHANGED reward
    BY DEF ContributeAndRequest, FreeContributions, FreeRedemptions
  <1>4. Safe /\ WellFormed /\ TypeOK /\ OpenOrSubmitted
    BY SolventParts
  <1>5. /\ \A x \in ActiveOf(w) : contribution[x].status = "reserved" /\ contribution[x].redemption = None
        /\ PointsIn(ActiveOf(w)) \in Int /\ IsFiniteSet(ActiveOf(w)) /\ reward[w].cost \in Int
        /\ n <= reward[w].cost - PointsIn(ActiveOf(w))
        /\ PointsIn(ActiveOf(w)) + n >= reward[w].cost
    BY <1>1, <1>2, AtContribution DEF Completes
  <1>6. /\ contribution'[c].status = "submitted" /\ contribution'[c].redemption = r
        /\ contribution'[c].reward = w /\ contribution'[c].points = n
        /\ redemption'[r].status = "pending" /\ redemption'[r].reward = w
        /\ \A x \in Redemptions \ {r} : redemption'[x] = redemption[x]
        /\ c \notin ActiveOf(w)
    BY <1>2, <1>3, <1>4 DEF TypeOK, NewContribution, NewRedemption, ActiveOf
  <1>7. /\ \A x \in ActiveOf(w) : /\ contribution'[x].status = "submitted"
                                  /\ contribution'[x].redemption = r
                                  /\ contribution'[x].reward = w
                                  /\ contribution'[x].points = contribution[x].points
        /\ \A x \in Contributions \ (ActiveOf(w) \union {c}) : contribution'[x] = contribution[x]
    <2>1. ASSUME NEW x \in ActiveOf(w)
          PROVE  contribution'[x] = [contribution[x] EXCEPT !.status = "submitted", !.redemption = r]
      <3>1. x \in Contributions /\ contribution[x].reward = w /\ x # c
        BY <1>6 DEF ActiveOf
      <3> QED
        BY <1>2, <1>3, <1>5, <3>1
    <2>2. \A x \in ActiveOf(w) : contribution[x] \in ContributionRow /\ contribution[x].reward = w
      BY <1>4 DEF TypeOK, ActiveOf
    <2>3. \A x \in Contributions \ (ActiveOf(w) \union {c}) : contribution'[x] = contribution[x]
      BY <1>2, <1>3 DEF ActiveOf
    <2> QED
      BY <2>1, <2>2, <2>3 DEF ContributionRow
  <1>8. \A x \in Contributions : contribution[x].redemption # r
                              \/ contribution[x].status \notin {"reserved", "submitted"}
    <2>1. r # None
      BY Idle
    <2> QED
      BY <1>3, <1>4, <2>1, OpenOrSubmittedParts DEF Submitted
  <1>9. ActiveOf(w)' = ActiveOf(w) \union {c}
    <2>1. \A x \in Contributions \ (ActiveOf(w) \union {c}) :
            ~(contribution'[x].status \in {"reserved", "submitted"} /\ contribution'[x].reward = w)
      BY <1>7 DEF ActiveOf
    <2> QED
      BY <1>6, <1>7, <2>1 DEF ActiveOf
  <1>10. LinkedTo(r)' = ActiveOf(w)'
    <2>1. \A x \in Contributions \ (ActiveOf(w) \union {c}) :
            ~(contribution'[x].status \in {"reserved", "submitted"} /\ contribution'[x].redemption = r)
      BY <1>7, <1>8
    <2>2. LinkedTo(r)' = ActiveOf(w) \union {c}
      BY <1>6, <1>7, <2>1 DEF LinkedTo, ActiveOf
    <2> QED
      BY <1>9, <2>2
  <1>11. PointsIn(ActiveOf(w))' = n + PointsIn(ActiveOf(w))
    <2>1. \A x \in ActiveOf(w)' : contribution'[x].points \in Int
      BY <1>4, <1>6, <1>7, <1>9, ActiveRows, Summable
    <2>2. IsFiniteSet(ActiveOf(w)')
      BY <1>5, <1>9, FS_AddElement
    <2>3. Total(contribution', ActiveOf(w)') = n + Total(contribution', ActiveOf(w))
      <3>1. ActiveOf(w)' \ {c} = ActiveOf(w) /\ c \in ActiveOf(w)'
        BY <1>6, <1>9
      <3> QED
        BY <1>6, <2>1, <2>2, <3>1, TotalAdds
    <2>4. Total(contribution', ActiveOf(w)) = Total(contribution, ActiveOf(w))
      BY <1>7, TotalAgrees
    <2> QED
      BY <2>3, <2>4, PointsNext, PointsAreTotal
  <1>12. PointsIn(ActiveOf(w))' = reward'[w].cost /\ reward'[w].cost \in Int
    <2>1. reward'[w].cost = reward[w].cost
      BY <1>3
    <2> QED
      BY <1>5, <1>11, <2>1
  <1>13. OnlyReward(w)
    <2>1. ASSUME NEW x \in Redemptions, redemption[x].status = "pending"
          PROVE  redemption'[x] = redemption[x] /\ LinkedTo(x)' = LinkedTo(x)
      <3>1. x # r /\ x # None
        BY <1>3, <2>1, Idle
      <3>2. \A y \in ActiveOf(w) : contribution[y].redemption # x /\ contribution'[y].redemption # x
        BY <1>5, <1>7, <3>1
      <3>3. contribution'[c].redemption # x /\ contribution[c].status \notin {"reserved", "submitted"}
        BY <1>3, <1>6, <3>1
      <3> QED
        BY <1>6, <1>7, <3>1, <3>2, <3>3 DEF LinkedTo
    <2>2. ASSUME NEW x \in Contributions, contribution[x].status # "none"
          PROVE  /\ contribution'[x].points = contribution[x].points
                 /\ contribution'[x].reward = contribution[x].reward
                 /\ contribution[x].reward # w => contribution'[x] = contribution[x]
      BY <1>3, <1>7, <2>2 DEF ActiveOf
    <2>3. ASSUME NEW x \in Contributions, contribution[x].status = "none", contribution'[x].status # "none"
          PROVE  contribution'[x].reward = w
      BY <1>6, <1>7, <2>3
    <2>4. \A x \in Rewards \ {w} : reward'[x] = reward[x]
      BY <1>3
    <2> QED
      BY <2>1, <2>2, <2>3, <2>4 DEF OnlyReward
  <1>14. ASSUME NEW x \in ActiveOf(w)'
         PROVE  contribution'[x].status = "submitted" /\ Submitted(x)'
    <2>1. contribution'[x].reward = w /\ contribution'[x].redemption = r /\ contribution'[x].status = "submitted"
      BY <1>6, <1>7, <1>9
    <2> QED
      BY <1>6, <1>10, <1>12, <2>1, SubmittedNext
  <1>15. Safe' /\ Committing(t) /\ HoldsReward(t)
    BY <1>1, <1>4, ContributeAndRequestSafe, AtContribution
  <1>16. PointsIn(ActiveOf(w))' <= reward'[w].cost
    BY <1>12
  <1> QED
    BY <1>2, <1>13, <1>14, <1>15, <1>16, CommitSolvent

LEMMA RedeemSolvent ==
  ASSUME RowLocks, Solvent, NEW t \in Threads, Redeem(t)
  PROVE  Solvent'
  <1>1. Safe /\ WellFormed /\ TypeOK /\ Informed(t) /\ OpenOrSubmitted
    BY SolventParts
  <1>2. /\ Committing(t) /\ HoldsReward(t) /\ request[t].reward \in Rewards
        /\ ActiveOf(request[t].reward) = {}
    BY <1>1, AtCommit DEF Redeem, Writes, Informed, Takes
  <1>3. PICK w \in Rewards : w = request[t].reward
    BY <1>2
  <1>4. PICK r \in Redemptions :
           /\ redemption[r].status = "none"
           /\ redemption' = [redemption EXCEPT ![r] = NewRedemption(t)]
           /\ UNCHANGED <<reward, contribution>>
    BY DEF Redeem, FreeRedemptions
  <1>5. \A x \in Redemptions \ {r} : redemption'[x] = redemption[x]
    BY <1>1, <1>4 DEF TypeOK
  <1>6. OnlyReward(w)
    BY <1>4, <1>5 DEF OnlyReward, LinkedTo
  <1>7. ActiveOf(w)' = {}
    BY <1>2, <1>3, <1>4 DEF ActiveOf
  <1> QED
    BY <1>1, <1>2, <1>3, <1>6, <1>7, RedeemSafe, CommitSolvent

(* A review settles every open contribution of its reward: they are all    *)
(* linked to the redemption under review.                                  *)
LEMMA ReviewSolvent ==
  ASSUME RowLocks, Solvent, NEW t \in Threads, Approve(t) \/ Reject(t)
  PROVE  Solvent'
  <1>1. Safe /\ WellFormed /\ TypeOK /\ OpenOrSubmitted /\ Writes(t, "review") /\ IsReview(t)
    BY SolventParts DEF Approve, Reject, Writes, IsReview
  <1>2. PICK w \in Rewards, r \in Redemptions : w = request[t].reward /\ r = request[t].redemption
    BY <1>1, AtCommit
  <1>3. /\ Committing(t) /\ HoldsReward(t)
        /\ redemption[r].status = "pending" /\ redemption[r].reward = w
        /\ seen[t].contributions = LinkedTo(r)
    BY <1>1, <1>2, AtCommit
  <1>4. PICK done \in {"consumed", "released"}, decided \in {"approved", "rejected"} :
          /\ contribution' = [c \in Contributions |->
                                IF c \in LinkedTo(r) THEN [contribution[c] EXCEPT !.status = done]
                                ELSE contribution[c]]
          /\ redemption' = [redemption EXCEPT ![r].status = decided]
          /\ UNCHANGED reward
    <2>1. CASE Approve(t)
      <3> WITNESS "consumed" \in {"consumed", "released"}, "approved" \in {"approved", "rejected"}
      <3> QED
        BY <1>2, <1>3, <2>1 DEF Approve
    <2>2. CASE Reject(t)
      <3> WITNESS "released" \in {"consumed", "released"}, "rejected" \in {"approved", "rejected"}
      <3> QED
        BY <1>2, <1>3, <2>2 DEF Reject
    <2> QED
      BY <2>1, <2>2
  <1>5. /\ \A x \in Redemptions \ {r} : redemption'[x] = redemption[x]
        /\ \A c \in LinkedTo(r) : /\ contribution'[c].status = done
                                  /\ contribution'[c].reward = contribution[c].reward
                                  /\ contribution'[c].points = contribution[c].points
                                  /\ contribution'[c].redemption = contribution[c].redemption
        /\ \A c \in Contributions \ LinkedTo(r) : contribution'[c] = contribution[c]
    BY <1>1, <1>4, ActiveRows DEF TypeOK, ContributionRow
  <1>6. \A c \in LinkedTo(r) : contribution[c].status = "submitted" /\ Submitted(c)
                              /\ contribution[c].redemption = r /\ contribution[c].reward = w
    <2>1. r # None
      BY Idle
    <2> QED
      BY <1>1, <1>3, <2>1, OpenOrSubmittedParts DEF LinkedTo, Submitted
  <1>7. LinkedTo(r) # {} => LinkedTo(r) = ActiveOf(w)
    BY <1>6 DEF Submitted
  <1>8. OnlyReward(w)
    <2>1. ASSUME NEW x \in Redemptions, redemption[x].status = "pending", redemption[x].reward # w
          PROVE  redemption'[x] = redemption[x] /\ LinkedTo(x)' = LinkedTo(x)
      <3>1. x # r
        BY <1>3, <2>1
      <3>2. \A c \in LinkedTo(r) : contribution[c].redemption # x /\ contribution'[c].redemption # x
        BY <1>5, <1>6, <3>1
      <3> QED
        BY <1>5, <3>1, <3>2 DEF LinkedTo
    <2>2. ASSUME NEW c \in Contributions, contribution[c].reward # w
          PROVE  contribution'[c] = contribution[c]
      BY <1>5, <1>6, <2>2
    <2>3. ASSUME NEW c \in Contributions, contribution[c].status = "none"
          PROVE  contribution'[c].status = "none"
      BY <1>5, <1>6, <2>3
    <2> QED
      BY <1>4, <1>5, <2>1, <2>2, <2>3 DEF OnlyReward
  <1>9. CASE LinkedTo(r) = {}
    <2>1. contribution' = contribution /\ reward' = reward
      BY <1>1, <1>4, <1>9 DEF TypeOK
    <2>2. ActiveOf(w)' = ActiveOf(w) /\ PointsIn(ActiveOf(w))' = PointsIn(ActiveOf(w))
      BY <2>1 DEF ActiveOf, PointsIn
    <2>3. ASSUME NEW c \in ActiveOf(w)
          PROVE  contribution[c].status = "reserved" /\ contribution[c].redemption = None
      <3>1. ASSUME contribution[c].status = "submitted" PROVE FALSE
        <4>1. Submitted(c) /\ c \in Contributions /\ contribution[c].reward = w
          BY <1>1, <3>1, OpenOrSubmittedParts DEF ActiveOf
        <4>2. contribution[c].redemption = r
          BY <1>1, <1>3, <4>1 DEF Submitted, Safe, AtMostOnePending
        <4> QED
          BY <1>9, <3>1, <4>1, <4>2 DEF LinkedTo
      <3> QED
        BY <1>1, <3>1, OpenOrSubmittedParts DEF ActiveOf
    <2>4. ActiveOf(w)' # {} => PointsIn(ActiveOf(w))' <= reward'[w].cost
      BY <2>1, <2>2, SolventParts DEF NeverOverReserved
    <2> QED
      BY <1>1, <1>2, <1>3, <1>8, <2>1, <2>2, <2>3, <2>4, ReviewSafe, CommitSolvent
  <1>10. CASE LinkedTo(r) # {}
    <2>1. ActiveOf(w)' = {}
      BY <1>5, <1>7, <1>10 DEF ActiveOf
    <2> QED
      BY <1>1, <1>2, <1>3, <1>8, <2>1, ReviewSafe, CommitSolvent
  <1> QED
    BY <1>9, <1>10

(* The tables of contributions and redemptions stay, prices in use too. *)
LEMMA PricesKept ==
  ASSUME Solvent, UNCHANGED <<redemption, contribution>>,
         \A w \in Rewards : ActiveOf(w) # {} => reward'[w].cost = reward[w].cost
  PROVE  NeverOverReserved' /\ OpenOrSubmitted'
  <1>1. /\ \A w : ActiveOf(w)' = ActiveOf(w) /\ PointsIn(ActiveOf(w))' = PointsIn(ActiveOf(w))
        /\ \A r : LinkedTo(r)' = LinkedTo(r)
    BY DEF ActiveOf, LinkedTo, PointsIn
  <1>2. NeverOverReserved'
    BY <1>1 DEF Solvent, NeverOverReserved
  <1>3. ASSUME NEW c \in Contributions, contribution[c].status = "submitted" PROVE Submitted(c)'
    <2>1. Submitted(c) /\ c \in ActiveOf(contribution[c].reward) /\ contribution[c].reward \in Rewards
      BY <1>3, SolventParts, OpenOrSubmittedParts DEF ActiveOf, WellFormed, RowsKnown
    <2> QED
      BY <1>1, <2>1, SubmittedNext DEF Submitted
  <1>4. OpenOrSubmitted'
    BY <1>3, SolventParts, OpenOrSubmittedParts DEF OpenOrSubmitted, Submitted
  <1> QED
    BY <1>2, <1>4

LEMMA EditSolvent ==
  ASSUME RowLocks, Solvent, NEW t \in Threads, Update(t) \/ Delete(t)
  PROVE  Solvent'
  <1>1. Safe /\ WellFormed /\ TypeOK /\ \A s \in Threads : Informed(s) /\ Held(s)
    BY SolventParts DEF Safe
  <1>2. UNCHANGED <<redemption, contribution>>
    BY DEF Update, Delete
  <1>3. Committing(t) /\ HoldsReward(t)
    BY <1>1, AtCommit DEF Update, Delete
  <1>4. NeverOverReserved' /\ OpenOrSubmitted'
    BY <1>1, <1>2, InUseKept, PricesKept DEF Next, Statement
  <1>5. ASSUME NEW s \in Threads PROVE Informed(s)'
    <2>1. CASE s = t
      BY <1>1, <1>3, <2>1, EndInformed DEF Committing
    <2>2. CASE s # t
      <3>1. pc'[s] = pc[s] /\ request'[s] = request[s] /\ seen'[s] = seen[s]
        BY <1>1, <1>3, <2>2 DEF Committing, End, TypeOK
      <3>2. ASSUME NEW w \in Rewards, HoldsReward(s), w = request[s].reward
            PROVE  reward'[w].cost = reward[w].cost /\ ActiveOf(w)' = ActiveOf(w)
        <4>1. request[t].reward # w
          BY <1>1, <1>3, <2>2, <3>2 DEF Held
        <4> QED
          BY <1>1, <1>2, <4>1 DEF Update, Delete, TypeOK, ActiveOf
      <3> QED
        BY <1>1, <1>2, <3>1, <3>2, OthersInformed
    <2> QED
      BY <2>1, <2>2
  <1> QED
    BY <1>1, <1>4, <1>5, EditSafe DEF Solvent

LEMMA TableSolvent ==
  ASSUME RowLocks, Solvent,
         \/ \E w \in Rewards : Create(w)
         \/ \E u \in Children : Adjust(u)
  PROVE  Solvent'
  <1>1. Safe /\ WellFormed /\ TypeOK /\ Born /\ \A s \in Threads : Informed(s)
    BY SolventParts DEF Safe
  <1>2. UNCHANGED <<redemption, contribution, pc, request, seen>>
    BY DEF Create, Adjust
  <1>3. \A w \in Rewards : reward[w].status # "unborn" => reward'[w] = reward[w]
    BY <1>1 DEF Create, Adjust, TypeOK
  <1>4. \A w \in Rewards : ActiveOf(w) # {} => reward'[w].cost = reward[w].cost
    BY <1>1, <1>3 DEF Born, ActiveOf
  <1>5. \A s \in Threads : Informed(s)'
    BY <1>1, <1>2, <1>3, OthersInformed DEF Born, ActiveOf
  <1>6. Safe'
    BY <1>1, CreateSafe, AdjustSafe
  <1> QED
    BY <1>2, <1>4, <1>5, <1>6, PricesKept DEF Solvent

LEMMA NextSolvent == ASSUME RowLocks PROVE Solvent /\ [Next]_vars => Solvent'
  <1> SUFFICES ASSUME Solvent, [Next]_vars PROVE Solvent'
    OBVIOUS
  <1>1. CASE UNCHANGED vars
    <2>1. Safe' /\ WellFormed
      BY NextSafe, SolventParts
    <2>2. UNCHANGED <<reward, redemption, contribution, pc, request, seen>>
      BY <1>1 DEF vars
    <2>3. \A s \in Threads : Informed(s)'
      BY <2>1, <2>2, OthersInformed, SolventParts DEF ActiveOf
    <2> QED
      BY <2>1, <2>2, <2>3, PricesKept DEF Solvent
  <1>2. ASSUME NEW t \in Threads, Arrive(t) \/ Statement(t) \/ AbortDeadlocked(t)
        PROVE  Solvent'
    BY <1>2, ArriveSolvent, SelectSolvent, RollbackSolvent, ContributeSolvent,
       ContributeAndRequestSolvent, RedeemSolvent, ReviewSolvent, EditSolvent DEF Statement
  <1> QED
    BY <1>1, <1>2, TableSolvent DEF Next

(* What keeps every price paid holds on a database that locks rows. *)
THEOREM SolventAlways == ASSUME RowLocks PROVE Spec => []Solvent
  BY InitSolvent, NextSolvent, PTL DEF Spec

(* The points that are reserved for a reward never exceed its price.       *)
THEOREM NeverOverReservedAlways == ASSUME RowLocks PROVE Spec => []NeverOverReserved
  <1>1. Solvent => NeverOverReserved
    BY DEF Solvent
  <1> QED
    BY <1>1, SolventAlways, PTL

(* A submitted contribution waits for a pending request of its own reward, *)
(* and the contributions of that request add up to its price.              *)
THEOREM SubmittedAlwaysFunded == ASSUME RowLocks PROVE Spec => []SubmittedIsFunded
  <1>1. Solvent => SubmittedIsFunded
    <2> SUFFICES ASSUME Solvent, NEW c \in Contributions, contribution[c].status = "submitted"
                 PROVE  \E r \in Redemptions :
                          /\ r = contribution[c].redemption
                          /\ redemption[r].status = "pending"
                          /\ redemption[r].reward = contribution[c].reward
                          /\ PointsIn(LinkedTo(r)) = reward[contribution[c].reward].cost
      BY DEF SubmittedIsFunded
    <2>1. Submitted(c)
      BY SolventParts, OpenOrSubmittedParts
    <2> QED
      BY <2>1 DEF Submitted
  <1> QED
    BY <1>1, SolventAlways, PTL

(* A request is approved only when its price has been paid in full.        *)
THEOREM ApprovedAlwaysPaid == ASSUME RowLocks PROVE Spec => ApprovedIsPaid
  <1>1. ASSUME Solvent, [Next]_vars, NEW r \in Redemptions,
               redemption[r].status # "approved", redemption'[r].status = "approved"
        PROVE  PaidFor(r) >= reward[redemption[r].reward].cost
    <2>1. /\ Safe /\ WellFormed /\ TypeOK /\ LedgerSettled /\ OpenOrSubmitted
          /\ \A t \in Threads : Informed(t)
      BY <1>1, SolventParts DEF Safe
    <2>2. PICK t \in Threads : Approve(t)
      <3>1. ASSUME NEW t \in Threads, Contribute(t) \/ ContributeAndRequest(t) \/ Redeem(t) \/ Reject(t)
            PROVE  FALSE
        <4>1. redemption \in [Redemptions -> RedemptionRow]
          BY <2>1 DEF TypeOK
        <4>2. CASE Contribute(t)
          BY <1>1, <4>2 DEF Contribute
        <4>3. CASE ContributeAndRequest(t) \/ Redeem(t)
          <5>1. PICK x \in Redemptions : redemption' = [redemption EXCEPT ![x] = NewRedemption(t)]
            BY <4>3 DEF ContributeAndRequest, Redeem, FreeRedemptions
          <5> QED
            BY <1>1, <4>1, <5>1 DEF NewRedemption
        <4>4. CASE Reject(t)
          BY <1>1, <4>1, <4>4 DEF Reject
        <4> QED
          BY <3>1, <4>2, <4>3, <4>4
      <3> QED
        BY <1>1, <3>1, Writers DEF vars
    <2>3. /\ Writes(t, "review") /\ IsReview(t) /\ r = request[t].redemption
      BY <1>1, <2>1, <2>2 DEF Approve, Writes, IsReview, TypeOK
    <2>4. PICK w \in Rewards : w = request[t].reward
      BY <2>1, <2>3, AtCommit
    <2>5. /\ redemption[r].reward = w /\ redemption[r].status = "pending"
          /\ seen[t].contributions = LinkedTo(r) /\ seen[t].reserved = ReservedPoints(r)
          /\ seen[t].reward.cost = reward[w].cost
          /\ reward[w].cost \in Int
      BY <2>1, <2>3, <2>4, AtCommit DEF Informed, TypeOK, RewardRow
    <2>6. charged[r] \in Int /\ charged[r] >= 0
      BY <2>1 DEF TypeOK, Sources, LedgerSettled
    <2>7. CASE LinkedTo(r) = {}
      <3>1. SumFunction([c \in LinkedTo(r) |->
                           IF contribution'[c].status = "consumed" THEN charged'[c] ELSE 0]) = 0
        BY <2>7, SumEmpty DEF SumFunction
      <3>2. charged'[r] = charged[r] + Missing(t)
        BY <2>1, <2>2, <2>3, <2>5, <2>7 DEF Approve, TypeOK, Sources
      <3>3. seen[t].reserved = charged[r]
        BY <2>5, <2>6 DEF ReservedPoints
      <3>4. charged[r] + Missing(t) \in Int /\ charged[r] + Missing(t) >= reward[w].cost
        BY <2>5, <2>6, <3>3 DEF Missing
      <3> QED
        BY <2>5, <3>1, <3>2, <3>4 DEF PaidFor
    <2>8. CASE LinkedTo(r) # {}
      <3>1. charged' = charged
        BY <2>2, <2>5, <2>8 DEF Approve
      <3>2. ASSUME NEW c \in LinkedTo(r)
            PROVE  contribution'[c].status = "consumed" /\ charged'[c] = contribution[c].points
        <4>1. /\ c \in Contributions /\ contribution[c].status \in {"reserved", "submitted"}
          BY DEF LinkedTo
        <4>2. contribution'[c].status = "consumed"
          BY <2>1, <2>2, <2>5, <4>1 DEF Approve, TypeOK, ContributionRow
        <4> QED
          BY <2>1, <3>1, <4>1, <4>2 DEF LedgerSettled
      <3>3. SumFunction([c \in LinkedTo(r) |->
                           IF contribution'[c].status = "consumed" THEN charged'[c] ELSE 0])
              = PointsIn(LinkedTo(r))
        <4>1. [c \in LinkedTo(r) |-> IF contribution'[c].status = "consumed" THEN charged'[c] ELSE 0]
                = [c \in LinkedTo(r) |-> contribution[c].points]
          BY <3>2
        <4> QED
          BY <4>1 DEF PointsIn
      <3>4. PointsIn(LinkedTo(r)) = reward[w].cost
        <4>1. PICK c \in LinkedTo(r) : TRUE
          BY <2>8
        <4>2. c \in Contributions /\ contribution[c].status = "submitted" /\ contribution[c].redemption = r
          BY <2>1, <4>1, Idle, OpenOrSubmittedParts DEF LinkedTo
        <4> QED
          BY <2>1, <2>5, <4>2, OpenOrSubmittedParts DEF Submitted
      <3> QED
        BY <2>5, <2>6, <3>1, <3>3, <3>4 DEF PaidFor
    <2> QED
      BY <2>7, <2>8
  <1>2. Solvent /\ [Next]_vars =>
          [\A r \in Redemptions :
             redemption[r].status # "approved" /\ redemption'[r].status = "approved" =>
               PaidFor(r) >= reward[redemption[r].reward].cost]_vars
    BY <1>1
  <1> QED
    BY <1>2, SolventAlways, PTL DEF Spec, ApprovedIsPaid

=============================================================================

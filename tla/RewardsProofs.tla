---------------------------- MODULE RewardsProofs ----------------------------
(***************************************************************************)
(* Theorems about Rewards, for every set of children, rewards, threads and *)
(* points: type correctness with and without row locks; the safety of the  *)
(* endpoints on a database that locks rows; the refinement of PointsEscrow.*)
(***************************************************************************)
EXTENDS RewardsInvariant, TLAPS

LEMMA PointsNat == /\ Points \union {0} \subseteq Nat
                   /\ Points \union {0} \subseteq Int
  BY RewardsAssumption DEF RewardsAssumption

LEMMA RequestFields ==
  ASSUME NEW q \in Request
  PROVE  /\ q.op \in {"contribute", "redeem", "update", "delete", "review"}
         /\ q.reward \in Rewards
         /\ q.op \in {"contribute", "redeem", "review"} => q.child \in Children
         /\ q.op = "contribute" => q.points \in Points
         /\ q.op = "update" => q.to \in RewardInputs
         /\ q.op = "review" => /\ q.redemption \in Redemptions
                               /\ q.decision \in {"pending", "approved", "rejected"}
  BY DEF Request

(* Rows are never removed, and their references never change. *)
RowsKept ==
  /\ \A r \in Redemptions : redemption[r].status # "none" =>
       /\ redemption'[r].status # "none"
       /\ redemption'[r].reward = redemption[r].reward
       /\ redemption'[r].by = redemption[r].by
  /\ \A c \in Contributions : contribution[c].status # "none" => contribution'[c].status # "none"

LEMMA InitWellFormed == Init => WellFormed
  <1> USE RewardsAssumption DEF RewardsAssumption
  <1> SUFFICES ASSUME Init PROVE WellFormed
    OBVIOUS
  <1>1. TypeOK
    <2>1. reward \in [Rewards -> RewardRow]
      <3>1. UnbornReward \in RewardRow
        BY DEF UnbornReward, RewardRow
      <3>2. ASSUME NEW v \in RewardInputs PROVE Live(v) \in RewardRow
        BY DEF Live, RewardRow
      <3> QED
        BY <3>1, <3>2 DEF Init
    <2>2. redemption \in [Redemptions -> RedemptionRow]
      BY DEF Init, RedemptionRow, NoRedemption
    <2>3. contribution \in [Contributions -> ContributionRow]
      <3>1. NoContribution \in ContributionRow
        BY DEF NoContribution, ContributionRow
      <3> QED
        BY <3>1 DEF Init
    <2>5. charged \in [Sources -> Int]
      BY DEF Init
    <2>6. granted \in [Children -> Int]
      BY RewardsAssumption DEF RewardsAssumption, Init
    <2>4. /\ owner \in [Lockable -> Threads \union {None}]
          /\ pc \in [Threads -> PCs]
          /\ request \in [Threads -> Request \union {NoRequest}]
          /\ seen \in [Threads -> Seen]
      BY DEF Init, PCs, Seen, Nothing, RewardValues
    <2> QED
      BY <2>1, <2>2, <2>3, <2>4, <2>5, <2>6 DEF TypeOK
  <1>2. RowsKnown
    BY DEF Init, RowsKnown, NoContribution, NoRedemption
  <1>3. \A t \in Threads : Local(t)
    BY DEF Init, Local, IsReview, NoRequest, Nothing
  <1> QED
    BY <1>1, <1>2, <1>3 DEF WellFormed

LEMMA ArriveWellFormed ==
  ASSUME WellFormed, NEW t \in Threads, Arrive(t)
  PROVE  WellFormed'
  <1> USE RewardsAssumption DEF RewardsAssumption
  <1>1. TypeOK'
    BY DEF WellFormed, TypeOK, Arrive, StartContribute, StartRedeem, StartUpdate, StartDelete,
           StartReview, Start, Request, FreeRedemptions, RowsKnown, PCs, tables
  <1>2. RowsKnown'
    BY DEF WellFormed, RowsKnown, Arrive, StartContribute, StartRedeem, StartUpdate,
           StartDelete, StartReview, Start, tables
  <1>3. \A s \in Threads : Local(s)'
    BY DEF WellFormed, TypeOK, Local, Spends, IsReview, Takes, NoRequest, FreeRedemptions,
           tables, Arrive, StartContribute, StartRedeem, StartUpdate, StartDelete, StartReview, Start
  <1> QED
    BY <1>1, <1>2, <1>3 DEF WellFormed

(* What a thread's own statement leaves to show: its new local state and   *)
(* the tables; every other thread keeps its program counter, request and   *)
(* snapshot.                                                               *)
LEMMA OthersLocal ==
  ASSUME NEW t \in Threads, WellFormed, NEW s \in Threads, s # t,
         pc'[s] = pc[s], request'[s] = request[s], seen'[s] = seen[s], RowsKept
  PROVE  Local(s)'
  <1>1. IsReview(s) => request[s].redemption \in Redemptions
    BY RequestFields DEF IsReview, WellFormed, TypeOK, NoRequest
  <1>2. seen[s].contributions \subseteq Contributions
    BY DEF WellFormed, TypeOK, Seen
  <1> QED
    BY <1>1, <1>2 DEF WellFormed, Local, Spends, IsReview, Takes, RowsKept

LEMMA AdvanceWellFormed ==
  ASSUME WellFormed, NEW t \in Threads, NEW next \in PCs \ {"idle"}, NEW s \in Seen,
         Advance(t, next, s), pc[t] # "idle",
         owner' \in [Lockable -> Threads \union {None}],
         next = "redemption" => IsReview(t),
         next = "ledger" => IsReview(t),
         next = "pending" => ~IsReview(t),
         next = "user" => Spends(t)',
         \A c \in s.contributions : contribution[c].status # "none"
  PROVE  WellFormed'
  <1>1. TypeOK'
    BY DEF WellFormed, TypeOK, Advance, tables
  <1>2. RowsKnown'
    BY DEF WellFormed, RowsKnown, Advance, tables
  <1>3. Local(t)'
    BY DEF WellFormed, TypeOK, Advance, Local, IsReview, tables
  <1>4. ASSUME NEW x \in Threads, x # t PROVE Local(x)'
    BY <1>4, OthersLocal DEF Advance, WellFormed, TypeOK, tables, RowsKept
  <1> QED
    BY <1>1, <1>2, <1>3, <1>4 DEF WellFormed

LEMMA LockType ==
  ASSUME TypeOK, NEW t \in Threads, NEW rows, Lock(t, rows)
  PROVE  owner' \in [Lockable -> Threads \union {None}]
  BY DEF TypeOK, Lock

LEMMA EndWellFormed ==
  ASSUME WellFormed, NEW t \in Threads, End(t),
         reward' \in [Rewards -> RewardRow],
         redemption' \in [Redemptions -> RedemptionRow],
         contribution' \in [Contributions -> ContributionRow],
         charged' \in [Sources -> Int],
         granted' = granted,
         RowsKnown', RowsKept
  PROVE  WellFormed'
  <1>1. TypeOK'
    BY DEF WellFormed, TypeOK, End, PCs, Seen, Nothing, RewardValues
  <1>2. Local(t)'
    BY DEF WellFormed, TypeOK, End, Local, IsReview, NoRequest, Nothing
  <1>3. ASSUME NEW x \in Threads, x # t PROVE Local(x)'
    BY <1>3, OthersLocal DEF End, WellFormed, TypeOK
  <1> QED
    BY <1>1, <1>2, <1>3 DEF WellFormed

LEMMA SelectWellFormed ==
  ASSUME WellFormed, NEW t \in Threads,
         \/ SelectRedemption(t) \/ SelectReward(t) \/ SelectPending(t)
         \/ SelectContributions(t) \/ SelectLedger(t) \/ SelectBalance(t)
  PROVE  WellFormed'
  <1> USE DEF CanRun
  <1>0. /\ TypeOK /\ Local(t) /\ seen[t] \in Seen
        /\ \A c \in seen[t].contributions : contribution[c].status # "none"
        /\ request[t] \in Request \union {NoRequest}
        /\ owner \in [Lockable -> Threads \union {None}]
    BY DEF WellFormed, TypeOK, Local
  <1>1. CASE SelectRedemption(t)
    <2>1. request[t].redemption \in Redemptions
      BY <1>0, <1>1 DEF SelectRedemption, Local, IsReview, Request, NoRequest
    <2>2. redemption[request[t].redemption].status \in {"none", "pending", "approved", "rejected"}
      BY <1>0, <2>1 DEF TypeOK, RedemptionRow
    <2> DEFINE s == [seen[t] EXCEPT !.status = redemption[request[t].redemption].status]
    <2>3. s \in Seen /\ \A c \in s.contributions : contribution[c].status # "none"
      BY <1>0, <2>2 DEF Seen
    <2>4. /\ pc[t] # "idle" /\ IsReview(t) /\ Advance(t, "reward", s)
          /\ Lock(t, {request[t].redemption})
      BY <1>0, <1>1 DEF SelectRedemption, Local
    <2> HIDE DEF s
    <2> QED
      BY <1>0, <2>3, <2>4, LockType, AdvanceWellFormed DEF PCs
  <1>2. CASE SelectReward(t)
    <2>1. request[t].reward \in Rewards
      BY <1>0, <1>2, RequestFields DEF SelectReward, Local
    <2>2. Values(reward[request[t].reward]) \in RewardValues
      BY <1>0, <2>1 DEF TypeOK, RewardRow, RewardValues, Values
    <2> DEFINE s == [seen[t] EXCEPT !.reward = Values(reward[request[t].reward])]
    <2>4. s \in Seen /\ \A c \in s.contributions : contribution[c].status # "none"
      BY <1>0, <2>2 DEF Seen
    <2>5. /\ pc[t] # "idle" /\ Lock(t, {request[t].reward})
          /\ Advance(t, IF IsReview(t) THEN "contributions" ELSE "pending", s)
      BY <1>2 DEF SelectReward
    <2> HIDE DEF s
    <2> QED
      BY <1>0, <2>4, <2>5, LockType, AdvanceWellFormed DEF PCs
  <1>3. CASE SelectPending(t)
    BY <1>0, <1>3, AdvanceWellFormed DEF SelectPending, PCs, Local, HoldsReward
  <1>4. CASE SelectContributions(t)
    <2> DEFINE q == request[t]
               s == [seen[t] EXCEPT !.contributions =
                       IF IsReview(t) THEN LinkedTo(q.redemption) ELSE ActiveOf(q.reward)]
               next == IF IsReview(t) THEN "ledger" ELSE IF Takes(t) THEN "user" ELSE "write"
    <2>1. s \in Seen /\ \A c \in s.contributions : contribution[c].status # "none"
      BY <1>0 DEF Seen, LinkedTo, ActiveOf
    <2>2. pc[t] # "idle" /\ Advance(t, next, s) /\ UNCHANGED owner
      BY <1>4 DEF SelectContributions
    <2>3. next = "user" => Spends(t)'
      BY <2>2 DEF Advance, Spends, Takes
    <2> HIDE DEF s
    <2> QED
      BY <1>0, <2>1, <2>2, <2>3, AdvanceWellFormed DEF PCs
  <1>5. CASE SelectLedger(t)
    <2> DEFINE q == request[t]
               s == [seen[t] EXCEPT !.reserved = ReservedPoints(q.redemption)]
               topUp == /\ q.decision = "approved"
                        /\ s.contributions = {}
                        /\ s.reward.cost > s.reserved
    <2>0. q.redemption \in Redemptions /\ IsReview(t)
      BY <1>0, <1>5, RequestFields DEF SelectLedger, Local, IsReview, NoRequest
    <2>a. charged[q.redemption] \in Int
      BY <1>0, <2>0 DEF TypeOK, Sources
    <2>b. ReservedPoints(q.redemption) \in Nat
      BY <2>a DEF ReservedPoints
    <2>1. s \in Seen /\ \A c \in s.contributions : contribution[c].status # "none"
      <3> HIDE DEF q
      <3> QED
        BY <1>0, <2>b DEF Seen
    <2>2. pc[t] # "idle" /\ Advance(t, IF topUp THEN "user" ELSE "write", s) /\ UNCHANGED owner
      BY <1>5 DEF SelectLedger
    <2>3. topUp => Spends(t)'
      BY <1>0, <2>0, <2>2 DEF Advance, Spends, IsReview, TypeOK
    <2> HIDE DEF s
    <2> QED
      BY <1>0, <2>1, <2>2, <2>3, AdvanceWellFormed DEF PCs
  <1>6. CASE SelectBalance(t)
    BY <1>0, <1>6, LockType, AdvanceWellFormed DEF SelectBalance, PCs
  <1> QED
    BY <1>1, <1>2, <1>3, <1>4, <1>5, <1>6

LEMMA RollbackWellFormed ==
  ASSUME WellFormed, NEW t \in Threads, Refuse(t) \/ AbortDeadlocked(t)
  PROVE  WellFormed'
  <1>1. End(t) /\ UNCHANGED tables
    BY DEF Refuse, AbortDeadlocked
  <1> QED
    BY <1>1, EndWellFormed DEF WellFormed, TypeOK, RowsKnown, RowsKept, tables

LEMMA CommitWellFormed ==
  ASSUME WellFormed, NEW t \in Threads,
         \/ Contribute(t) \/ ContributeAndRequest(t) \/ Redeem(t) \/ Approve(t)
         \/ Reject(t) \/ Update(t) \/ Delete(t)
  PROVE  WellFormed'
  <1> DEFINE q == request[t]
  <1>0. /\ TypeOK /\ RowsKnown /\ Local(t) /\ End(t) /\ pc[t] = "write"
        /\ seen[t] \in Seen /\ q \in Request
    BY DEF WellFormed, TypeOK, Local, Writes, Contribute, ContributeAndRequest, Redeem, Approve,
           Reject, Update, Delete
  <1>a. /\ seen[t].reward \in RewardValues /\ seen[t].reserved \in Nat
        /\ seen[t].contributions \in SUBSET Contributions
    BY <1>0 DEF Seen
  <1>1. CASE Contribute(t)
    <2>1. q.reward \in Rewards /\ q.child \in Children /\ q.points \in Points /\ q.points \in Int
      BY <1>0, <1>1, RequestFields, PointsNat DEF Contribute, Writes
    <2>2. PICK c \in Contributions :
             /\ contribution' = [contribution EXCEPT ![c] = NewContribution(t, "reserved", None)]
             /\ charged' = [charged EXCEPT ![c] = q.points]
      BY <1>1 DEF Contribute, FreeContributions
    <2>3. NewContribution(t, "reserved", None) \in ContributionRow
      BY <2>1 DEF NewContribution, ContributionRow
    <2>a. contribution' \in [Contributions -> ContributionRow]
      BY <1>0, <2>2, <2>3 DEF TypeOK
    <2>4. charged' \in [Sources -> Int]
      BY <1>0, <2>1, <2>2 DEF TypeOK
    <2>5. RowsKnown' /\ RowsKept
      BY <1>0, <1>1, <2>1, <2>2 DEF RowsKnown, RowsKept, TypeOK, Contribute, NewContribution
    <2> QED
      BY <1>0, <1>1, <2>a, <2>4, <2>5, EndWellFormed DEF Contribute, TypeOK
  <1>2. CASE ContributeAndRequest(t)
    <2>1. q.reward \in Rewards /\ q.child \in Children /\ q.points \in Points /\ q.points \in Int
      BY <1>0, <1>2, RequestFields, PointsNat DEF ContributeAndRequest, Writes
    <2>2. PICK c \in Contributions, r \in Redemptions :
             /\ redemption[r].status = "none"
             /\ contribution' =
                  [x \in Contributions |->
                     IF x = c THEN NewContribution(t, "submitted", r)
                     ELSE IF /\ contribution[x].reward = request[t].reward
                             /\ contribution[x].status = "reserved"
                             /\ contribution[x].redemption = None
                          THEN [contribution[x] EXCEPT !.status = "submitted", !.redemption = r]
                          ELSE contribution[x]]
             /\ redemption' = [redemption EXCEPT ![r] = NewRedemption(t)]
             /\ charged' = [charged EXCEPT ![c] = q.points]
      BY <1>2 DEF ContributeAndRequest, FreeContributions, FreeRedemptions
    <2>3. /\ NewContribution(t, "submitted", r) \in ContributionRow
          /\ NewRedemption(t) \in RedemptionRow
      BY <2>1 DEF NewContribution, NewRedemption, ContributionRow, RedemptionRow
    <2>4. ASSUME NEW x \in Contributions
          PROVE  [contribution[x] EXCEPT !.status = "submitted", !.redemption = r] \in ContributionRow
      BY <1>0 DEF TypeOK, ContributionRow
    <2>a. contribution' \in [Contributions -> ContributionRow]
      BY <1>0, <2>2, <2>3, <2>4 DEF TypeOK
    <2>b. redemption' \in [Redemptions -> RedemptionRow]
      BY <1>0, <2>2, <2>3 DEF TypeOK
    <2>5. charged' \in [Sources -> Int]
      BY <1>0, <2>1, <2>2 DEF TypeOK
    <2>6. RowsKnown' /\ RowsKept
      BY <1>0, <1>2, <2>1, <2>2
         DEF RowsKnown, RowsKept, TypeOK, NewContribution, NewRedemption, ContributionRow
    <2> QED
      BY <1>0, <1>2, <2>a, <2>b, <2>5, <2>6, EndWellFormed DEF ContributeAndRequest, TypeOK
  <1>3. CASE Redeem(t)
    <2>1. q.reward \in Rewards /\ q.child \in Children
      BY <1>0, <1>3, RequestFields DEF Redeem, Writes
    <2>2. PICK r \in Redemptions :
             /\ redemption[r].status = "none"
             /\ redemption' = [redemption EXCEPT ![r] = NewRedemption(t)]
             /\ charged' = [charged EXCEPT ![r] = seen[t].reward.cost]
      BY <1>3 DEF Redeem, FreeRedemptions
    <2>a. NewRedemption(t) \in RedemptionRow
      BY <2>1 DEF NewRedemption, RedemptionRow
    <2>b. redemption' \in [Redemptions -> RedemptionRow]
      BY <1>0, <2>2, <2>a DEF TypeOK
    <2>c. seen[t].reward.cost \in Int
      BY <1>a DEF RewardValues
    <2>3. charged' \in [Sources -> Int]
      BY <1>0, <2>c, <2>2 DEF TypeOK
    <2>4. RowsKnown' /\ RowsKept
      BY <1>0, <1>3, <2>1, <2>2 DEF RowsKnown, RowsKept, TypeOK, Redeem, NewRedemption
    <2> QED
      BY <1>0, <1>3, <2>b, <2>3, <2>4, EndWellFormed DEF Redeem, TypeOK
  <1>4. CASE Approve(t)
    <2>1. q.redemption \in Redemptions /\ IsReview(t)
      BY <1>0, <1>4, RequestFields DEF Approve, Writes, IsReview
    <2>2. Missing(t) \in Int
      BY <1>a DEF Missing, RewardValues
    <2>3. redemption' \in [Redemptions -> RedemptionRow]
      BY <1>0, <1>4, <2>1 DEF TypeOK, Approve, RedemptionRow
    <2>d. ASSUME NEW c \in Contributions
          PROVE  [contribution[c] EXCEPT !.status = "consumed"] \in ContributionRow
      BY <1>0 DEF TypeOK, ContributionRow
    <2>4. contribution' \in [Contributions -> ContributionRow]
      BY <1>0, <1>4, <2>d DEF TypeOK, Approve
    <2>5. charged' \in [Sources -> Int]
      BY <1>0, <1>4, <2>1, <2>2 DEF TypeOK, Approve, Sources
    <2>6. RowsKnown' /\ RowsKept
      BY <1>0, <1>a, <1>4, <2>1 DEF RowsKnown, RowsKept, TypeOK, Approve, Local,
         RedemptionRow, ContributionRow
    <2> QED
      BY <1>0, <1>4, <2>3, <2>4, <2>5, <2>6, EndWellFormed DEF Approve, TypeOK
  <1>5. CASE Reject(t)
    <2>1. q.redemption \in Redemptions /\ IsReview(t)
      BY <1>0, <1>5, RequestFields DEF Reject, Writes, IsReview
    <2>3. redemption' \in [Redemptions -> RedemptionRow]
      BY <1>0, <1>5, <2>1 DEF TypeOK, Reject, RedemptionRow
    <2>d. ASSUME NEW c \in Contributions
          PROVE  [contribution[c] EXCEPT !.status = "released"] \in ContributionRow
      BY <1>0 DEF TypeOK, ContributionRow
    <2>4. contribution' \in [Contributions -> ContributionRow]
      BY <1>0, <1>5, <2>d DEF TypeOK, Reject
    <2>a. \A c \in Contributions : contribution[c].points \in Int
      BY <1>0, PointsNat DEF TypeOK, ContributionRow
    <2>5. charged' \in [Sources -> Int]
      BY <1>0, <1>a, <1>5, <2>1, <2>a DEF TypeOK, Reject, Sources
    <2>6. RowsKnown' /\ RowsKept
      BY <1>0, <1>a, <1>5, <2>1 DEF RowsKnown, RowsKept, TypeOK, Reject, Local,
         RedemptionRow, ContributionRow
    <2> QED
      BY <1>0, <1>5, <2>3, <2>4, <2>5, <2>6, EndWellFormed DEF Reject, TypeOK
  <1>6. CASE Update(t)
    <2>1. q.reward \in Rewards /\ q.to \in RewardValues
      BY <1>0, <1>6, RequestFields, RewardsAssumption
         DEF RewardsAssumption, Update, Writes, RewardValues
    <2>2. reward' \in [Rewards -> RewardRow]
      BY <1>0, <2>1, <1>6 DEF TypeOK, Update, RewardRow, RewardValues
    <2> QED
      BY <1>0, <1>6, <2>2, EndWellFormed DEF Update, TypeOK, RowsKnown, RowsKept
  <1>7. CASE Delete(t)
    <2>1. q.reward \in Rewards
      BY <1>0, <1>7, RequestFields DEF Delete, Writes
    <2>2. reward' \in [Rewards -> RewardRow]
      BY <1>0, <2>1, <1>7 DEF TypeOK, Delete, RewardRow
    <2> QED
      BY <1>0, <1>7, <2>2, EndWellFormed DEF Delete, TypeOK, RowsKnown, RowsKept
  <1> QED
    BY <1>1, <1>2, <1>3, <1>4, <1>5, <1>6, <1>7

LEMMA TableWellFormed ==
  ASSUME WellFormed,
         \/ \E w \in Rewards : Create(w)
         \/ \E u \in Children : Adjust(u)
  PROVE  WellFormed'
  <1>1. TypeOK' /\ RowsKnown'
    <2>1. ASSUME NEW w \in Rewards, Create(w) PROVE TypeOK' /\ RowsKnown'
      <3>1. PICK v \in RewardInputs : reward' = [reward EXCEPT ![w] = Live(v)]
        BY <2>1 DEF Create
      <3>2. Live(v) \in RewardRow
        BY RewardsAssumption DEF RewardsAssumption, Live, RewardRow
      <3> QED
        BY <2>1, <3>1, <3>2 DEF Create, WellFormed, TypeOK, RowsKnown
    <2>2. ASSUME NEW u \in Children, Adjust(u) PROVE TypeOK' /\ RowsKnown'
      <3>1. granted' \in [Children -> Int]
        BY <2>2, RewardsAssumption DEF RewardsAssumption, Adjust, WellFormed, TypeOK
      <3> QED
        BY <2>2, <3>1 DEF Adjust, WellFormed, TypeOK, RowsKnown
    <2> QED
      BY <2>1, <2>2
  <1>2. UNCHANGED <<redemption, contribution, pc, request, seen>>
    BY DEF Create, Adjust
  <1>3. \A s \in Threads : Local(s)'
    BY <1>2 DEF WellFormed, Local, Spends, IsReview, Takes
  <1> QED
    BY <1>1, <1>3 DEF WellFormed

LEMMA NextWellFormed == WellFormed /\ [Next]_vars => WellFormed'
  <1> SUFFICES ASSUME WellFormed, [Next]_vars PROVE WellFormed'
    OBVIOUS
  <1>1. CASE UNCHANGED vars
    BY <1>1 DEF WellFormed, TypeOK, RowsKnown, Local, Spends, IsReview, Takes, vars
  <1>2. ASSUME NEW t \in Threads, Arrive(t) \/ Statement(t) \/ AbortDeadlocked(t)
        PROVE  WellFormed'
    BY <1>2, ArriveWellFormed, SelectWellFormed, RollbackWellFormed, CommitWellFormed DEF Statement
  <1> QED
    BY <1>1, <1>2, TableWellFormed DEF Next

(* Type correctness, for PostgreSQL and SQLite. *)
THEOREM TypeCorrect == Spec => []TypeOK
  <1>1. Spec => []WellFormed
    BY InitWellFormed, NextWellFormed, PTL DEF Spec
  <1>2. WellFormed => TypeOK
    BY DEF WellFormed
  <1> QED
    BY <1>1, <1>2, PTL

-----------------------------------------------------------------------------
(***************************************************************************)
(* The safety of the reward endpoints on a database that locks rows.       *)
(***************************************************************************)

LEMMA Idle ==
  /\ None \notin Threads \union Redemptions \union Rewards \union Children
  /\ Redemptions \intersect Contributions = {}
  BY RewardsAssumption DEF RewardsAssumption

(* What the fields of a request and of a snapshot are. *)
LEMMA ThreadTypes ==
  ASSUME WellFormed, NEW t \in Threads
  PROVE  /\ pc[t] # "idle" => request[t] \in Request
         /\ request[t] = NoRequest <=> pc[t] = "idle"
         /\ seen[t].reward \in RewardValues
         /\ seen[t].reserved \in Nat
         /\ seen[t].contributions \subseteq Contributions
  BY DEF WellFormed, TypeOK, Local, Seen

LEMMA Roles ==
  ASSUME WellFormed, NEW t \in Threads
  PROVE  /\ HoldsReward(t) => request[t].reward \in Rewards
         /\ IsReview(t) => /\ request[t].redemption \in Redemptions
                           /\ request[t].reward \in Rewards
                           /\ request[t].child \in Children
         /\ Spends(t) => request[t].child \in Children
         /\ IsReview(t) => ~Takes(t) /\ ~Edits(t)
         /\ Takes(t) => ~Edits(t)
  <1>1. request[t] \in Request \union {NoRequest}
    BY DEF WellFormed, TypeOK
  <1>2. HoldsReward(t) => request[t] \in Request
    BY ThreadTypes DEF HoldsReward
  <1> QED
    BY <1>1, <1>2, RequestFields DEF HoldsReward, IsReview, Spends, Takes, Edits, NoRequest

-----------------------------------------------------------------------------
(* The steps of one thread and what the others know. *)

OthersKeepLocks(t) ==
  \A s \in Threads \ {t} : \A x \in Lockable : owner[x] = s => owner'[x] = s

(* A commit changes only rows whose locks the thread holds. *)
Confined(t) ==
  /\ \A w \in Rewards \ {request[t].reward} :
       PendingOf(w)' \subseteq PendingOf(w) /\ ActiveOf(w)' \subseteq ActiveOf(w)
  /\ \A r \in Redemptions : redemption[r].status # "none" /\ owner[r] # t =>
       /\ redemption'[r] = redemption[r]
       /\ LinkedTo(r)' = LinkedTo(r)
       /\ charged'[r] = charged[r]
  /\ \A u \in Children \ Touched(t) : Balance(u)' = Balance(u)

LEMMA LockKeeps ==
  ASSUME RowLocks, NEW t \in Threads, NEW rows, Lock(t, rows),
         \A x \in rows : owner[x] \in {None, t}
  PROVE  /\ OthersKeepLocks(t)
         /\ \A x \in Lockable \intersect rows : owner'[x] = t
         /\ \A x \in Lockable : owner[x] = t => owner'[x] = t
  BY Idle DEF Lock, OthersKeepLocks

LEMMA EndKeeps ==
  ASSUME NEW t \in Threads, End(t)
  PROVE  OthersKeepLocks(t)
  BY DEF End, OthersKeepLocks

(* A session keeps its locks and stays current as long as nobody changes   *)
(* what is under its locks.                                                *)
LEMMA OthersCurrent ==
  ASSUME Safe, NEW s \in Threads,
         pc'[s] = pc[s], request'[s] = request[s], seen'[s] = seen[s],
         \A x \in Lockable : owner[x] = s => owner'[x] = s,
         \A w \in Rewards : owner[w] = s =>
           PendingOf(w)' \subseteq PendingOf(w) /\ ActiveOf(w)' \subseteq ActiveOf(w),
         \A r \in Redemptions : owner[r] = s /\ redemption[r].status # "none" =>
           redemption'[r] = redemption[r] /\ LinkedTo(r)' = LinkedTo(r) /\ charged'[r] = charged[r],
         \A u \in Children : owner[u] = s => Balance(u)' = Balance(u)
  PROVE  Held(s)' /\ Current(s)'
  <1>1. /\ Held(s) /\ Current(s) /\ Local(s) /\ WellFormed
    BY DEF Safe, WellFormed
  <1>2. /\ HoldsReward(s)' = HoldsReward(s)
        /\ HoldsRedemption(s)' = HoldsRedemption(s)
        /\ Spends(s)' = Spends(s) /\ IsReview(s)' = IsReview(s)
        /\ Takes(s)' = Takes(s) /\ Edits(s)' = Edits(s)
        /\ Needed(s)' = Needed(s)
    BY DEF HoldsReward, HoldsRedemption, Spends, IsReview, Takes, Edits, Changes, Needed, Missing
  <1>3. Held(s)'
    BY <1>1, <1>2, Roles DEF Held, HoldsRedemption, Lockable
  <1>4. Current(s)'
    <2>1. pc[s] \in {"contributions", "user", "write"} /\ (Takes(s) \/ Edits(s)) =>
            PendingOf(request[s].reward)' = {}
      BY <1>1, Roles DEF Held, Current, HoldsReward
    <2>2. pc[s] = "write" /\ Edits(s) => ActiveOf(request[s].reward)' = {}
      BY <1>1, Roles DEF Held, Current, HoldsReward
    <2>3. ASSUME IsReview(s), pc[s] # "redemption"
          PROVE  /\ redemption'[request[s].redemption] = redemption[request[s].redemption]
                 /\ LinkedTo(request[s].redemption)' = LinkedTo(request[s].redemption)
                 /\ charged'[request[s].redemption] = charged[request[s].redemption]
      BY <1>1, <2>3, Roles DEF Held, HoldsRedemption, Local
    <2>4. IsReview(s) =>
            /\ pc[s] = "reward" => seen[s].status = redemption'[request[s].redemption].status
            /\ HoldsReward(s) => /\ redemption'[request[s].redemption].status = "pending"
                                 /\ request[s].decision # "pending"
            /\ pc[s] \in {"ledger", "user", "write"} =>
                 seen[s].contributions = LinkedTo(request[s].redemption)'
            /\ pc[s] \in {"user", "write"} =>
                 seen[s].reserved = ReservedPoints(request[s].redemption)'
      BY <1>1, <2>3 DEF Current, ReservedPoints, HoldsReward
    <2>5. pc[s] = "write" /\ Spends(s) => Needed(s) <= Balance(request[s].child)'
      BY <1>1, Roles DEF Held, Current
    <2> QED
      BY <1>2, <2>1, <2>2, <2>4, <2>5 DEF Current
  <1> QED
    BY <1>3, <1>4

(* A session that has ended knows nothing. *)
LEMMA EndCurrent ==
  ASSUME WellFormed, NEW t \in Threads, End(t)
  PROVE  Held(t)' /\ Current(t)'
  BY DEF End, WellFormed, TypeOK, Held, Current, HoldsRedemption, HoldsReward, IsReview, Takes, Edits,
         Spends, NoRequest

LEMMA SameTables ==
  ASSUME UNCHANGED tables
  PROVE  /\ \A w : PendingOf(w)' = PendingOf(w) /\ ActiveOf(w)' = ActiveOf(w)
         /\ \A r : LinkedTo(r)' = LinkedTo(r)
         /\ \A u : Balance(u)' = Balance(u)
         /\ \A r : ReservedPoints(r)' = ReservedPoints(r)
         /\ LedgerSettled' = LedgerSettled
         /\ AtMostOnePending' = AtMostOnePending
  BY DEF tables, PendingOf, ActiveOf, LinkedTo, Balance, SourcesOf, ReservedPoints, LedgerSettled,
         AtMostOnePending

-----------------------------------------------------------------------------
(* The initial states *)

LEMMA InitSafe == Init => Safe
  <1> SUFFICES ASSUME Init PROVE Safe
    OBVIOUS
  <1>1. WellFormed
    BY InitWellFormed
  <1>2. Born
    BY DEF Init, Born, NoRedemption, NoContribution, HoldsReward, Live, UnbornReward
  <1>3. LedgerSettled
    BY Idle DEF Init, LedgerSettled, NoContribution, Sources
  <1>4. AtMostOnePending
    BY DEF Init, AtMostOnePending, NoRedemption
  <1>5. \A t \in Threads : Held(t) /\ Current(t)
    BY DEF Init, Held, Current, HoldsReward, HoldsRedemption, IsReview, Takes, Edits, Spends, NoRequest
  <1> QED
    BY <1>1, <1>2, <1>3, <1>4, <1>5 DEF Safe

-----------------------------------------------------------------------------
(* Steps that leave the tables alone *)

LEMMA ReadOnlySafe ==
  ASSUME Safe, NEW t \in Threads, UNCHANGED tables, WellFormed',
         \A s \in Threads \ {t} : pc'[s] = pc[s] /\ request'[s] = request[s] /\ seen'[s] = seen[s],
         OthersKeepLocks(t), Held(t)', Current(t)',
         HoldsReward(t)' => reward[request'[t].reward].status # "unborn"
  PROVE  Safe'
  <1>1. Born'
    BY DEF Safe, Born, tables, HoldsReward
  <1>2. ASSUME NEW s \in Threads \ {t} PROVE Held(s)' /\ Current(s)'
    BY <1>2, SameTables, OthersCurrent DEF OthersKeepLocks, tables
  <1> QED
    BY <1>1, <1>2, SameTables DEF Safe

LEMMA ArriveSafe ==
  ASSUME Safe, NEW t \in Threads, Arrive(t)
  PROVE  Safe'
  <1>1. /\ UNCHANGED tables /\ UNCHANGED owner /\ pc[t] = "idle"
        /\ \A s \in Threads \ {t} : pc'[s] = pc[s] /\ request'[s] = request[s] /\ seen'[s] = seen[s]
    BY DEF Safe, WellFormed, TypeOK, Arrive, StartContribute, StartRedeem, StartUpdate, StartDelete,
           StartReview, Start
  <1>2. \/ pc'[t] = "redemption" /\ request'[t].op = "review"
        \/ pc'[t] = "reward" /\ request'[t].op # "review"
    BY DEF Safe, WellFormed, TypeOK, Arrive, StartContribute, StartRedeem, StartUpdate, StartDelete,
           StartReview, Start
  <1>3. Held(t)' /\ Current(t)' /\ ~HoldsReward(t)'
    BY <1>2 DEF Held, Current, HoldsReward, HoldsRedemption, IsReview, Takes, Edits
  <1>4. OthersKeepLocks(t)
    BY <1>1 DEF OthersKeepLocks
  <1> QED
    BY <1>1, <1>3, <1>4, ArriveWellFormed, ReadOnlySafe DEF Safe

LEMMA RollbackSafe ==
  ASSUME Safe, NEW t \in Threads, Refuse(t) \/ AbortDeadlocked(t)
  PROVE  Safe'
  <1>1. End(t) /\ UNCHANGED tables
    BY DEF Refuse, AbortDeadlocked
  <1>2. /\ \A s \in Threads \ {t} : pc'[s] = pc[s] /\ request'[s] = request[s] /\ seen'[s] = seen[s]
        /\ ~HoldsReward(t)'
    BY <1>1 DEF End, Safe, WellFormed, TypeOK, HoldsReward
  <1> QED
    BY <1>1, <1>2, RollbackWellFormed, EndKeeps, EndCurrent, ReadOnlySafe DEF Safe

LEMMA SelectSafe ==
  ASSUME RowLocks, Safe, NEW t \in Threads,
         \/ SelectRedemption(t) \/ SelectReward(t) \/ SelectPending(t)
         \/ SelectContributions(t) \/ SelectLedger(t) \/ SelectBalance(t)
  PROVE  Safe'
  <1>1. /\ WellFormed' /\ WellFormed /\ Local(t) /\ Held(t) /\ Current(t) /\ Born /\ CanRun(t)
        /\ pc \in [Threads -> PCs] /\ seen \in [Threads -> Seen]
    BY SelectWellFormed
       DEF Safe, WellFormed, TypeOK, SelectRedemption, SelectReward, SelectPending,
           SelectContributions, SelectLedger, SelectBalance
  <1>2. /\ UNCHANGED tables /\ UNCHANGED request
        /\ \A s \in Threads \ {t} : pc'[s] = pc[s] /\ request'[s] = request[s] /\ seen'[s] = seen[s]
    BY <1>1 DEF Advance, SelectRedemption, SelectReward, SelectPending,
                SelectContributions, SelectLedger, SelectBalance
  <1>3. \A x \in Wanted(t) : owner[x] \in {None, t}
    BY <1>1 DEF CanRun
  <1>4. IsReview(t)' = IsReview(t) /\ Takes(t)' = Takes(t)
    BY <1>2 DEF IsReview, Takes
  <1>5. CASE SelectRedemption(t)
    <2>1. /\ pc'[t] = "reward" /\ IsReview(t)
          /\ seen'[t].status = redemption[request[t].redemption].status
          /\ Lock(t, {request[t].redemption}) /\ Wanted(t) = {request[t].redemption}
          /\ request[t].redemption \in Lockable
      BY <1>1, <1>5, Roles DEF SelectRedemption, Advance, Local, Wanted, Lockable, Seen
    <2>2. Held(t)' /\ OthersKeepLocks(t)
      BY <1>2, <1>3, <2>1, LockKeeps DEF Held, HoldsRedemption, HoldsReward
    <2>3. Current(t)' /\ ~HoldsReward(t)'
      BY <1>2, <1>4, <2>1, Roles DEF Current, HoldsReward, tables
    <2> QED
      BY <1>1, <1>2, <2>2, <2>3, ReadOnlySafe
  <1>6. CASE SelectReward(t)
    <2>1. /\ pc[t] = "reward"
          /\ pc'[t] = IF IsReview(t) THEN "contributions" ELSE "pending"
          /\ Lock(t, {request[t].reward}) /\ Wanted(t) = {request[t].reward}
          /\ ~RefusedReward(t)
      BY <1>1, <1>6 DEF SelectReward, Advance, Wanted
    <2>2. request[t] \in Request /\ request[t].reward \in Rewards
      BY <1>1, <2>1, ThreadTypes, RequestFields
    <2>3. Held(t)' /\ OthersKeepLocks(t)
      <3>1. IsReview(t) => owner[request[t].redemption] = t /\ request[t].redemption \in Lockable
        BY <1>1, <2>1, Roles DEF Held, HoldsRedemption, Lockable
      <3>2. OthersKeepLocks(t) /\ owner'[request[t].reward] = t
        BY <1>3, <2>1, <2>2, LockKeeps DEF Lockable
      <3>3. IsReview(t) => owner'[request[t].redemption] = t
        BY <1>3, <2>1, <3>1, LockKeeps
      <3> QED
        BY <1>2, <1>4, <2>1, <3>2, <3>3 DEF Held, HoldsRedemption, HoldsReward
    <2>4. Current(t)'
      <3>1. ~Edits(t)' \/ ~IsReview(t)
        BY <1>1, <1>2, Roles DEF Edits, IsReview
      <3>2. ~Takes(t) \/ ~IsReview(t)
        BY <1>1, Roles
      <3>3. IsReview(t) => /\ redemption'[request[t].redemption].status = "pending"
                           /\ request[t].decision # "pending"
        BY <1>1, <1>2, <2>1 DEF Current, RefusedReward, tables
      <3> QED
        BY <1>2, <1>4, <2>1, <3>1, <3>2, <3>3 DEF Current, HoldsReward
    <2>5. reward[request'[t].reward].status # "unborn"
      BY <1>2, <2>1 DEF RefusedReward
    <2> QED
      BY <1>1, <1>2, <2>3, <2>4, <2>5, ReadOnlySafe
  <1>7. ASSUME SelectPending(t) \/ SelectContributions(t) \/ SelectLedger(t) \/ SelectBalance(t)
        PROVE  HoldsReward(t) /\ reward[request'[t].reward].status # "unborn"
    BY <1>1, <1>2, <1>7
       DEF HoldsReward, Born, SelectPending, SelectContributions, SelectLedger, SelectBalance
  <1>8. CASE SelectPending(t)
    <2>1. /\ pc[t] = "pending" /\ pc'[t] = "contributions" /\ UNCHANGED owner
          /\ seen'[t] = seen[t] /\ ~RefusedPending(t) /\ ~IsReview(t)
      BY <1>1, <1>8 DEF SelectPending, Advance, Local
    <2>2. Held(t)' /\ OthersKeepLocks(t)
      BY <1>1, <1>2, <1>4, <2>1
         DEF Held, HoldsReward, HoldsRedemption, Spends, OthersKeepLocks
    <2>3. Takes(t) \/ Edits(t) => PendingOf(request[t].reward) = {}
      BY <2>1 DEF RefusedPending, Edits, PendingOf, RequestedBefore
    <2>4. Edits(t)' = Edits(t)
      BY <1>2, <2>1 DEF Edits, Changes
    <2>5. Current(t)'
      BY <1>2, <1>4, <2>1, <2>3, <2>4, SameTables DEF Current
    <2> QED
      BY <1>1, <1>2, <1>7, <1>8, <2>2, <2>5, ReadOnlySafe
  <1>9. CASE SelectContributions(t)
    <2>1. /\ pc[t] = "contributions" /\ UNCHANGED owner /\ ~RefusedContributions(t)
          /\ pc'[t] = IF IsReview(t) THEN "ledger" ELSE IF Takes(t) THEN "user" ELSE "write"
          /\ seen'[t].reward = seen[t].reward
          /\ IsReview(t) => seen'[t].contributions = LinkedTo(request[t].redemption)
      BY <1>1, <1>9 DEF SelectContributions, Advance, Seen
    <2>2. Held(t)' /\ OthersKeepLocks(t)
      BY <1>1, <1>2, <1>4, <2>1
         DEF Held, HoldsReward, HoldsRedemption, Spends, OthersKeepLocks
    <2>3. Edits(t)' = Edits(t)
      BY <1>2, <2>1 DEF Edits, Changes
    <2>4. Edits(t) => ActiveOf(request[t].reward) = {}
      BY <2>1 DEF RefusedContributions, Edits, ActiveOf, ContributedBefore
    <2>5. pc'[t] = "write" => ~Spends(t)'
      BY <1>4, <2>1 DEF Spends
    <2>6. Current(t)'
      BY <1>1, <1>2, <1>4, <2>1, <2>3, <2>4, <2>5, SameTables DEF Current, HoldsReward, tables
    <2> QED
      BY <1>1, <1>2, <1>7, <1>9, <2>2, <2>6, ReadOnlySafe
  <1>10. CASE SelectLedger(t)
    <2>1. /\ pc[t] = "ledger" /\ UNCHANGED owner /\ IsReview(t)
          /\ pc'[t] \in {"user", "write"}
          /\ seen'[t].contributions = seen[t].contributions
          /\ seen'[t].reserved = ReservedPoints(request[t].redemption)
          /\ pc'[t] = "write" => ~(/\ request[t].decision = "approved"
                                   /\ seen'[t].contributions = {}
                                   /\ seen'[t].reward.cost > seen'[t].reserved)
      BY <1>1, <1>10 DEF SelectLedger, Advance, Seen, Local
    <2>2. ~Takes(t)' /\ ~Edits(t)'
      BY <1>1, <1>2, <1>4, <2>1, Roles DEF Edits, IsReview
    <2>3. pc'[t] = "write" => ~Spends(t)'
      BY <1>2, <2>1, <2>2 DEF Spends
    <2>4. Held(t)' /\ OthersKeepLocks(t)
      BY <1>1, <1>2, <1>4, <2>1, <2>3
         DEF Held, HoldsReward, HoldsRedemption, OthersKeepLocks
    <2>5. Current(t)'
      BY <1>1, <1>2, <1>4, <2>1, <2>2, <2>3, SameTables DEF Current, HoldsReward, tables
    <2> QED
      BY <1>1, <1>2, <1>7, <1>10, <2>4, <2>5, ReadOnlySafe
  <1>11. CASE SelectBalance(t)
    <2>1. /\ pc[t] = "user" /\ pc'[t] = "write" /\ seen'[t] = seen[t] /\ Spends(t)
          /\ Lock(t, {request[t].child}) /\ Wanted(t) = {request[t].child}
          /\ Needed(t) <= Balance(request[t].child)
          /\ request[t].child \in Children
      BY <1>1, <1>11, Roles DEF SelectBalance, Advance, Local, RefusedUser, Wanted
    <2>2. /\ Spends(t)' = Spends(t) /\ Needed(t)' = Needed(t) /\ Edits(t)' = Edits(t)
          /\ Balance(request[t].child)' = Balance(request[t].child)
      BY <1>2, <2>1, SameTables
         DEF Spends, Needed, Missing, Edits, Changes, IsReview, Takes
    <2>3. /\ OthersKeepLocks(t) /\ owner'[request[t].child] = t
          /\ \A x \in Lockable : owner[x] = t => owner'[x] = t
      BY <1>3, <2>1, LockKeeps DEF Lockable
    <2>4. Held(t)'
      BY <1>1, <1>2, <1>4, <2>1, <2>3, Roles
         DEF Held, HoldsReward, HoldsRedemption, Lockable
    <2>5. ~Edits(t)'
      BY <1>1, <2>1, <2>2, Roles DEF Spends
    <2>6. Current(t)'
      BY <1>1, <1>2, <1>4, <2>1, <2>2, <2>5, SameTables DEF Current, HoldsReward, tables
    <2> QED
      BY <1>1, <1>2, <1>7, <1>11, <2>3, <2>4, <2>6, ReadOnlySafe
  <1> QED
    BY <1>5, <1>6, <1>8, <1>9, <1>10, <1>11

-----------------------------------------------------------------------------
(* Commits *)

LEMMA BalanceKept ==
  ASSUME NEW u, SourcesOf(u)' = SourcesOf(u), granted'[u] = granted[u],
         \A x \in SourcesOf(u) : charged'[x] = charged[x]
  PROVE  Balance(u)' = Balance(u)
  <1>1. [x \in SourcesOf(u) |-> charged[x]]' = [x \in SourcesOf(u) |-> charged[x]]
    OBVIOUS
  <1> QED
    BY <1>1 DEF Balance

Committing(t) == pc[t] = "write" /\ CanRun(t) /\ End(t)

LEMMA CommitSafe ==
  ASSUME RowLocks, Safe, NEW t \in Threads, Committing(t), Confined(t), WellFormed',
         LedgerSettled', AtMostOnePending',
         \A w \in Rewards : reward[w].status # "unborn" => reward'[w].status # "unborn",
         \A r \in Redemptions : redemption[r].status = "none" /\ redemption'[r].status # "none" =>
           redemption'[r].reward = request[t].reward,
         \A r \in Redemptions : redemption[r].status # "none" =>
           redemption'[r].reward = redemption[r].reward,
         \A c \in Contributions : contribution[c].status # "none" =>
           contribution'[c].reward = contribution[c].reward,
         \A c \in Contributions : contribution[c].status = "none" /\ contribution'[c].status # "none" =>
           contribution'[c].reward = request[t].reward
  PROVE  Safe'
  <1>1. /\ WellFormed /\ Held(t) /\ Current(t) /\ Born
        /\ HoldsReward(t) /\ request[t].reward \in Rewards
        /\ owner[request[t].reward] = t
        /\ reward[request[t].reward].status # "unborn"
    BY Roles DEF Safe, Committing, HoldsReward, Held, Born
  <1>2. /\ End(t) /\ \A s \in Threads \ {t} : pc'[s] = pc[s] /\ request'[s] = request[s] /\ seen'[s] = seen[s]
        /\ ~HoldsReward(t)'
    BY <1>1 DEF Committing, End, WellFormed, TypeOK, HoldsReward
  <1>3. \A x \in Touched(t) : owner[x] \in {None, t}
    BY DEF Committing, CanRun, Wanted
  <1>4. ASSUME NEW s \in Threads \ {t} PROVE Held(s)' /\ Current(s)'
    <2>1. \A u \in Children : owner[u] = s => Balance(u)' = Balance(u)
      BY <1>3, Idle DEF Confined
    <2> QED
      BY <1>1, <1>2, <2>1, EndKeeps, OthersCurrent DEF Confined, OthersKeepLocks
  <1>5. Born'
    <2>1. ASSUME NEW r \in Redemptions, redemption'[r].status # "none"
          PROVE  reward'[redemption'[r].reward].status # "unborn"
      <3>1. CASE redemption[r].status = "none"
        BY <1>1, <2>1, <3>1
      <3>2. CASE redemption[r].status # "none"
        <4>1. redemption[r].reward \in Rewards
          BY <1>1, <3>2 DEF WellFormed, RowsKnown
        <4>2. redemption'[r].reward = redemption[r].reward
          BY <3>2
        <4> QED
          BY <1>1, <3>2, <4>1, <4>2 DEF Born
      <3> QED
        BY <3>1, <3>2
    <2>2. ASSUME NEW c \in Contributions, contribution'[c].status # "none"
          PROVE  reward'[contribution'[c].reward].status # "unborn"
      BY <1>1, <2>2 DEF Born, WellFormed, RowsKnown
    <2>3. ASSUME NEW s \in Threads, HoldsReward(s)'
          PROVE  reward'[request'[s].reward].status # "unborn"
      <3>1. s # t /\ HoldsReward(s)
        BY <1>2, <2>3 DEF HoldsReward
      <3> QED
        BY <1>1, <1>2, <3>1, Roles DEF Born
    <2> QED
      BY <2>1, <2>2, <2>3 DEF Born
  <1> QED
    BY <1>1, <1>2, <1>4, <1>5, EndCurrent DEF Safe

(* What a thread at its commit knows. *)
LEMMA AtCommit ==
  ASSUME RowLocks, Safe, NEW t \in Threads, NEW op, Writes(t, op)
  PROVE  /\ Committing(t) /\ WellFormed /\ HoldsReward(t) /\ request[t] \in Request
         /\ request[t].reward \in Rewards
         /\ Takes(t) => PendingOf(request[t].reward) = {}
         /\ Edits(t) => PendingOf(request[t].reward) = {} /\ ActiveOf(request[t].reward) = {}
         /\ IsReview(t) => /\ owner[request[t].redemption] = t
                           /\ request[t].redemption \in Redemptions
                           /\ redemption[request[t].redemption].status = "pending"
                           /\ redemption[request[t].redemption].reward = request[t].reward
                           /\ redemption[request[t].redemption].by = request[t].child
                           /\ seen[t].contributions = LinkedTo(request[t].redemption)
                           /\ seen[t].reserved = ReservedPoints(request[t].redemption)
         /\ Spends(t) => Needed(t) <= Balance(request[t].child)
  <1>1. /\ WellFormed /\ Held(t) /\ Current(t) /\ Local(t) /\ HoldsReward(t) /\ pc[t] = "write"
        /\ Committing(t)
    BY DEF Safe, WellFormed, Writes, Committing, HoldsReward
  <1>2. request[t] \in Request /\ request[t].reward \in Rewards
    BY <1>1, ThreadTypes, Roles
  <1>3. IsReview(t) => owner[request[t].redemption] = t /\ request[t].redemption \in Redemptions
    BY <1>1, Roles DEF Held, HoldsRedemption
  <1> QED
    BY <1>1, <1>2, <1>3 DEF Current, Local

(* The rows a commit may insert are blank. *)
LEMMA FreshRows ==
  ASSUME Safe
  PROVE  /\ \A r \in Redemptions : redemption[r].status = "none" =>
              redemption[r] = NoRedemption /\ charged[r] = 0 /\ r \notin Contributions
         /\ \A c \in Contributions : contribution[c].status = "none" =>
              contribution[c] = NoContribution /\ charged[c] = 0 /\ c \notin Redemptions
  BY Idle DEF Safe, WellFormed, RowsKnown, LedgerSettled

LEMMA SourcesKept ==
  ASSUME NEW u,
         \A c \in Contributions : (contribution'[c].by = u) = (contribution[c].by = u),
         \A r \in Redemptions : (redemption'[r].by = u) = (redemption[r].by = u)
  PROVE  SourcesOf(u)' = SourcesOf(u)
  BY DEF SourcesOf

LEMMA ContributeSafe ==
  ASSUME RowLocks, Safe, NEW t \in Threads, Contribute(t)
  PROVE  Safe'
  <1> DEFINE q == request[t]
  <1>1. /\ Committing(t) /\ WellFormed /\ TypeOK /\ q \in Request /\ q.op = "contribute"
        /\ q.points \in Points /\ q.points \in Nat /\ Touched(t) = {q.child} /\ q.child \in Children
    BY AtCommit, RequestFields, PointsNat DEF Contribute, Writes, WellFormed, Touched
  <1>2. PICK c \in Contributions :
           /\ contribution[c].status = "none"
           /\ contribution' = [contribution EXCEPT ![c] = NewContribution(t, "reserved", None)]
           /\ charged' = [charged EXCEPT ![c] = q.points]
           /\ UNCHANGED <<reward, redemption, granted>>
    BY DEF Contribute, FreeContributions
  <1>3. /\ contribution'[c] = NewContribution(t, "reserved", None)
        /\ contribution[c] = NoContribution /\ c \notin Redemptions
        /\ \A x \in Contributions \ {c} : contribution'[x] = contribution[x]
        /\ charged'[c] = q.points
        /\ \A x \in Sources \ {c} : charged'[x] = charged[x]
        /\ DOMAIN contribution' = Contributions
    BY <1>1, <1>2, FreshRows DEF TypeOK, Sources
  <1>4. Confined(t)
    <2>1. \A w \in Rewards \ {q.reward} : PendingOf(w)' = PendingOf(w) /\ ActiveOf(w)' = ActiveOf(w)
      BY <1>2, <1>3 DEF PendingOf, ActiveOf, NewContribution, NoContribution
    <2>2. \A r \in Redemptions : LinkedTo(r)' = LinkedTo(r) /\ charged'[r] = charged[r]
      BY <1>2, <1>3, Idle DEF LinkedTo, NewContribution, NoContribution, Sources
    <2>3. ASSUME NEW u \in Children \ {q.child} PROVE Balance(u)' = Balance(u)
      <3>1. SourcesOf(u)' = SourcesOf(u) /\ c \notin SourcesOf(u) /\ SourcesOf(u) \subseteq Sources
        BY <1>2, <1>3, <2>3, Idle DEF SourcesOf, NewContribution, NoContribution, Sources
      <3> QED
        BY <1>2, <1>3, <3>1, BalanceKept
    <2> QED
      BY <1>1, <1>2, <2>1, <2>2, <2>3 DEF Confined
  <1>5. LedgerSettled'
    <2>1. LedgerSettled /\ Sources = Contributions \union Redemptions
      BY DEF Safe, Sources
    <2> QED
      BY <1>2, <1>3, <2>1 DEF LedgerSettled, NewContribution
  <1>6. AtMostOnePending'
    BY <1>2 DEF Safe, AtMostOnePending
  <1>7. WellFormed'
    BY <1>1, CommitWellFormed
  <1> QED
    BY <1>1, <1>2, <1>3, <1>4, <1>5, <1>6, <1>7, CommitSafe DEF NewContribution

LEMMA ContributeAndRequestSafe ==
  ASSUME RowLocks, Safe, NEW t \in Threads, ContributeAndRequest(t)
  PROVE  Safe'
  <1> DEFINE q == request[t]
             Joins(x) == /\ contribution[x].reward = q.reward
                         /\ contribution[x].status = "reserved"
                         /\ contribution[x].redemption = None
  <1>1. /\ Committing(t) /\ WellFormed /\ TypeOK /\ q \in Request /\ q.op = "contribute"
        /\ q.points \in Points /\ q.points \in Nat /\ Touched(t) = {q.child} /\ q.child \in Children
        /\ PendingOf(q.reward) = {}
    BY AtCommit, RequestFields, PointsNat DEF ContributeAndRequest, Writes, WellFormed, Touched, Takes
  <1>2. PICK c \in Contributions, r \in Redemptions :
           /\ contribution[c].status = "none" /\ redemption[r].status = "none"
           /\ contribution' =
                [x \in Contributions |->
                   IF x = c THEN NewContribution(t, "submitted", r)
                   ELSE IF Joins(x)
                        THEN [contribution[x] EXCEPT !.status = "submitted", !.redemption = r]
                        ELSE contribution[x]]
           /\ redemption' = [redemption EXCEPT ![r] = NewRedemption(t)]
           /\ charged' = [charged EXCEPT ![c] = q.points]
           /\ UNCHANGED <<reward, granted>>
    BY DEF ContributeAndRequest, FreeContributions, FreeRedemptions
  <1>3. /\ contribution'[c] = NewContribution(t, "submitted", r)
        /\ contribution[c] = NoContribution /\ c \notin Redemptions
        /\ redemption[r] = NoRedemption /\ r \notin Contributions
        /\ redemption'[r] = NewRedemption(t)
        /\ \A x \in Redemptions \ {r} : redemption'[x] = redemption[x]
        /\ charged'[c] = q.points
        /\ \A x \in Sources \ {c} : charged'[x] = charged[x]
    BY <1>1, <1>2, FreshRows DEF TypeOK, Sources
  <1>4. \A x \in Contributions \ {c} :
          /\ contribution'[x].by = contribution[x].by
          /\ contribution'[x].reward = contribution[x].reward
          /\ contribution'[x].points = contribution[x].points
          /\ ~Joins(x) => contribution'[x] = contribution[x]
          /\ Joins(x) => contribution'[x].status = "submitted" /\ contribution'[x].redemption = r
    BY <1>1, <1>2 DEF TypeOK, ContributionRow
  <1>5. Confined(t)
    <2>1. \A w \in Rewards \ {q.reward} : PendingOf(w)' = PendingOf(w) /\ ActiveOf(w)' = ActiveOf(w)
      BY <1>3, <1>4
         DEF PendingOf, ActiveOf, NewContribution, NoContribution, NewRedemption, NoRedemption
    <2>2. \A x \in Redemptions \ {r} : LinkedTo(x)' = LinkedTo(x) /\ charged'[x] = charged[x]
      BY <1>3, <1>4, Idle DEF LinkedTo, NewContribution, NoContribution, Sources
    <2>3. ASSUME NEW u \in Children \ {q.child} PROVE Balance(u)' = Balance(u)
      <3>1. SourcesOf(u)' = SourcesOf(u) /\ c \notin SourcesOf(u) /\ SourcesOf(u) \subseteq Sources
        BY <1>3, <1>4, <2>3, Idle
           DEF SourcesOf, NewContribution, NoContribution, NewRedemption, NoRedemption, Sources
      <3> QED
        BY <1>2, <1>3, <3>1, BalanceKept
    <2> QED
      BY <1>1, <1>2, <1>3, <2>1, <2>2, <2>3 DEF Confined
  <1>6. LedgerSettled'
    <2>1. LedgerSettled /\ Sources = Contributions \union Redemptions
      BY DEF Safe, Sources
    <2>2. /\ charged[r] = 0 /\ charged'[r] = 0
      BY <1>2, <1>3, <2>1, FreshRows
    <2> QED
      BY <1>3, <1>4, <2>1, <2>2 DEF LedgerSettled, NewContribution
  <1>7. AtMostOnePending'
    BY <1>1, <1>3 DEF Safe, AtMostOnePending, PendingOf, NewRedemption
  <1>8. WellFormed'
    BY <1>1, CommitWellFormed
  <1>9. /\ \A x \in Redemptions : redemption[x].status = "none" /\ redemption'[x].status # "none" =>
             redemption'[x].reward = q.reward
        /\ \A x \in Redemptions : redemption[x].status # "none" =>
             redemption'[x].reward = redemption[x].reward
    <2>1. redemption[r].status = "none" /\ redemption'[r].reward = q.reward
      <3>1. redemption[r].status = "none" /\ redemption'[r] = NewRedemption(t)
        BY <1>2, <1>3
      <3> QED
        BY <3>1 DEF NewRedemption
    <2>2. \A x \in Redemptions \ {r} : redemption'[x] = redemption[x]
      BY <1>3
    <2> QED
      BY <2>1, <2>2
  <1>10. /\ \A x \in Contributions : contribution[x].status # "none" =>
              contribution'[x].reward = contribution[x].reward
         /\ \A x \in Contributions : contribution[x].status = "none" /\ contribution'[x].status # "none" =>
              contribution'[x].reward = q.reward
    <2>1. contribution[c].status = "none" /\ contribution'[c].reward = q.reward
      <3>1. contribution[c].status = "none" /\ contribution'[c] = NewContribution(t, "submitted", r)
        BY <1>2, <1>3
      <3> QED
        BY <3>1 DEF NewContribution
    <2>2. \A x \in Contributions \ {c} :
            /\ contribution'[x].reward = contribution[x].reward
            /\ contribution[x].status = "none" => contribution'[x].status = "none"
      BY <1>4
    <2> QED
      BY <2>1, <2>2
  <1>11. reward' = reward
    BY <1>2
  <1> HIDE DEF Joins
  <1> QED
    BY <1>1, <1>5, <1>6, <1>7, <1>8, <1>9, <1>10, <1>11, CommitSafe

LEMMA RedeemSafe ==
  ASSUME RowLocks, Safe, NEW t \in Threads, Redeem(t)
  PROVE  Safe'
  <1> DEFINE q == request[t]
  <1>1. /\ Committing(t) /\ WellFormed /\ TypeOK /\ q \in Request /\ q.op = "redeem"
        /\ Touched(t) = {q.child} /\ q.child \in Children
        /\ PendingOf(q.reward) = {}
        /\ seen[t].reward.cost \in Nat
    BY AtCommit, RequestFields, ThreadTypes DEF Redeem, Writes, WellFormed, Touched, Takes, RewardValues
  <1>2. PICK r \in Redemptions :
           /\ redemption[r].status = "none"
           /\ redemption' = [redemption EXCEPT ![r] = NewRedemption(t)]
           /\ charged' = [charged EXCEPT ![r] = seen[t].reward.cost]
           /\ UNCHANGED <<reward, contribution, granted>>
    BY DEF Redeem, FreeRedemptions
  <1>3. /\ redemption[r] = NoRedemption /\ r \notin Contributions
        /\ redemption'[r] = NewRedemption(t)
        /\ \A x \in Redemptions \ {r} : redemption'[x] = redemption[x]
        /\ charged'[r] = seen[t].reward.cost
        /\ \A x \in Sources \ {r} : charged'[x] = charged[x]
    BY <1>1, <1>2, FreshRows DEF TypeOK, Sources
  <1>4. Confined(t)
    <2>1. \A w \in Rewards \ {q.reward} : PendingOf(w)' = PendingOf(w) /\ ActiveOf(w)' = ActiveOf(w)
      BY <1>2, <1>3 DEF PendingOf, ActiveOf, NewRedemption, NoRedemption
    <2>2. /\ \A x \in Redemptions : LinkedTo(x)' = LinkedTo(x)
          /\ \A x \in Redemptions \ {r} : charged'[x] = charged[x]
      BY <1>2, <1>3 DEF LinkedTo, Sources
    <2>3. ASSUME NEW u \in Children \ {q.child} PROVE Balance(u)' = Balance(u)
      <3>1. SourcesOf(u)' = SourcesOf(u) /\ r \notin SourcesOf(u) /\ SourcesOf(u) \subseteq Sources
        BY <1>2, <1>3, <2>3, Idle DEF SourcesOf, NewRedemption, NoRedemption, Sources
      <3> QED
        BY <1>2, <1>3, <3>1, BalanceKept
    <2> QED
      BY <1>1, <1>2, <1>3, <2>1, <2>2, <2>3 DEF Confined
  <1>5. LedgerSettled'
    <2>1. LedgerSettled /\ Sources = Contributions \union Redemptions
      BY DEF Safe, Sources
    <2> QED
      BY <1>1, <1>2, <1>3, <2>1 DEF LedgerSettled, NewRedemption
  <1>6. AtMostOnePending'
    BY <1>1, <1>3 DEF Safe, AtMostOnePending, PendingOf, NewRedemption
  <1>7. WellFormed'
    BY <1>1, CommitWellFormed
  <1> QED
    BY <1>1, <1>2, <1>3, <1>4, <1>5, <1>6, <1>7, CommitSafe DEF NewRedemption

(* A review settles its own redemption and the contributions linked to it. *)
LEMMA ReviewSafe ==
  ASSUME RowLocks, Safe, NEW t \in Threads, Approve(t) \/ Reject(t)
  PROVE  Safe'
  <1> DEFINE r == request[t].redemption
             linked == seen[t].contributions
  <1>1. /\ Committing(t) /\ WellFormed /\ TypeOK /\ request[t] \in Request /\ IsReview(t)
        /\ owner[r] = t /\ r \in Redemptions /\ redemption[r].status = "pending"
        /\ redemption[r].by = request[t].child
        /\ linked = LinkedTo(r) /\ seen[t].reserved = ReservedPoints(r)
        /\ seen[t].reserved \in Nat /\ seen[t].reward \in RewardValues
    BY AtCommit, ThreadTypes DEF Approve, Reject, Writes, WellFormed, IsReview
  <1>2. /\ linked \subseteq Contributions /\ r \notin Contributions
        /\ \A c \in linked : /\ contribution[c].status \in {"reserved", "submitted"}
                             /\ contribution[c].redemption = r
                             /\ charged[c] = contribution[c].points
        /\ charged[r] \in Int /\ charged[r] >= 0
        /\ seen[t].reserved = charged[r]
    <2>1. charged[r] \in Int /\ charged[r] >= 0
      BY <1>1 DEF TypeOK, Sources, Safe, LedgerSettled
    <2>2. seen[t].reserved = charged[r]
      BY <1>1, <2>1 DEF ReservedPoints
    <2>3. /\ linked \subseteq Contributions /\ r \notin Contributions
          /\ \A c \in linked : /\ contribution[c].status \in {"reserved", "submitted"}
                               /\ contribution[c].redemption = r
      BY <1>1, Idle DEF LinkedTo
    <2>4. \A c \in linked : charged[c] = contribution[c].points
      BY <2>3 DEF Safe, LedgerSettled
    <2> QED
      BY <2>1, <2>2, <2>3, <2>4
  <1>3. Missing(t) \in Nat
    BY <1>1 DEF Missing, RewardValues
  <1>4. PICK done \in {"consumed", "released"}, decided \in {"approved", "rejected"} :
          /\ contribution' = [c \in Contributions |->
                                IF c \in linked THEN [contribution[c] EXCEPT !.status = done]
                                ELSE contribution[c]]
          /\ redemption' = [redemption EXCEPT ![r].status = decided]
          /\ UNCHANGED <<reward, granted>>
          /\ (done = "released") = (decided = "rejected")
          /\ done = "consumed" => /\ request[t].decision = "approved"
                                  /\ charged' = IF linked = {} THEN [charged EXCEPT ![r] = @ + Missing(t)]
                                                ELSE charged
          /\ done = "released" => /\ request[t].decision = "rejected"
                                  /\ charged' = [x \in Sources |->
                                       IF x = r THEN charged[x] - seen[t].reserved
                                       ELSE IF x \in linked THEN charged[x] - contribution[x].points
                                       ELSE charged[x]]
    <2>1. CASE Approve(t)
      <3> WITNESS "consumed" \in {"consumed", "released"}, "approved" \in {"approved", "rejected"}
      <3> QED
        BY <2>1 DEF Approve
    <2>2. CASE Reject(t)
      <3> WITNESS "released" \in {"consumed", "released"}, "rejected" \in {"approved", "rejected"}
      <3> QED
        BY <2>2 DEF Reject
    <2> QED
      BY <2>1, <2>2
  <1>5. /\ redemption'[r].status = decided
        /\ \A x \in Redemptions \ {r} : redemption'[x] = redemption[x]
        /\ redemption'[r].reward = redemption[r].reward /\ redemption'[r].by = redemption[r].by
    BY <1>1, <1>4 DEF TypeOK, RedemptionRow
  <1>6. /\ \A c \in linked : contribution'[c].status = done
        /\ \A c \in Contributions \ linked : contribution'[c] = contribution[c]
        /\ \A c \in Contributions : /\ contribution'[c].reward = contribution[c].reward
                                    /\ contribution'[c].by = contribution[c].by
                                    /\ contribution'[c].points = contribution[c].points
                                    /\ contribution'[c].redemption = contribution[c].redemption
    BY <1>1, <1>2, <1>4 DEF TypeOK, ContributionRow
  <1>7. /\ done = "consumed" => /\ charged'[r] \in {charged[r], charged[r] + Missing(t)}
                                /\ \A x \in Sources \ {r} : charged'[x] = charged[x]
        /\ done = "released" => /\ charged'[r] = 0
                                /\ \A c \in linked : charged'[c] = 0
                                /\ \A x \in Sources \ (linked \union {r}) : charged'[x] = charged[x]
    <2>1. r \in Sources /\ linked \subseteq Sources /\ r \notin linked
      BY <1>1, <1>2 DEF Sources
    <2>2. done = "consumed" => /\ charged'[r] \in {charged[r], charged[r] + Missing(t)}
                               /\ \A x \in Sources \ {r} : charged'[x] = charged[x]
      BY <1>1, <1>4, <2>1 DEF TypeOK
    <2>3. \A c \in linked : contribution[c].points \in Int
      BY <1>1, <1>2, PointsNat DEF TypeOK, ContributionRow
    <2>4. done = "released" => /\ charged'[r] = 0
                               /\ \A c \in linked : charged'[c] = 0
                               /\ \A x \in Sources \ (linked \union {r}) : charged'[x] = charged[x]
      BY <1>2, <1>4, <2>1, <2>3
    <2> QED
      BY <2>2, <2>4
  <1>8. Confined(t)
    <2>1. \A w \in Rewards : PendingOf(w)' \subseteq PendingOf(w) /\ ActiveOf(w)' \subseteq ActiveOf(w)
      BY <1>5, <1>6 DEF PendingOf, ActiveOf
    <2>2. ASSUME NEW x \in Redemptions \ {r}
          PROVE  LinkedTo(x)' = LinkedTo(x) /\ charged'[x] = charged[x]
      <3>1. x \notin linked /\ x \in Sources
        BY <1>2, Idle DEF Sources
      <3>2. charged'[x] = charged[x]
        BY <1>4, <1>7, <3>1
      <3>3. \A c \in Contributions :
              (c \in linked => contribution[c].redemption # x /\ contribution'[c].redemption # x)
        BY <1>2, <1>6
      <3> QED
        BY <1>6, <3>2, <3>3 DEF LinkedTo
    <2>3. ASSUME NEW u \in Children \ Touched(t) PROVE Balance(u)' = Balance(u)
      <3>1. SourcesOf(u)' = SourcesOf(u) /\ SourcesOf(u) \subseteq Sources
        BY <1>5, <1>6 DEF SourcesOf, Sources
      <3>2. CASE done = "consumed"
        <4>1. Touched(t) = {request[t].child}
          BY <1>1, <1>4, <3>2 DEF Touched, IsReview
        <4>2. r \notin SourcesOf(u)
          BY <1>1, <1>2, <2>3, <4>1, Idle DEF SourcesOf
        <4> QED
          BY <1>4, <1>7, <3>1, <3>2, <4>2, BalanceKept
      <3>3. CASE done = "released"
        <4>1. Touched(t) = {contribution[c].by : c \in linked}
                           \union (IF seen[t].reserved > 0 THEN {request[t].child} ELSE {})
          BY <1>1, <1>4, <3>3 DEF Touched, IsReview
        <4>2. \A c \in linked : c \notin SourcesOf(u)
          BY <1>2, <2>3, <4>1, Idle DEF SourcesOf
        <4>3. r \in SourcesOf(u) => charged[r] = 0
          BY <1>1, <1>2, <2>3, <4>1 DEF SourcesOf
        <4>4. \A x \in SourcesOf(u) : charged'[x] = charged[x]
          BY <1>7, <3>1, <3>3, <4>2, <4>3
        <4> QED
          BY <1>4, <3>1, <4>4, BalanceKept
      <3> QED
        BY <3>2, <3>3
    <2>4. owner[r] = t
      BY <1>1
    <2> QED
      BY <1>5, <2>1, <2>2, <2>3, <2>4 DEF Confined
  <1>9. LedgerSettled'
    <2>1. LedgerSettled /\ Sources = Contributions \union Redemptions
      BY DEF Safe, Sources
    <2>2. ASSUME NEW c \in Contributions
          PROVE  charged'[c] = IF contribution'[c].status \in {"reserved", "submitted", "consumed"}
                               THEN contribution'[c].points ELSE 0
      <3>1. c # r /\ c \in Sources
        BY <1>2, <2>1
      <3>2. charged[c] = IF contribution[c].status \in {"reserved", "submitted", "consumed"}
                         THEN contribution[c].points ELSE 0
        BY <2>1 DEF LedgerSettled
      <3>3. CASE c \in linked
        BY <1>2, <1>4, <1>6, <1>7, <3>1, <3>3
      <3>4. CASE c \notin linked
        BY <1>4, <1>6, <1>7, <3>1, <3>2, <3>4
      <3> QED
        BY <3>3, <3>4
    <2>3. ASSUME NEW x \in Redemptions
          PROVE  charged'[x] >= 0 /\ (redemption'[x].status \in {"none", "rejected"} => charged'[x] = 0)
      <3>1. x \in Sources /\ x \notin linked
        BY <1>2, <2>1, Idle
      <3>2. CASE x = r
        BY <1>2, <1>3, <1>4, <1>5, <1>7, <3>2
      <3>3. CASE x # r
        <4>1. charged'[x] = charged[x] /\ redemption'[x] = redemption[x]
          BY <1>4, <1>5, <1>7, <3>1, <3>3
        <4> QED
          BY <2>1, <4>1 DEF LedgerSettled
      <3> QED
        BY <3>2, <3>3
    <2> QED
      BY <2>2, <2>3 DEF LedgerSettled
  <1>10. AtMostOnePending'
    BY <1>5 DEF Safe, AtMostOnePending
  <1>11. WellFormed'
    BY <1>1, CommitWellFormed
  <1>12. reward' = reward
    BY <1>4
  <1>13. /\ \A x \in Redemptions : redemption'[x].reward = redemption[x].reward
         /\ \A x \in Redemptions : redemption[x].status = "none" => redemption'[x].status = "none"
    BY <1>1, <1>5
  <1>14. \A x \in Contributions : contribution[x].status = "none" => contribution'[x].status = "none"
    BY <1>2, <1>6
  <1> QED
    BY <1>1, <1>6, <1>8, <1>9, <1>10, <1>11, <1>12, <1>13, <1>14, CommitSafe

LEMMA EditSafe ==
  ASSUME RowLocks, Safe, NEW t \in Threads, Update(t) \/ Delete(t)
  PROVE  Safe'
  <1>1. /\ Committing(t) /\ WellFormed /\ Touched(t) = {}
        /\ request[t] \in Request /\ request[t].reward \in Rewards
    BY AtCommit DEF Update, Delete, Writes, Touched
  <1>2. UNCHANGED <<redemption, contribution, charged, granted>>
    BY DEF Update, Delete
  <1>3. /\ \A w : PendingOf(w)' = PendingOf(w) /\ ActiveOf(w)' = ActiveOf(w)
        /\ \A r : LinkedTo(r)' = LinkedTo(r)
        /\ \A u : Balance(u)' = Balance(u)
        /\ LedgerSettled' = LedgerSettled
        /\ AtMostOnePending' = AtMostOnePending
    BY <1>2 DEF PendingOf, ActiveOf, LinkedTo, Balance, SourcesOf, LedgerSettled, AtMostOnePending
  <1>4. Confined(t)
    BY <1>2, <1>3 DEF Confined
  <1>5. \A w \in Rewards : reward[w].status # "unborn" => reward'[w].status # "unborn"
    BY <1>1 DEF Update, Delete, WellFormed, TypeOK, RewardRow
  <1>6. WellFormed'
    BY <1>1, CommitWellFormed
  <1>7. LedgerSettled' /\ AtMostOnePending'
    BY <1>3 DEF Safe
  <1> QED
    BY <1>1, <1>2, <1>4, <1>5, <1>6, <1>7, CommitSafe

LEMMA CreateSafe ==
  ASSUME Safe, NEW w \in Rewards, Create(w)
  PROVE  Safe'
  <1>1. UNCHANGED <<redemption, contribution, charged, granted, owner, pc, request, seen>>
    BY DEF Create
  <1>2. /\ \A x : PendingOf(x)' = PendingOf(x) /\ ActiveOf(x)' = ActiveOf(x)
        /\ \A r : LinkedTo(r)' = LinkedTo(r)
        /\ \A u : Balance(u)' = Balance(u)
        /\ LedgerSettled' = LedgerSettled
        /\ AtMostOnePending' = AtMostOnePending
    BY <1>1 DEF PendingOf, ActiveOf, LinkedTo, Balance, SourcesOf, LedgerSettled, AtMostOnePending
  <1>3. \A s \in Threads : Held(s)' /\ Current(s)'
    BY <1>1, <1>2, OthersCurrent
  <1>4. WellFormed'
    BY TableWellFormed DEF Safe
  <1>5. \A x \in Rewards : reward[x].status # "unborn" => reward'[x].status # "unborn"
    BY DEF Create, Safe, WellFormed, TypeOK
  <1>6. Born'
    <2>1. \A s \in Threads : HoldsReward(s)' = HoldsReward(s)
      BY <1>1 DEF HoldsReward
    <2> QED
      BY <1>1, <1>5, <2>1, Roles DEF Safe, WellFormed, RowsKnown, Born
  <1> QED
    BY <1>2, <1>3, <1>4, <1>6 DEF Safe

LEMMA AdjustSafe ==
  ASSUME Safe, NEW u \in Children, Adjust(u)
  PROVE  Safe'
  <1>1. /\ UNCHANGED <<reward, redemption, contribution, charged, owner, pc, request, seen>>
        /\ owner[u] = None
        /\ \A v \in Children \ {u} : granted'[v] = granted[v]
    BY DEF Adjust, Safe, WellFormed, TypeOK
  <1>2. /\ \A x : PendingOf(x)' = PendingOf(x) /\ ActiveOf(x)' = ActiveOf(x)
        /\ \A r : LinkedTo(r)' = LinkedTo(r)
        /\ LedgerSettled' = LedgerSettled
        /\ AtMostOnePending' = AtMostOnePending
    BY <1>1 DEF PendingOf, ActiveOf, LinkedTo, LedgerSettled, AtMostOnePending
  <1>3. \A v \in Children \ {u} : Balance(v)' = Balance(v)
    BY <1>1 DEF Balance, SourcesOf
  <1>4. \A s \in Threads : \A v \in Children : owner[v] = s => Balance(v)' = Balance(v)
    BY <1>1, <1>3, Idle
  <1>5. \A s \in Threads : Held(s)' /\ Current(s)'
    BY <1>1, <1>2, <1>4, OthersCurrent
  <1>6. WellFormed'
    BY TableWellFormed DEF Safe
  <1>7. Born'
    BY <1>1 DEF Safe, Born, HoldsReward
  <1> QED
    BY <1>2, <1>5, <1>6, <1>7 DEF Safe

-----------------------------------------------------------------------------

LEMMA NextSafe == ASSUME RowLocks PROVE Safe /\ [Next]_vars => Safe'
  <1> SUFFICES ASSUME Safe, [Next]_vars PROVE Safe'
    OBVIOUS
  <1>1. CASE UNCHANGED vars
    <2>1. UNCHANGED tables /\ UNCHANGED owner /\ UNCHANGED pc /\ UNCHANGED request /\ UNCHANGED seen
      BY <1>1 DEF vars, tables
    <2>2. \A s \in Threads : Held(s)' /\ Current(s)'
      BY <2>1, SameTables, OthersCurrent DEF tables
    <2>3. WellFormed'
      BY NextWellFormed DEF Safe
    <2>4. Born'
      BY <2>1 DEF Safe, Born, HoldsReward, tables
    <2> QED
      BY <2>1, <2>2, <2>3, <2>4, SameTables DEF Safe
  <1>2. ASSUME NEW t \in Threads, Arrive(t) \/ Statement(t) \/ AbortDeadlocked(t)
        PROVE  Safe'
    BY <1>2, ArriveSafe, SelectSafe, RollbackSafe, ContributeSafe, ContributeAndRequestSafe,
       RedeemSafe, ReviewSafe, EditSafe DEF Statement
  <1> QED
    BY <1>1, <1>2, CreateSafe, AdjustSafe DEF Next

(* The inductive invariant holds on a database that locks rows. *)
THEOREM SafeAlways == ASSUME RowLocks PROVE Spec => []Safe
  BY InitSafe, NextSafe, PTL DEF Spec

(* contribute_reward and redeem_reward never leave two open requests for   *)
(* one reward.                                                             *)
THEOREM OnePending == ASSUME RowLocks PROVE Spec => []AtMostOnePending
  <1>1. Safe => AtMostOnePending
    BY DEF Safe
  <1> QED
    BY <1>1, SafeAlways, PTL

(* The ledger agrees with the status of every contribution and redemption. *)
THEOREM LedgerAlwaysSettled == ASSUME RowLocks PROVE Spec => []LedgerSettled
  <1>1. Safe => LedgerSettled
    BY DEF Safe
  <1> QED
    BY <1>1, SafeAlways, PTL

-----------------------------------------------------------------------------
(* Action properties *)

(* Which steps change which table. *)
LEMMA Writers ==
  ASSUME Next
  PROVE  /\ \/ UNCHANGED <<redemption, contribution, charged>>
            \/ \E t \in Threads : \/ Contribute(t) \/ ContributeAndRequest(t) \/ Redeem(t)
                                  \/ Approve(t) \/ Reject(t)
         /\ \/ UNCHANGED reward
            \/ \E t \in Threads : Update(t) \/ Delete(t)
            \/ \E w \in Rewards : Create(w)
  <1>1. ASSUME NEW t \in Threads, \/ Arrive(t) \/ AbortDeadlocked(t) \/ Refuse(t)
                                  \/ SelectRedemption(t) \/ SelectReward(t) \/ SelectPending(t)
                                  \/ SelectContributions(t) \/ SelectLedger(t) \/ SelectBalance(t)
        PROVE  UNCHANGED tables
    BY <1>1 DEF Arrive, StartContribute, StartRedeem, StartUpdate, StartDelete, StartReview, Start,
                AbortDeadlocked, Refuse, SelectRedemption, SelectReward, SelectPending,
                SelectContributions, SelectLedger, SelectBalance, Advance
  <1>2. ASSUME NEW t \in Threads, Update(t) \/ Delete(t)
        PROVE  UNCHANGED <<redemption, contribution, charged>>
    BY <1>2 DEF Update, Delete
  <1>3. ASSUME NEW t \in Threads, \/ Contribute(t) \/ ContributeAndRequest(t) \/ Redeem(t)
                                  \/ Approve(t) \/ Reject(t)
        PROVE  UNCHANGED reward
    BY <1>3 DEF Contribute, ContributeAndRequest, Redeem, Approve, Reject
  <1>4. ASSUME NEW w \in Rewards, Create(w)
        PROVE  UNCHANGED <<redemption, contribution, charged>>
    BY <1>4 DEF Create
  <1>5. ASSUME NEW u \in Children, Adjust(u)
        PROVE  UNCHANGED <<reward, redemption, contribution, charged>>
    BY <1>5 DEF Adjust
  <1> QED
    BY <1>1, <1>2, <1>3, <1>4, <1>5 DEF Next, Statement, tables

(* A decided redemption keeps its decision: a second review waits for the  *)
(* lock of the row and then finds it decided.                              *)
THEOREM ReviewedOnceAlways == ASSUME RowLocks PROVE Spec => ReviewedOnce
  <1>1. ASSUME Safe, [Next]_vars, NEW r \in Redemptions,
               redemption[r].status \in {"approved", "rejected"}
        PROVE  redemption'[r].status = redemption[r].status
    <2>1. redemption \in [Redemptions -> RedemptionRow]
      BY <1>1 DEF Safe, WellFormed, TypeOK
    <2>2. ASSUME NEW t \in Threads, ContributeAndRequest(t) \/ Redeem(t)
          PROVE  redemption'[r] = redemption[r]
      BY <1>1, <2>1, <2>2 DEF ContributeAndRequest, Redeem, FreeRedemptions
    <2>3. ASSUME NEW t \in Threads, Approve(t) \/ Reject(t)
          PROVE  redemption'[r] = redemption[r]
      <3>1. redemption[request[t].redemption].status = "pending"
        BY <1>1, <2>3, AtCommit DEF Approve, Reject, Writes, IsReview
      <3> QED
        BY <1>1, <2>1, <2>3, <3>1 DEF Approve, Reject
    <2>4. ASSUME NEW t \in Threads, Contribute(t)
          PROVE  redemption'[r] = redemption[r]
      BY <2>4 DEF Contribute
    <2> QED
      BY <1>1, <2>2, <2>3, <2>4, Writers DEF vars
  <1>2. Safe /\ [Next]_vars =>
          [\A r \in Redemptions : redemption[r].status \in {"approved", "rejected"} =>
             redemption'[r].status = redemption[r].status]_vars
    BY <1>1
  <1> QED
    BY <1>2, SafeAlways, PTL DEF Spec, ReviewedOnce

(* Price, kind and existence of a reward in use do not change: the edit    *)
(* would have to commit between another request's lock of the reward and   *)
(* its commit.                                                             *)
LEMMA InUseKept ==
  ASSUME RowLocks, Safe, [Next]_vars, NEW w \in Rewards, ActiveOf(w) # {} \/ PendingOf(w) # {}
  PROVE  /\ reward'[w].cost = reward[w].cost
         /\ reward'[w].shareable = reward[w].shareable
         /\ reward'[w].status = reward[w].status
  <1>1. reward \in [Rewards -> RewardRow]
    BY DEF Safe, WellFormed, TypeOK
  <1>2. reward[w].status # "unborn"
    BY DEF Safe, Born, ActiveOf, PendingOf
  <1>3. ASSUME NEW t \in Threads, Update(t)
        PROVE  /\ reward'[w].cost = reward[w].cost
               /\ reward'[w].shareable = reward[w].shareable
               /\ reward'[w].status = reward[w].status
    <2>1. CASE request[t].reward # w
      BY <1>1, <1>3, <2>1 DEF Update
    <2>2. CASE request[t].reward = w
      <3>1. ~Changes(t)
        BY <1>3, <2>2, AtCommit DEF Update, Writes, Edits
      <3> QED
        BY <1>1, <1>3, <2>2, <3>1 DEF Update, Changes, RewardRow
    <2> QED
      BY <2>1, <2>2
  <1>4. ASSUME NEW t \in Threads, Delete(t)
        PROVE  reward'[w] = reward[w]
    <2>1. request[t].reward # w
      BY <1>4, AtCommit DEF Delete, Writes, Edits
    <2> QED
      BY <1>1, <1>4, <2>1 DEF Delete
  <1>5. ASSUME NEW x \in Rewards, Create(x)
        PROVE  reward'[w] = reward[w]
    BY <1>1, <1>2, <1>5 DEF Create
  <1> QED
    BY <1>3, <1>4, <1>5, Writers DEF vars

(* Price, kind and existence of a reward do not change while points are    *)
(* reserved for it or a request is open.                                   *)
THEOREM PriceFrozenAlways == ASSUME RowLocks PROVE Spec => PriceFrozen
  <1>1. Safe /\ [Next]_vars =>
          [\A w \in Rewards : ActiveOf(w) # {} \/ PendingOf(w) # {} =>
             /\ reward'[w].cost = reward[w].cost
             /\ reward'[w].shareable = reward[w].shareable
             /\ reward'[w].status = reward[w].status]_vars
    BY InUseKept
  <1> QED
    BY <1>1, SafeAlways, PTL DEF Spec, PriceFrozen

(* "Punkte sofort reservieren, damit keine Mehrfachanfragen über das       *)
(* verfügbare Guthaben hinaus möglich sind": whatever a commit takes, the  *)
(* balance of that moment covers.                                          *)
THEOREM ReservationsCoveredAlways == ASSUME RowLocks PROVE Spec => ReservationsCovered
  <1>1. ASSUME Safe, [Next]_vars, NEW x \in Sources, Taken(x) > 0
        PROVE  Taken(x) <= Balance(OwnerOf(x))
    <2>1. TypeOK /\ charged[x] \in Int /\ Sources = Contributions \union Redemptions
      BY <1>1 DEF Safe, WellFormed, TypeOK, Sources
    <2>2. charged' # charged
      BY <1>1, <2>1 DEF Taken
    <2>3. ASSUME NEW t \in Threads, Contribute(t) \/ ContributeAndRequest(t)
          PROVE  Taken(x) <= Balance(OwnerOf(x))
      <3>1. /\ request[t].points \in Nat /\ Spends(t) /\ Needed(t) = request[t].points
            /\ Needed(t) <= Balance(request[t].child)
        BY <1>1, <2>3, AtCommit, RequestFields, PointsNat
           DEF Contribute, ContributeAndRequest, Writes, Spends, Takes, Needed
      <3>2. PICK c \in Contributions, s \in {"reserved", "submitted"}, r \in Redemptions \union {None} :
               /\ contribution[c].status = "none"
               /\ contribution'[c] = NewContribution(t, s, r)
               /\ charged' = [charged EXCEPT ![c] = request[t].points]
        <4>1. CASE Contribute(t)
          BY <2>1, <4>1 DEF Contribute, FreeContributions, TypeOK
        <4>2. CASE ContributeAndRequest(t)
          <5>1. PICK c \in Contributions, r \in Redemptions :
                   /\ contribution[c].status = "none"
                   /\ contribution' =
                        [y \in Contributions |->
                           IF y = c THEN NewContribution(t, "submitted", r)
                           ELSE IF /\ contribution[y].reward = request[t].reward
                                   /\ contribution[y].status = "reserved"
                                   /\ contribution[y].redemption = None
                                THEN [contribution[y] EXCEPT !.status = "submitted", !.redemption = r]
                                ELSE contribution[y]]
                   /\ charged' = [charged EXCEPT ![c] = request[t].points]
            BY <4>2 DEF ContributeAndRequest, FreeContributions, FreeRedemptions
          <5>2. contribution'[c] = NewContribution(t, "submitted", r)
            BY <5>1
          <5> QED
            BY <5>1, <5>2
        <4> QED
          BY <2>3, <4>1, <4>2
      <3>3. x = c
        BY <1>1, <2>1, <3>2 DEF Taken, TypeOK
      <3>4. charged[c] = 0 /\ charged'[c] = request[t].points
        BY <1>1, <2>1, <3>2, FreshRows DEF TypeOK
      <3>5. Taken(x) = request[t].points
        BY <1>1, <3>1, <3>3, <3>4 DEF Taken
      <3>6. OwnerOf(x) = request[t].child
        BY <3>2, <3>3 DEF OwnerOf, NewContribution
      <3> QED
        BY <3>1, <3>5, <3>6
    <2>4. ASSUME NEW t \in Threads, Redeem(t)
          PROVE  Taken(x) <= Balance(OwnerOf(x))
      <3>1. /\ seen[t].reward.cost \in Nat /\ Spends(t) /\ Needed(t) = seen[t].reward.cost
            /\ Needed(t) <= Balance(request[t].child)
        BY <1>1, <2>4, AtCommit, ThreadTypes
           DEF Redeem, Writes, Spends, Takes, Needed, RewardValues
      <3>2. PICK r \in Redemptions :
               /\ redemption[r].status = "none"
               /\ redemption'[r] = NewRedemption(t)
               /\ charged' = [charged EXCEPT ![r] = seen[t].reward.cost]
        BY <2>1, <2>4 DEF Redeem, FreeRedemptions, TypeOK
      <3>3. x = r /\ x \notin Contributions
        BY <1>1, <2>1, <3>2, Idle DEF Taken, TypeOK
      <3>4. charged[r] = 0 /\ charged'[r] = seen[t].reward.cost
        BY <1>1, <2>1, <3>2, FreshRows DEF TypeOK
      <3>5. Taken(x) = seen[t].reward.cost
        BY <1>1, <3>1, <3>3, <3>4 DEF Taken
      <3>6. OwnerOf(x) = request[t].child
        BY <3>2, <3>3 DEF OwnerOf, NewRedemption
      <3> QED
        BY <3>1, <3>5, <3>6
    <2>5. ASSUME NEW t \in Threads, Approve(t)
          PROVE  Taken(x) <= Balance(OwnerOf(x))
      <3>1. /\ WellFormed /\ IsReview(t) /\ request[t].decision = "approved" /\ request[t].op = "review"
            /\ request[t].redemption \in Redemptions
            /\ redemption[request[t].redemption].by = request[t].child
            /\ Spends(t) => Needed(t) <= Balance(request[t].child)
            /\ seen[t].reward.cost \in Nat /\ seen[t].reserved \in Nat
        BY <1>1, <2>5, AtCommit, ThreadTypes DEF Approve, Writes, IsReview, RewardValues
      <3>2. /\ seen[t].contributions = {} /\ x = request[t].redemption
            /\ charged'[x] = charged[x] + Missing(t)
            /\ Missing(t) \in Nat
        BY <1>1, <2>1, <2>2, <2>5, <3>1 DEF Approve, Taken, TypeOK, Missing
      <3>3. Taken(x) = Missing(t) /\ Missing(t) > 0
        BY <1>1, <2>1, <3>2 DEF Taken
      <3>4. Spends(t) /\ Needed(t) = Missing(t)
        BY <3>1, <3>2, <3>3 DEF Spends, Missing, Needed
      <3>5. OwnerOf(x) = request[t].child
        BY <2>1, <2>5, <3>1, <3>2, Idle DEF OwnerOf, Approve, TypeOK, RedemptionRow
      <3> QED
        BY <3>1, <3>3, <3>4, <3>5
    <2>6. ASSUME NEW t \in Threads, Reject(t)
          PROVE  FALSE
      <3>1. /\ WellFormed /\ seen[t].reserved \in Nat
            /\ seen[t].contributions \subseteq Contributions
        BY <1>1, ThreadTypes DEF Safe
      <3>2. \A c \in Contributions : contribution[c].points \in Nat
        BY <2>1, PointsNat DEF TypeOK, ContributionRow
      <3> QED
        BY <1>1, <2>1, <2>6, <3>1, <3>2 DEF Taken, Reject
    <2>7. Next
      BY <1>1, <2>2 DEF vars
    <2> QED
      BY <2>2, <2>3, <2>4, <2>5, <2>6, <2>7, Writers
  <1>2. Safe /\ [Next]_vars =>
          [\A x \in Sources : Taken(x) > 0 => Taken(x) <= Balance(OwnerOf(x))]_vars
    BY <1>1
  <1> QED
    BY <1>2, SafeAlways, PTL DEF Spec, ReservationsCovered

-----------------------------------------------------------------------------
(***************************************************************************)
(* On a database that locks rows, Rewards implements PointsEscrow: every   *)
(* commit is one step of the escrow, every other step leaves it alone.     *)
(***************************************************************************)

(* A hold of the escrow, read off its row, before and after a step. *)
StateOf(status) ==
  IF status = "none" THEN "free"
  ELSE IF status \in {"reserved", "submitted", "pending"} THEN "held"
  ELSE IF status \in {"consumed", "approved"} THEN "spent"
  ELSE "returned"

LEMMA States ==
  /\ StateOf("none") = "free"
  /\ StateOf("reserved") = "held" /\ StateOf("submitted") = "held" /\ StateOf("pending") = "held"
  /\ StateOf("consumed") = "spent" /\ StateOf("approved") = "spent"
  /\ StateOf("released") = "returned" /\ StateOf("rejected") = "returned"
  BY DEF StateOf

LEMMA ContributionView ==
  ASSUME NEW c \in Contributions
  PROVE  /\ HoldView[c].state = StateOf(contribution[c].status)
         /\ HoldView[c].owner = contribution[c].by
         /\ HoldView[c].amount = charged[c]
         /\ HoldView[c].bundle = contribution[c].redemption
  BY DEF HoldView, HoldState, StateOf, Sources

LEMMA ContributionNext ==
  ASSUME NEW c \in Contributions
  PROVE  HoldView'[c] = [state |-> StateOf(contribution'[c].status), owner |-> contribution'[c].by,
                         amount |-> charged'[c], bundle |-> contribution'[c].redemption]
  BY DEF HoldView, HoldState, StateOf, Sources

LEMMA RedemptionView ==
  ASSUME NEW r \in Redemptions
  PROVE  /\ HoldView[r].state = StateOf(redemption[r].status)
         /\ HoldView[r].owner = redemption[r].by
         /\ HoldView[r].amount = charged[r]
         /\ HoldView[r].bundle = IF redemption[r].status = "none" THEN None ELSE r
  BY Idle DEF HoldView, HoldState, StateOf, Sources

LEMMA RedemptionNext ==
  ASSUME NEW r \in Redemptions
  PROVE  HoldView'[r] = [state |-> StateOf(redemption'[r].status), owner |-> redemption'[r].by,
                         amount |-> charged'[r],
                         bundle |-> IF redemption'[r].status = "none" THEN None ELSE r]
  BY Idle DEF HoldView, HoldState, StateOf, Sources

LEMMA ViewDomain ==
  /\ HoldView = [x \in Sources |-> HoldView[x]]
  /\ HoldView' = [x \in Sources |-> HoldView'[x]]
  BY DEF HoldView

LEMMA ViewKept ==
  ASSUME NEW x \in Sources, charged'[x] = charged[x],
         x \in Contributions => contribution'[x] = contribution[x],
         x \in Redemptions => redemption'[x] = redemption[x]
  PROVE  HoldView'[x] = HoldView[x]
  BY DEF HoldView, HoldState, Sources

(* What the escrow calls available is the balance of the ledger. *)
LEMMA AvailableIsBalance ==
  ASSUME NEW u \in Children, WellFormed
  PROVE  Escrow!Available(u) = Balance(u)
  <1>1. Escrow!HoldsOf(u) = SourcesOf(u)
    BY Idle DEF Escrow!HoldsOf, HoldView, SourcesOf, Sources
  <1>2. SourcesOf(u) \subseteq Sources
    BY DEF SourcesOf, Sources
  <1>3. [h \in SourcesOf(u) |-> HoldView[h].amount] = [x \in SourcesOf(u) |-> charged[x]]
    BY <1>2 DEF HoldView
  <1>4. \A f : Escrow!SumFunction(f) = SumFunction(f)
    BY DEF SumFunction, Escrow!SumFunction, SumFunctionOnSet, Escrow!SumFunctionOnSet,
           FoldFunctionOnSet, Escrow!FoldFunctionOnSet, MapThenFoldSet, Escrow!MapThenFoldSet
  <1> QED
    BY <1>1, <1>3, <1>4 DEF Escrow!Available, Balance

-----------------------------------------------------------------------------

LEMMA InitRefines == Init => Escrow!Init
  <1> SUFFICES ASSUME Init PROVE Escrow!Init
    OBVIOUS
  <1>1. granted \in [Children -> Int]
    BY RewardsAssumption DEF RewardsAssumption, Init
  <1>2. ASSUME NEW c \in Contributions PROVE HoldView[c] = Escrow!Free
    <2>1. contribution[c] = NoContribution /\ charged[c] = 0
      BY DEF Init, Sources
    <2> QED
      BY <2>1 DEF HoldView, HoldState, Sources, NoContribution, Escrow!Free
  <1>3. ASSUME NEW r \in Redemptions
        PROVE  \/ HoldView[r] = Escrow!Free
               \/ /\ HoldView[r] \in Escrow!HoldType
                  /\ HoldView[r].state = "held"
                  /\ HoldView[r].amount = 0
                  /\ HoldView[r].bundle = r
    <2>1. charged[r] = 0 /\ r \notin Contributions
      BY Idle DEF Init, Sources
    <2>2. CASE redemption[r] = NoRedemption
      BY <2>1, <2>2 DEF HoldView, HoldState, Sources, NoRedemption, Escrow!Free
    <2>3. CASE redemption[r].status = "pending" /\ redemption[r].by \in Children
      <3>1. HoldView[r] = [state |-> "held", owner |-> redemption[r].by, amount |-> 0, bundle |-> r]
        BY <2>1, <2>3 DEF HoldView, HoldState, Sources
      <3> QED
        BY <2>3, <3>1 DEF Escrow!HoldType, Escrow!States, Sources
    <2> QED
      BY <2>2, <2>3 DEF Init
  <1>4. Escrow!Free \in Escrow!HoldType
    BY DEF Escrow!Free, Escrow!HoldType, Escrow!States
  <1>5. HoldView \in [Sources -> Escrow!HoldType]
    BY <1>2, <1>3, <1>4, ViewDomain DEF Sources
  <1> QED
    BY <1>1, <1>2, <1>3, <1>5 DEF Escrow!Init, Sources

(* A contribution that leaves the price open: a hold is opened, covered by *)
(* the balance.                                                            *)
LEMMA ContributeRefines ==
  ASSUME RowLocks, Safe, NEW t \in Threads, Contribute(t)
  PROVE  Escrow!Next
  <1> DEFINE q == request[t]
  <1>1. /\ WellFormed /\ TypeOK /\ q.points \in Nat /\ q.child \in Children
        /\ Needed(t) = q.points /\ Needed(t) <= Balance(q.child)
    BY AtCommit, RequestFields, PointsNat
       DEF Contribute, Writes, WellFormed, Spends, Takes, Needed
  <1>2. PICK c \in Contributions :
           /\ contribution[c].status = "none"
           /\ contribution' = [contribution EXCEPT ![c] = NewContribution(t, "reserved", None)]
           /\ charged' = [charged EXCEPT ![c] = q.points]
           /\ UNCHANGED <<reward, redemption, granted>>
    BY DEF Contribute, FreeContributions
  <1>3. /\ contribution'[c] = NewContribution(t, "reserved", None)
        /\ \A x \in Contributions \ {c} : contribution'[x] = contribution[x]
        /\ charged'[c] = q.points
        /\ \A x \in Sources \ {c} : charged'[x] = charged[x]
    BY <1>1, <1>2 DEF TypeOK, Sources
  <1>4. HoldView[c].state = "free"
    BY <1>2, ContributionView, States
  <1>5. HoldView'[c] = [state |-> "held", owner |-> q.child, amount |-> q.points, bundle |-> None]
    <2>1. /\ contribution'[c].status = "reserved" /\ contribution'[c].by = q.child
          /\ contribution'[c].redemption = None
      BY <1>3 DEF NewContribution
    <2> QED
      BY <1>3, <2>1, ContributionNext, States
  <1>6. ASSUME NEW x \in Sources \ {c} PROVE HoldView'[x] = HoldView[x]
    BY <1>2, <1>3, ViewKept
  <1>7. HoldView' = [HoldView EXCEPT ![c] = HoldView'[c]]
    BY <1>6, ViewDomain
  <1>8. Escrow!Open(q.child, c)
    BY <1>1, <1>2, <1>4, <1>5, <1>7, AvailableIsBalance DEF Escrow!Open, Escrow!Opens
  <1> QED
    BY <1>1, <1>8 DEF Escrow!Next, Sources

(* A contribution that completes the price: the new hold, the request and  *)
(* the open contributions become one bundle.                               *)
LEMMA ContributeAndRequestRefines ==
  ASSUME RowLocks, Safe, NEW t \in Threads, ContributeAndRequest(t)
  PROVE  Escrow!Next
  <1> DEFINE q == request[t]
             Joins(x) == /\ contribution[x].reward = q.reward
                         /\ contribution[x].status = "reserved"
                         /\ contribution[x].redemption = None
  <1>1. /\ WellFormed /\ TypeOK /\ q.points \in Nat /\ q.child \in Children
        /\ Needed(t) = q.points /\ Needed(t) <= Balance(q.child)
    BY AtCommit, RequestFields, PointsNat
       DEF ContributeAndRequest, Writes, WellFormed, Spends, Takes, Needed
  <1>2. PICK c \in Contributions, r \in Redemptions :
           /\ contribution[c].status = "none" /\ redemption[r].status = "none"
           /\ contribution' =
                [x \in Contributions |->
                   IF x = c THEN NewContribution(t, "submitted", r)
                   ELSE IF Joins(x)
                        THEN [contribution[x] EXCEPT !.status = "submitted", !.redemption = r]
                        ELSE contribution[x]]
           /\ redemption' = [redemption EXCEPT ![r] = NewRedemption(t)]
           /\ charged' = [charged EXCEPT ![c] = q.points]
           /\ UNCHANGED <<reward, granted>>
    BY DEF ContributeAndRequest, FreeContributions, FreeRedemptions
  <1>3. /\ contribution'[c] = NewContribution(t, "submitted", r)
        /\ c \notin Redemptions /\ r \notin Contributions
        /\ charged[r] = 0 /\ redemption'[r] = NewRedemption(t)
        /\ \A x \in Redemptions \ {r} : redemption'[x] = redemption[x]
        /\ charged'[c] = q.points
        /\ \A x \in Sources \ {c} : charged'[x] = charged[x]
    BY <1>1, <1>2, FreshRows DEF TypeOK, Sources
  <1> DEFINE B == {x \in Contributions \ {c} : Joins(x)}
  <1>4. HoldView[c].state = "free" /\ HoldView[r].state = "free"
    BY <1>2, ContributionView, RedemptionView, States
  <1>5. HoldView'[c] = [state |-> "held", owner |-> q.child, amount |-> q.points, bundle |-> r]
    <2>1. /\ contribution'[c].status = "submitted" /\ contribution'[c].by = q.child
          /\ contribution'[c].redemption = r
      BY <1>3 DEF NewContribution
    <2> QED
      BY <1>3, <2>1, ContributionNext, States
  <1>6. HoldView'[r] = [state |-> "held", owner |-> q.child, amount |-> 0, bundle |-> r]
    <2>1. redemption'[r].status = "pending" /\ redemption'[r].by = q.child /\ charged'[r] = 0
      BY <1>3 DEF NewRedemption, Sources
    <2> QED
      BY <2>1, RedemptionNext, States
  <1>7. ASSUME NEW x \in B
        PROVE  /\ HoldView[x].state = "held" /\ HoldView[x].bundle = None
               /\ HoldView'[x] = [HoldView[x] EXCEPT !.bundle = r]
    <2>1. /\ contribution[x].status = "reserved" /\ contribution[x].redemption = None
          /\ x \in Contributions /\ x # c
      OBVIOUS
    <2>2. HoldView[x].state = "held" /\ HoldView[x].bundle = None
      BY <2>1, ContributionView, States
    <2>3. contribution'[x] = [contribution[x] EXCEPT !.status = "submitted", !.redemption = r]
      BY <1>2, <2>1
    <2>4. /\ contribution'[x].status = "submitted" /\ contribution'[x].redemption = r
          /\ contribution'[x].by = contribution[x].by
      BY <1>1, <2>1, <2>3 DEF TypeOK, ContributionRow
    <2>5. HoldView'[x] = [state |-> "held", owner |-> contribution[x].by,
                          amount |-> charged[x], bundle |-> r]
      BY <1>3, <2>1, <2>4, ContributionNext, States DEF Sources
    <2>6. HoldView[x] = [state |-> "held", owner |-> contribution[x].by,
                         amount |-> charged[x], bundle |-> None]
      BY <2>1 DEF HoldView, HoldState, Sources
    <2> QED
      BY <2>2, <2>5, <2>6
  <1>8. ASSUME NEW x \in Sources, x # c, x # r, x \notin B
        PROVE  HoldView'[x] = HoldView[x]
    <2>1. x \in Contributions => contribution'[x] = contribution[x]
      BY <1>2, <1>8
    <2> QED
      BY <1>3, <1>8, <2>1, ViewKept
  <1> HIDE DEF B
  <1>9. HoldView' =
          [x \in Sources |->
             IF x = c THEN [state |-> "held", owner |-> q.child,
                            amount |-> HoldView'[c].amount, bundle |-> r]
             ELSE IF x = r THEN [state |-> "held", owner |-> q.child, amount |-> 0, bundle |-> r]
             ELSE IF x \in B THEN [HoldView[x] EXCEPT !.bundle = r]
             ELSE HoldView[x]]
    <2>1. ASSUME NEW x \in Sources
          PROVE  HoldView'[x] =
                   IF x = c THEN [state |-> "held", owner |-> q.child,
                                  amount |-> HoldView'[c].amount, bundle |-> r]
                   ELSE IF x = r THEN [state |-> "held", owner |-> q.child, amount |-> 0, bundle |-> r]
                   ELSE IF x \in B THEN [HoldView[x] EXCEPT !.bundle = r]
                   ELSE HoldView[x]
      <3>1. CASE x = c
        BY <1>5, <3>1
      <3>2. CASE x = r /\ x # c
        BY <1>6, <3>2
      <3>3. CASE x \in B /\ x # c /\ x # r
        BY <1>7, <3>3
      <3>4. CASE x # c /\ x # r /\ x \notin B
        BY <1>8, <3>4
      <3> QED
        BY <3>1, <3>2, <3>3, <3>4
    <2> QED
      BY <2>1, ViewDomain
  <1>10. B \subseteq Sources
    BY DEF B, Sources
  <1>11. Escrow!Opens(q.child, c)
    BY <1>1, <1>4, <1>5, AvailableIsBalance DEF Escrow!Opens
  <1>12. Escrow!OpenBundle(q.child, c, r, B)
    BY <1>2, <1>4, <1>7, <1>9, <1>11 DEF Escrow!OpenBundle
  <1> QED
    BY <1>1, <1>10, <1>12 DEF Escrow!Next, Sources

(* A request of one child: a hold that is a bundle of its own. *)
LEMMA RedeemRefines ==
  ASSUME RowLocks, Safe, NEW t \in Threads, Redeem(t)
  PROVE  Escrow!Next
  <1> DEFINE q == request[t]
             cost == seen[t].reward.cost
  <1>1. /\ WellFormed /\ TypeOK /\ cost \in Nat /\ q.child \in Children
        /\ Needed(t) = cost /\ Needed(t) <= Balance(q.child)
    BY AtCommit, RequestFields, ThreadTypes
       DEF Redeem, Writes, WellFormed, Spends, Takes, Needed, RewardValues
  <1>2. PICK r \in Redemptions :
           /\ redemption[r].status = "none"
           /\ redemption' = [redemption EXCEPT ![r] = NewRedemption(t)]
           /\ charged' = [charged EXCEPT ![r] = cost]
           /\ UNCHANGED <<reward, contribution, granted>>
    BY DEF Redeem, FreeRedemptions
  <1>3. /\ redemption'[r] = NewRedemption(t)
        /\ \A x \in Redemptions \ {r} : redemption'[x] = redemption[x]
        /\ charged'[r] = cost
        /\ \A x \in Sources \ {r} : charged'[x] = charged[x]
    BY <1>1, <1>2 DEF TypeOK, Sources
  <1>4. HoldView[r].state = "free"
    BY <1>2, RedemptionView, States
  <1>5. HoldView'[r] = [state |-> "held", owner |-> q.child, amount |-> cost, bundle |-> r]
    <2>1. redemption'[r].status = "pending" /\ redemption'[r].by = q.child
      BY <1>3 DEF NewRedemption
    <2> QED
      BY <1>3, <2>1, RedemptionNext, States
  <1>6. ASSUME NEW x \in Sources \ {r} PROVE HoldView'[x] = HoldView[x]
    BY <1>2, <1>3, ViewKept
  <1>7. HoldView' =
          [x \in Sources |->
             IF x = r THEN [state |-> "held", owner |-> q.child,
                            amount |-> HoldView'[r].amount, bundle |-> r]
             ELSE HoldView[x]]
    BY <1>5, <1>6, ViewDomain
  <1>8. Escrow!Opens(q.child, r)
    BY <1>1, <1>4, <1>5, AvailableIsBalance DEF Escrow!Opens
  <1>9. Escrow!OpenBundle(q.child, r, r, {})
    BY <1>2, <1>7, <1>8 DEF Escrow!OpenBundle
  <1> QED
    BY <1>1, <1>9 DEF Escrow!Next, Sources

(* A review finds the bundle of its redemption. *)
LEMMA ReviewedBundle ==
  ASSUME RowLocks, Safe, NEW t \in Threads, Approve(t) \/ Reject(t)
  PROVE  LET r == request[t].redemption IN
         /\ r \in Redemptions /\ r \in Escrow!Bundle(r)
         /\ Escrow!Bundle(r) = {r} \union seen[t].contributions
         /\ seen[t].contributions \subseteq Contributions
         /\ charged[r] \in Nat /\ seen[t].reserved = charged[r]
         /\ redemption[r].by = request[t].child /\ request[t].child \in Children
  <1> DEFINE r == request[t].redemption
  <1>1. /\ WellFormed /\ TypeOK /\ r \in Redemptions /\ redemption[r].status = "pending"
        /\ redemption[r].by = request[t].child
        /\ seen[t].contributions = LinkedTo(r) /\ seen[t].reserved = ReservedPoints(r)
        /\ request[t].child \in Children
    BY AtCommit, Roles DEF Approve, Reject, Writes, WellFormed, IsReview
  <1>2. charged[r] \in Nat
    BY <1>1 DEF TypeOK, Sources, Safe, LedgerSettled
  <1>3. seen[t].reserved = charged[r]
    BY <1>1, <1>2 DEF ReservedPoints
  <1>4. HoldView[r].state = "held" /\ HoldView[r].bundle = r
    BY <1>1, RedemptionView, States
  <1>5. ASSUME NEW s \in Redemptions, s # r PROVE HoldView[s].bundle # r
    BY <1>1, <1>5, RedemptionView, Idle
  <1>6. ASSUME NEW c \in Contributions
        PROVE  HoldView[c].state = "held" /\ HoldView[c].bundle = r <=> c \in LinkedTo(r)
    <2>1. contribution[c].status \in {"none", "reserved", "submitted", "released", "consumed"}
      BY <1>1 DEF TypeOK, ContributionRow
    <2>2. HoldView[c].state = "held" <=> contribution[c].status \in {"reserved", "submitted"}
      BY <2>1, ContributionView, States
    <2> QED
      BY <2>2, ContributionView DEF LinkedTo
  <1>7. Escrow!Bundle(r) = {r} \union LinkedTo(r)
    BY <1>1, <1>4, <1>5, <1>6 DEF Escrow!Bundle, Sources, LinkedTo
  <1> QED
    BY <1>1, <1>2, <1>3, <1>7 DEF LinkedTo

(* An approval spends the bundle of the redemption; a request without      *)
(* contributions is topped up to the price from the balance.               *)
LEMMA ApproveRefines ==
  ASSUME RowLocks, Safe, NEW t \in Threads, Approve(t)
  PROVE  Escrow!Next
  <1> DEFINE r == request[t].redemption
             linked == seen[t].contributions
  <1>1. /\ r \in Redemptions /\ r \in Escrow!Bundle(r)
        /\ Escrow!Bundle(r) = {r} \union linked /\ linked \subseteq Contributions
        /\ charged[r] \in Nat /\ seen[t].reserved = charged[r]
        /\ redemption[r].by = request[t].child /\ request[t].child \in Children
    BY ReviewedBundle
  <1>2. /\ WellFormed /\ TypeOK /\ seen[t].reward.cost \in Nat
        /\ request[t].op = "review" /\ request[t].decision = "approved"
        /\ Spends(t) => Needed(t) <= Balance(request[t].child)
    BY AtCommit, ThreadTypes DEF Approve, Writes, WellFormed, RewardValues
  <1>3. /\ redemption' = [redemption EXCEPT ![r].status = "approved"]
        /\ contribution' = [c \in Contributions |->
                              IF c \in linked THEN [contribution[c] EXCEPT !.status = "consumed"]
                              ELSE contribution[c]]
        /\ charged' = IF linked = {} THEN [charged EXCEPT ![r] = @ + Missing(t)] ELSE charged
        /\ UNCHANGED <<reward, granted>>
    BY DEF Approve
  <1>4. Needed(t) = Missing(t) /\ Missing(t) \in Nat
    BY <1>1, <1>2 DEF Needed, Missing
  <1>5. /\ charged'[r] = IF linked = {} THEN charged[r] + Missing(t) ELSE charged[r]
        /\ \A x \in Sources \ {r} : charged'[x] = charged[x]
    BY <1>1, <1>2, <1>3 DEF TypeOK, Sources
  <1>6. charged'[r] >= charged[r]
    BY <1>1, <1>4, <1>5
  <1>7. ASSUME charged'[r] > charged[r]
        PROVE  charged'[r] - charged[r] <= Balance(redemption[r].by)
    <2>1. linked = {} /\ Missing(t) > 0 /\ charged'[r] - charged[r] = Missing(t)
      BY <1>1, <1>4, <1>5, <1>7
    <2>2. Spends(t)
      BY <1>2, <2>1 DEF Spends, IsReview, Missing
    <2> QED
      BY <1>1, <1>2, <1>4, <2>1, <2>2
  <1>8. HoldView[r].owner = redemption[r].by /\ HoldView[r].amount = charged[r]
    BY <1>1, RedemptionView
  <1>9. /\ HoldView'[r] = Escrow!Settled(r, "spent", HoldView'[r].amount)
        /\ HoldView'[r].amount = charged'[r]
    <2>1. redemption'[r].status = "approved" /\ redemption'[r].by = redemption[r].by
      BY <1>1, <1>2, <1>3 DEF TypeOK, RedemptionRow
    <2>2. HoldView'[r] = [state |-> "spent", owner |-> redemption[r].by,
                          amount |-> charged'[r], bundle |-> r]
      BY <1>1, <2>1, RedemptionNext, States
    <2>3. HoldView[r].bundle = r
      BY <1>1 DEF Escrow!Bundle
    <2>4. HoldView'[r].amount = charged'[r]
      BY <2>2
    <2> QED
      BY <1>8, <2>2, <2>3, <2>4 DEF Escrow!Settled
  <1>10. ASSUME NEW x \in linked
         PROVE  HoldView'[x] = Escrow!Settled(x, "spent", HoldView[x].amount)
    <2>1. x \in Contributions /\ x \in Sources \ {r}
      BY <1>1, Idle DEF Sources
    <2>2. contribution'[x] = [contribution[x] EXCEPT !.status = "consumed"]
      BY <1>3, <2>1
    <2>3. /\ contribution'[x].status = "consumed" /\ contribution'[x].by = contribution[x].by
          /\ contribution'[x].redemption = contribution[x].redemption
      BY <1>2, <2>1, <2>2 DEF TypeOK, ContributionRow
    <2>4. HoldView'[x] = [state |-> "spent", owner |-> contribution[x].by,
                          amount |-> charged[x], bundle |-> contribution[x].redemption]
      BY <1>5, <2>1, <2>3, ContributionNext, States
    <2> QED
      BY <2>1, <2>4, ContributionView DEF Escrow!Settled
  <1>11. ASSUME NEW x \in Sources, x # r, x \notin linked PROVE HoldView'[x] = HoldView[x]
    <2>1. x \in Contributions => contribution'[x] = contribution[x]
      BY <1>3, <1>11
    <2>2. x \in Redemptions => redemption'[x] = redemption[x]
      BY <1>2, <1>3, <1>11 DEF TypeOK
    <2> QED
      BY <1>5, <1>11, <2>1, <2>2, ViewKept
  <1>12. HoldView' =
           [x \in Sources |->
              IF x = r THEN Escrow!Settled(x, "spent", HoldView'[r].amount)
              ELSE IF x \in Escrow!Bundle(r) THEN Escrow!Settled(x, "spent", HoldView[x].amount)
              ELSE HoldView[x]]
    BY <1>1, <1>9, <1>10, <1>11, ViewDomain
  <1>13. Escrow!Available(HoldView[r].owner) = Balance(redemption[r].by)
    BY <1>1, <1>2, <1>8, AvailableIsBalance
  <1>14. Escrow!Spend(r)
    BY <1>1, <1>3, <1>6, <1>7, <1>8, <1>9, <1>12, <1>13 DEF Escrow!Spend
  <1> QED
    BY <1>1, <1>14 DEF Escrow!Next, Sources

(* A rejection gives the whole bundle back. *)
LEMMA RejectRefines ==
  ASSUME RowLocks, Safe, NEW t \in Threads, Reject(t)
  PROVE  Escrow!Next
  <1> DEFINE r == request[t].redemption
             linked == seen[t].contributions
  <1>1. /\ r \in Redemptions /\ r \in Escrow!Bundle(r)
        /\ Escrow!Bundle(r) = {r} \union linked /\ linked \subseteq Contributions
        /\ charged[r] \in Nat /\ seen[t].reserved = charged[r]
    BY ReviewedBundle
  <1>2. /\ WellFormed /\ TypeOK /\ LedgerSettled /\ linked = LinkedTo(r) /\ r \notin linked
    BY <1>1, AtCommit, Idle DEF Reject, Writes, WellFormed, IsReview, Safe
  <1>3. /\ redemption' = [redemption EXCEPT ![r].status = "rejected"]
        /\ contribution' = [c \in Contributions |->
                              IF c \in linked THEN [contribution[c] EXCEPT !.status = "released"]
                              ELSE contribution[c]]
        /\ charged' = [x \in Sources |->
                         IF x = r THEN charged[x] - seen[t].reserved
                         ELSE IF x \in linked THEN charged[x] - contribution[x].points
                         ELSE charged[x]]
        /\ UNCHANGED <<reward, granted>>
    BY DEF Reject
  <1>4. charged'[r] = 0
    BY <1>1, <1>3 DEF Sources
  <1>5. ASSUME NEW x \in linked PROVE charged'[x] = 0
    <2>1. charged[x] = contribution[x].points /\ contribution[x].points \in Nat
      BY <1>1, <1>2, PointsNat DEF LinkedTo, LedgerSettled, TypeOK, ContributionRow
    <2> QED
      BY <1>1, <1>2, <1>3, <2>1 DEF Sources
  <1>6. HoldView'[r] = Escrow!Settled(r, "returned", 0)
    <2>1. redemption'[r].status = "rejected" /\ redemption'[r].by = redemption[r].by
      BY <1>1, <1>2, <1>3 DEF TypeOK, RedemptionRow
    <2>2. HoldView'[r] = [state |-> "returned", owner |-> redemption[r].by, amount |-> 0, bundle |-> r]
      BY <1>1, <1>4, <2>1, RedemptionNext, States
    <2>3. HoldView[r].bundle = r /\ HoldView[r].owner = redemption[r].by
      BY <1>1, RedemptionView DEF Escrow!Bundle
    <2> QED
      BY <2>2, <2>3 DEF Escrow!Settled
  <1>7. ASSUME NEW x \in linked
        PROVE  HoldView'[x] = Escrow!Settled(x, "returned", 0)
    <2>1. x \in Contributions
      BY <1>1
    <2>2. contribution'[x] = [contribution[x] EXCEPT !.status = "released"]
      BY <1>3, <2>1
    <2>3. /\ contribution'[x].status = "released" /\ contribution'[x].by = contribution[x].by
          /\ contribution'[x].redemption = contribution[x].redemption
      BY <1>2, <2>1, <2>2 DEF TypeOK, ContributionRow
    <2>4. HoldView'[x] = [state |-> "returned", owner |-> contribution[x].by,
                          amount |-> 0, bundle |-> contribution[x].redemption]
      BY <1>5, <2>1, <2>3, ContributionNext, States
    <2> QED
      BY <2>1, <2>4, ContributionView DEF Escrow!Settled
  <1>8. ASSUME NEW x \in Sources, x # r, x \notin linked PROVE HoldView'[x] = HoldView[x]
    <2>1. x \in Contributions => contribution'[x] = contribution[x]
      BY <1>3, <1>8
    <2>2. x \in Redemptions => redemption'[x] = redemption[x]
      BY <1>2, <1>3, <1>8 DEF TypeOK
    <2>3. charged'[x] = charged[x]
      BY <1>3, <1>8
    <2> QED
      BY <2>1, <2>2, <2>3, ViewKept
  <1>9. HoldView' =
          [x \in Sources |->
             IF x \in Escrow!Bundle(r) THEN Escrow!Settled(x, "returned", 0)
             ELSE HoldView[x]]
    BY <1>1, <1>6, <1>7, <1>8, ViewDomain
  <1>10. Escrow!Return(r)
    BY <1>1, <1>3, <1>9 DEF Escrow!Return
  <1> QED
    BY <1>1, <1>10 DEF Escrow!Next, Sources

(* Points from elsewhere. *)
LEMMA AdjustRefines ==
  ASSUME Safe, NEW u \in Children, Adjust(u)
  PROVE  Escrow!Next
  <1>1. PICK g \in Grants : granted' = [granted EXCEPT ![u] = g]
    BY DEF Adjust
  <1>2. granted \in [Children -> Int] /\ g \in Int
    BY RewardsAssumption DEF Safe, WellFormed, TypeOK, RewardsAssumption
  <1>3. /\ granted' \in [Children -> Int]
        /\ \A v \in Children \ {u} : granted'[v] = granted[v]
    BY <1>1, <1>2
  <1>4. HoldView' = HoldView
    BY DEF Adjust, HoldView, HoldState
  <1>5. Escrow!Grant(u)
    BY <1>3, <1>4 DEF Escrow!Grant
  <1> QED
    BY <1>5 DEF Escrow!Next

(* Everything else leaves the escrow alone. *)
LEMMA NextRefines ==
  ASSUME RowLocks, Safe, [Next]_vars
  PROVE  [Escrow!Next]_(Escrow!vars)
  <1>1. ASSUME UNCHANGED <<redemption, contribution, charged, granted>>
        PROVE  UNCHANGED Escrow!vars
    BY <1>1 DEF Escrow!vars, HoldView, HoldState
  <1>2. ASSUME Next
        PROVE  \/ UNCHANGED <<redemption, contribution, charged, granted>>
               \/ \E u \in Children : Adjust(u)
               \/ \E t \in Threads : \/ Contribute(t) \/ ContributeAndRequest(t) \/ Redeem(t)
                                     \/ Approve(t) \/ Reject(t)
    <2>1. ASSUME NEW t \in Threads, \/ Arrive(t) \/ AbortDeadlocked(t) \/ Refuse(t)
                                    \/ SelectRedemption(t) \/ SelectReward(t) \/ SelectPending(t)
                                    \/ SelectContributions(t) \/ SelectLedger(t) \/ SelectBalance(t)
          PROVE  UNCHANGED tables
      BY <2>1 DEF Arrive, StartContribute, StartRedeem, StartUpdate, StartDelete, StartReview, Start,
                  AbortDeadlocked, Refuse, SelectRedemption, SelectReward, SelectPending,
                  SelectContributions, SelectLedger, SelectBalance, Advance
    <2>2. ASSUME NEW t \in Threads, Update(t) \/ Delete(t)
          PROVE  UNCHANGED <<redemption, contribution, charged, granted>>
      BY <2>2 DEF Update, Delete
    <2>3. ASSUME NEW w \in Rewards, Create(w)
          PROVE  UNCHANGED <<redemption, contribution, charged, granted>>
      BY <2>3 DEF Create
    <2> QED
      BY <1>2, <2>1, <2>2, <2>3 DEF Next, Statement, tables
  <1> QED
    BY <1>1, <1>2, AdjustRefines, ContributeRefines, ContributeAndRequestRefines, RedeemRefines,
       ApproveRefines, RejectRefines DEF vars

(* rewards.py implements the escrow: whatever requests run at the same     *)
(* time, reservations, reviews and refunds have the effect of its atomic   *)
(* steps, when the database locks rows.                                    *)
THEOREM Refines == ASSUME RowLocks PROVE Spec => EscrowImplemented
  <1>1. Safe /\ [Next]_vars => [Escrow!Next]_(Escrow!vars)
    BY NextRefines
  <1> QED
    BY <1>1, InitRefines, SafeAlways, PTL DEF Spec, EscrowImplemented, Escrow!Spec

=============================================================================

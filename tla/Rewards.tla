------------------------------- MODULE Rewards -------------------------------
(***************************************************************************)
(* Rewards, shared contributions, redemptions and the points ledger.       *)
(*                                                                         *)
(* Every endpoint runs in a thread of the server's pool and issues one SQL *)
(* statement after the other; one step of this module is one statement.    *)
(* A thread keeps what it read in `seen`, and its writes (from the first   *)
(* flush to the commit) are one step.  An HTTPException closes the session *)
(* and rolls back: Refuse.                                                 *)
(*                                                                         *)
(* RowLocks = TRUE is PostgreSQL: SELECT ... FOR UPDATE takes row locks    *)
(* that are kept until the transaction ends, and a cycle of waiting        *)
(* transactions is broken by aborting one of them.  RowLocks = FALSE is    *)
(* the default SQLite file: FOR UPDATE is ignored, the reads before the    *)
(* first flush run outside any transaction, and the single write lock      *)
(* covers the step from the first flush to the commit.                     *)
(***************************************************************************)
EXTENDS Integers, FiniteSets, Functions, FiniteSetsExt

CONSTANTS Children,       \* members with the role child
          Rewards,        \* identities of rewards rows
          Redemptions,    \* identities of reward_redemptions rows
          Contributions,  \* identities of reward_contributions rows
          Threads,        \* threads of the pool that serve requests
          None,           \* no row, no child, no thread
          RewardInputs,   \* the values of create_reward and update_reward that are tried
          Points,         \* the points of one contribution that are tried
          Grants,         \* net points a child has from other sources
          Legacy,         \* redemptions asked for before points were reserved
          RowLocks        \* TRUE: PostgreSQL, FALSE: SQLite

ASSUME RewardsAssumption ==
  /\ RewardInputs \subseteq [active: BOOLEAN, shareable: BOOLEAN, cost: Nat \ {0}]
  /\ Points \subseteq Nat \ {0}
  /\ Grants \subseteq Int
  /\ Legacy \subseteq Redemptions
  /\ RowLocks \in BOOLEAN
  /\ None \notin Children \union Rewards \union Redemptions \union Contributions \union Threads
  /\ Redemptions \intersect Contributions = {}

(* The rows of a table: what a query sums up is finite. *)
ASSUME RowsAreFinite == IsFiniteSet(Contributions)

VARIABLES reward,        \* the rewards table
          redemption,    \* the reward_redemptions table
          contribution,  \* the reward_contributions table
          charged,       \* per source row, what its points_ledger rows took
          granted,       \* per child, the sum of all other points_ledger rows
          owner,         \* who holds the lock of a row
          pc,            \* the statement a thread issues next
          request,       \* the request a thread serves
          seen           \* what the thread's session has read

tables == <<reward, redemption, contribution, charged, granted>>
vars == <<reward, redemption, contribution, charged, granted, owner, pc, request, seen>>

-----------------------------------------------------------------------------
(* Types *)

Sources == Contributions \union Redemptions

Lockable == Rewards \union Redemptions \union Children

RewardRow == [status: {"unborn", "live", "deleted"},
              active: BOOLEAN, shareable: BOOLEAN, cost: Nat]

RewardValues == [active: BOOLEAN, shareable: BOOLEAN, cost: Nat]

RedemptionRow == [status: {"none", "pending", "approved", "rejected"},
                  reward: Rewards \union {None}, by: Children \union {None}]

ContributionRow == [status: {"none", "reserved", "submitted", "released", "consumed"},
                    reward: Rewards \union {None}, by: Children \union {None},
                    points: Points \union {0}, redemption: Redemptions \union {None}]

UnbornReward == [status |-> "unborn", active |-> FALSE, shareable |-> FALSE, cost |-> 0]

NoRedemption == [status |-> "none", reward |-> None, by |-> None]

NoContribution == [status |-> "none", reward |-> None, by |-> None,
                   points |-> 0, redemption |-> None]

NoRequest == [op |-> "none"]

(* The review names a redemption; its reward and its requester are columns *)
(* that never change.                                                      *)
Request ==
  [op: {"contribute"}, reward: Rewards, child: Children, points: Points]
  \union [op: {"redeem"}, reward: Rewards, child: Children]
  \union [op: {"update"}, reward: Rewards, to: RewardInputs]
  \union [op: {"delete"}, reward: Rewards]
  \union [op: {"review"}, redemption: Redemptions, reward: Rewards, child: Children,
          decision: {"pending", "approved", "rejected"}]

PCs == {"idle", "redemption", "reward", "pending", "contributions", "ledger", "user", "write"}

(* What a session read: the reward row, the status of the redemption under *)
(* review, a set of contributions, the points reserved by the redemption.  *)
Seen == [reward: RewardValues,
         status: {"none", "pending", "approved", "rejected"},
         contributions: SUBSET Contributions, reserved: Nat]

Nothing == [reward |-> [active |-> FALSE, shareable |-> FALSE, cost |-> 0],
            status |-> "none", contributions |-> {}, reserved |-> 0]

TypeOK ==
  /\ reward \in [Rewards -> RewardRow]
  /\ redemption \in [Redemptions -> RedemptionRow]
  /\ contribution \in [Contributions -> ContributionRow]
  /\ charged \in [Sources -> Int]
  /\ granted \in [Children -> Int]
  /\ owner \in [Lockable -> Threads \union {None}]
  /\ pc \in [Threads -> PCs]
  /\ request \in [Threads -> Request \union {NoRequest}]
  /\ seen \in [Threads -> Seen]

-----------------------------------------------------------------------------
(* Queries *)

(* get_points_balance: the sum of all ledger rows of the child. *)
SourcesOf(u) == {c \in Contributions : contribution[c].by = u}
                \union {r \in Redemptions : redemption[r].by = u}

Balance(u) == granted[u] - SumFunction([x \in SourcesOf(u) |-> charged[x]])

(* _reserved_points_for_redemption *)
ReservedPoints(r) == IF charged[r] > 0 THEN charged[r] ELSE 0

PendingOf(w) == {r \in Redemptions : redemption[r].status = "pending" /\ redemption[r].reward = w}

ActiveOf(w) == {c \in Contributions :
                  contribution[c].status \in {"reserved", "submitted"} /\ contribution[c].reward = w}

LinkedTo(r) == {c \in Contributions :
                  contribution[c].status \in {"reserved", "submitted"} /\ contribution[c].redemption = r}

PointsIn(S) == SumFunction([c \in S |-> contribution[c].points])

RequestedBefore(w) == \E r \in Redemptions :
                        redemption[r].status # "none" /\ redemption[r].reward = w

ContributedBefore(w) == \E c \in Contributions :
                          contribution[c].status # "none" /\ contribution[c].reward = w

Values(row) == [active |-> row.active, shareable |-> row.shareable, cost |-> row.cost]

Live(v) == [status |-> "live", active |-> v.active, shareable |-> v.shareable, cost |-> v.cost]

-----------------------------------------------------------------------------
(* Sessions and row locks *)

(* Mutant: a request without reservation is approved for nothing. *)
MissingForgotten(t) == IF seen[t].contributions # {} THEN seen[t].reward.cost ELSE 0

(* missing_points of an approval without contributions. *)
Missing(t) == IF seen[t].reward.cost > seen[t].reserved
              THEN seen[t].reward.cost - seen[t].reserved ELSE 0

(* The users rows a commit touches: a ledger row references its user, and  *)
(* an approval evaluates the achievements of the requester.                *)
Touched(t) ==
  LET q == request[t] IN
  CASE q.op \in {"contribute", "redeem"} -> {q.child}
    [] q.op = "review" /\ q.decision = "approved" -> {q.child}
    [] q.op = "review" /\ q.decision = "rejected" ->
         {contribution[c].by : c \in seen[t].contributions}
         \union (IF seen[t].reserved > 0 THEN {q.child} ELSE {})
    [] OTHER -> {}

(* The rows whose locks the thread's next statement waits for.  Locks on   *)
(* contributions are left out: they are only taken under the reward's.     *)
Wanted(t) ==
  LET q == request[t] IN
  CASE pc[t] = "redemption" -> {q.redemption}
    [] pc[t] = "reward" -> {q.reward}
    [] pc[t] = "pending" /\ q.op \in {"contribute", "redeem"} -> PendingOf(q.reward)
    [] pc[t] = "user" -> {q.child}
    [] pc[t] = "write" -> Touched(t)
    [] OTHER -> {}

CanRun(t) ==
  /\ pc[t] # "idle"
  /\ RowLocks => \A x \in Wanted(t) : owner[x] \in {None, t}

(* Mutant: FOR UPDATE is forgotten everywhere. *)
LockNothing(t, rows) == UNCHANGED owner

Lock(t, rows) ==
  owner' = IF RowLocks THEN [x \in Lockable |-> IF x \in rows THEN t ELSE owner[x]] ELSE owner

(* The statement has run: the session knows s, the next statement is next. *)
Advance(t, next, s) ==
  /\ seen' = [seen EXCEPT ![t] = s]
  /\ pc' = [pc EXCEPT ![t] = next]
  /\ UNCHANGED <<tables, request>>

(* Mutant: the session is not closed, its locks stay. *)
EndKeepsLocks(t) ==
  /\ pc' = [pc EXCEPT ![t] = "idle"]
  /\ request' = [request EXCEPT ![t] = NoRequest]
  /\ seen' = [seen EXCEPT ![t] = Nothing]
  /\ UNCHANGED owner

(* The transaction ends, by commit or by rollback. *)
End(t) ==
  /\ owner' = [x \in Lockable |-> IF owner[x] = t THEN None ELSE owner[x]]
  /\ pc' = [pc EXCEPT ![t] = "idle"]
  /\ request' = [request EXCEPT ![t] = NoRequest]
  /\ seen' = [seen EXCEPT ![t] = Nothing]

-----------------------------------------------------------------------------
(* Requests arrive.  Bounds: rows that in-flight requests may still insert *)
(* are kept free, so that a request never runs out of identities.          *)

InFlight(ops) == {t \in Threads : request[t].op \in ops}

FreeRedemptions == {r \in Redemptions : redemption[r].status = "none"}

FreeContributions == {c \in Contributions : contribution[c].status = "none"}

RoomForRedemption ==
  Cardinality(InFlight({"contribute", "redeem"})) < Cardinality(FreeRedemptions)

RoomForContribution ==
  Cardinality(InFlight({"contribute"})) < Cardinality(FreeContributions)

Start(t, q, first) ==
  /\ pc[t] = "idle"
  /\ pc' = [pc EXCEPT ![t] = first]
  /\ request' = [request EXCEPT ![t] = q]
  /\ UNCHANGED <<tables, owner, seen>>

StartContribute(t) ==
  /\ RoomForContribution /\ RoomForRedemption
  /\ \E w \in Rewards, u \in Children, n \in Points :
       Start(t, [op |-> "contribute", reward |-> w, child |-> u, points |-> n], "reward")

StartRedeem(t) ==
  /\ RoomForRedemption
  /\ \E w \in Rewards, u \in Children :
       Start(t, [op |-> "redeem", reward |-> w, child |-> u], "reward")

StartUpdate(t) ==
  \E w \in Rewards, v \in RewardInputs :
    Start(t, [op |-> "update", reward |-> w, to |-> v], "reward")

StartDelete(t) ==
  \E w \in Rewards : Start(t, [op |-> "delete", reward |-> w], "reward")

StartReview(t) ==
  \E r \in Redemptions \ FreeRedemptions, d \in {"pending", "approved", "rejected"} :
    Start(t, [op |-> "review", redemption |-> r, reward |-> redemption[r].reward,
              child |-> redemption[r].by, decision |-> d], "redemption")

-----------------------------------------------------------------------------
(* The statements of the handlers, in the order they are issued. *)

IsReview(t) == request[t].op = "review"
Takes(t) == request[t].op \in {"contribute", "redeem"}
(* Mutant: only the kind of the reward is compared, not its price. *)
ChangesKind(t) == request[t].to.shareable # seen[t].reward.shareable

Changes(t) == \/ request[t].to.cost # seen[t].reward.cost
              \/ request[t].to.shareable # seen[t].reward.shareable

(* Selects the redemption under review, FOR UPDATE. *)
SelectRedemption(t) ==
  LET r == request[t].redemption IN
  /\ pc[t] = "redemption" /\ CanRun(t)
  /\ Lock(t, {r})
  /\ Advance(t, "reward", [seen[t] EXCEPT !.status = redemption[r].status])

RefusedReward(t) ==
  LET q == request[t]  row == reward[q.reward] IN
  \/ row.status # "live"
  \/ Takes(t) /\ (~row.active \/ row.shareable # (q.op = "contribute"))
  \/ IsReview(t) /\ (seen[t].status # "pending" \/ q.decision = "pending")

(* Selects the reward, FOR UPDATE. *)
SelectReward(t) ==
  LET w == request[t].reward IN
  /\ pc[t] = "reward" /\ CanRun(t)
  /\ ~RefusedReward(t)
  /\ Lock(t, {w})
  /\ Advance(t, IF IsReview(t) THEN "contributions" ELSE "pending",
             [seen[t] EXCEPT !.reward = Values(reward[w])])

(* Mutant: redeem and contribute do not look for a pending request. *)
RefusedPendingByStaffOnly(t) ==
  LET q == request[t] IN
  \/ q.op = "update" /\ PendingOf(q.reward) # {} /\ Changes(t)
  \/ q.op = "delete" /\ RequestedBefore(q.reward)

RefusedPending(t) ==
  LET q == request[t] IN
  \/ Takes(t) /\ PendingOf(q.reward) # {}
  \/ q.op = "update" /\ PendingOf(q.reward) # {} /\ Changes(t)
  \/ q.op = "delete" /\ RequestedBefore(q.reward)

(* Looks for a redemption of the reward that is still pending (delete: for *)
(* any redemption).  A pending row is locked, and then the request fails.  *)
SelectPending(t) ==
  /\ pc[t] = "pending" /\ CanRun(t)
  /\ ~RefusedPending(t)
  /\ Advance(t, "contributions", seen[t])
  /\ UNCHANGED owner

(* Mutant: a contribution is refused only when nothing is left to pay. *)
RefusedContributionsWhenFull(t) ==
  LET q == request[t]  active == ActiveOf(q.reward) IN
  \/ q.op = "contribute" /\ seen[t].reward.cost <= PointsIn(active)
  \/ q.op = "redeem" /\ active # {}
  \/ q.op = "update" /\ active # {} /\ Changes(t)
  \/ q.op = "delete" /\ ContributedBefore(q.reward)

RefusedContributions(t) ==
  LET q == request[t]  active == ActiveOf(q.reward) IN
  \/ q.op = "contribute" /\ q.points > seen[t].reward.cost - PointsIn(active)
  \/ q.op = "redeem" /\ active # {}
  \/ q.op = "update" /\ active # {} /\ Changes(t)
  \/ q.op = "delete" /\ ContributedBefore(q.reward)

(* Loads the active contributions of the reward (review: those linked to   *)
(* the redemption), FOR UPDATE.                                            *)
SelectContributions(t) ==
  LET q == request[t] IN
  /\ pc[t] = "contributions" /\ CanRun(t)
  /\ ~RefusedContributions(t)
  /\ Advance(t, IF IsReview(t) THEN "ledger" ELSE IF Takes(t) THEN "user" ELSE "write",
             [seen[t] EXCEPT !.contributions =
                IF IsReview(t) THEN LinkedTo(q.redemption) ELSE ActiveOf(q.reward)])
  /\ UNCHANGED owner

RefusedLedger(t) ==
  /\ request[t].decision = "approved"
  /\ seen[t].contributions # {}
  /\ PointsIn(seen[t].contributions) < seen[t].reward.cost

(* Sums the points the redemption under review has reserved itself. *)
SelectLedger(t) ==
  LET q == request[t]
      s == [seen[t] EXCEPT !.reserved = ReservedPoints(q.redemption)]
      topUp == /\ q.decision = "approved"
               /\ s.contributions = {}
               /\ s.reward.cost > s.reserved
  IN
  /\ pc[t] = "ledger" /\ CanRun(t)
  /\ ~RefusedLedger(t)
  /\ Advance(t, IF topUp THEN "user" ELSE "write", s)
  /\ UNCHANGED owner

(* What the commit will take from the requester's balance. *)
Needed(t) ==
  LET q == request[t] IN
  CASE q.op = "contribute" -> q.points
    [] q.op = "redeem" -> seen[t].reward.cost
    [] OTHER -> Missing(t)

RefusedUser(t) == ~(Needed(t) <= Balance(request[t].child))

(* Mutant: the balance is read without locking the child's users row. *)
SelectBalanceUnlocked(t) ==
  /\ pc[t] = "user" /\ CanRun(t)
  /\ ~RefusedUser(t)
  /\ Advance(t, "write", seen[t])
  /\ UNCHANGED owner

(* Locks the child's users row and sums the balance. *)
SelectBalance(t) ==
  /\ pc[t] = "user" /\ CanRun(t)
  /\ ~RefusedUser(t)
  /\ Lock(t, {request[t].child})
  /\ Advance(t, "write", seen[t])

(* An HTTPException: nothing was written, the session is closed. *)
Refuse(t) ==
  /\ CanRun(t)
  /\ \/ pc[t] = "reward" /\ RefusedReward(t)
     \/ pc[t] = "pending" /\ RefusedPending(t)
     \/ pc[t] = "contributions" /\ RefusedContributions(t)
     \/ pc[t] = "ledger" /\ RefusedLedger(t)
     \/ pc[t] = "user" /\ RefusedUser(t)
  /\ End(t)
  /\ UNCHANGED tables

(* PostgreSQL aborts a transaction of a cycle of waiting transactions. *)
WaitsFor(t) == {owner[x] : x \in Wanted(t)} \ {None, t}

Deadlocked(t) == RowLocks /\ \E s \in WaitsFor(t) : t \in WaitsFor(s)

AbortDeadlocked(t) ==
  /\ pc[t] # "idle"
  /\ Deadlocked(t)
  /\ End(t)
  /\ UNCHANGED tables

-----------------------------------------------------------------------------
(* The commits *)

Writes(t, op) ==
  /\ pc[t] = "write" /\ CanRun(t)
  /\ request[t].op = op
  /\ End(t)

NewContribution(t, status, r) ==
  [status |-> status, reward |-> request[t].reward, by |-> request[t].child,
   points |-> request[t].points, redemption |-> r]

NewRedemption(t) ==
  [status |-> "pending", reward |-> request[t].reward, by |-> request[t].child]

(* The contribution completes the price that was read at the start. *)
Completes(t) == PointsIn(seen[t].contributions) + request[t].points >= seen[t].reward.cost

(* contribute_reward: the contribution and its negative ledger row. *)
Contribute(t) ==
  /\ Writes(t, "contribute")
  /\ ~Completes(t)
  /\ \E c \in FreeContributions :
       /\ contribution' = [contribution EXCEPT ![c] = NewContribution(t, "reserved", None)]
       /\ charged' = [charged EXCEPT ![c] = request[t].points]
  /\ UNCHANGED <<reward, redemption, granted>>

(* Mutant: only the contribution that completes the price is submitted. *)
ContributeAndRequestAlone(t) ==
  /\ Writes(t, "contribute")
  /\ Completes(t)
  /\ \E c \in FreeContributions, r \in FreeRedemptions :
       /\ contribution' = [contribution EXCEPT ![c] = NewContribution(t, "submitted", r)]
       /\ redemption' = [redemption EXCEPT ![r] = NewRedemption(t)]
       /\ charged' = [charged EXCEPT ![c] = request[t].points]
  /\ UNCHANGED <<reward, granted>>

(* contribute_reward, when the price is reached: a redemption is requested *)
(* and every contribution that is open now is submitted with it.           *)
ContributeAndRequest(t) ==
  /\ Writes(t, "contribute")
  /\ Completes(t)
  /\ \E c \in FreeContributions, r \in FreeRedemptions :
       /\ contribution' =
            [x \in Contributions |->
               IF x = c THEN NewContribution(t, "submitted", r)
               ELSE IF /\ contribution[x].reward = request[t].reward
                       /\ contribution[x].status = "reserved"
                       /\ contribution[x].redemption = None
                    THEN [contribution[x] EXCEPT !.status = "submitted", !.redemption = r]
                    ELSE contribution[x]]
       /\ redemption' = [redemption EXCEPT ![r] = NewRedemption(t)]
       /\ charged' = [charged EXCEPT ![c] = request[t].points]
  /\ UNCHANGED <<reward, granted>>

(* redeem_reward: the redemption and its reservation in the ledger. *)
Redeem(t) ==
  /\ Writes(t, "redeem")
  /\ \E r \in FreeRedemptions :
       /\ redemption' = [redemption EXCEPT ![r] = NewRedemption(t)]
       /\ charged' = [charged EXCEPT ![r] = seen[t].reward.cost]
  /\ UNCHANGED <<reward, contribution, granted>>

(* review_redemption, approved: linked contributions are consumed, or the  *)
(* points the redemption did not reserve are taken now.                    *)
Approve(t) ==
  LET r == request[t].redemption  linked == seen[t].contributions IN
  /\ Writes(t, "review")
  /\ request[t].decision = "approved"
  /\ redemption' = [redemption EXCEPT ![r].status = "approved"]
  /\ contribution' = [c \in Contributions |->
                        IF c \in linked THEN [contribution[c] EXCEPT !.status = "consumed"]
                        ELSE contribution[c]]
  /\ charged' = IF linked = {} THEN [charged EXCEPT ![r] = @ + Missing(t)] ELSE charged
  /\ UNCHANGED <<reward, granted>>

(* Mutant: the refund of linked contributions is forgotten. *)
RejectRequesterOnly(t) ==
  LET r == request[t].redemption  linked == seen[t].contributions IN
  /\ Writes(t, "review")
  /\ request[t].decision = "rejected"
  /\ redemption' = [redemption EXCEPT ![r].status = "rejected"]
  /\ contribution' = [c \in Contributions |->
                        IF c \in linked THEN [contribution[c] EXCEPT !.status = "released"]
                        ELSE contribution[c]]
  /\ charged' = [charged EXCEPT ![r] = @ - seen[t].reserved]
  /\ UNCHANGED <<reward, granted>>

(* review_redemption, rejected: contributions and reservation are freed. *)
Reject(t) ==
  LET r == request[t].redemption  linked == seen[t].contributions IN
  /\ Writes(t, "review")
  /\ request[t].decision = "rejected"
  /\ redemption' = [redemption EXCEPT ![r].status = "rejected"]
  /\ contribution' = [c \in Contributions |->
                        IF c \in linked THEN [contribution[c] EXCEPT !.status = "released"]
                        ELSE contribution[c]]
  /\ charged' = [x \in Sources |->
                   IF x = r THEN charged[x] - seen[t].reserved
                   ELSE IF x \in linked THEN charged[x] - contribution[x].points
                   ELSE charged[x]]
  /\ UNCHANGED <<reward, granted>>

(* update_reward: the ORM writes the columns that differ from those read;  *)
(* an UPDATE that finds no row fails.                                      *)
Update(t) ==
  LET w == request[t].reward  to == request[t].to  was == seen[t].reward IN
  /\ Writes(t, "update")
  /\ reward' = [reward EXCEPT ![w] =
                  IF @.status # "live" THEN @
                  ELSE [status |-> @.status,
                        active |-> IF to.active # was.active THEN to.active ELSE @.active,
                        shareable |-> IF to.shareable # was.shareable THEN to.shareable ELSE @.shareable,
                        cost |-> IF to.cost # was.cost THEN to.cost ELSE @.cost]]
  /\ UNCHANGED <<redemption, contribution, charged, granted>>

(* delete_reward *)
Delete(t) ==
  /\ Writes(t, "delete")
  /\ reward' = [reward EXCEPT ![request[t].reward].status = "deleted"]
  /\ UNCHANGED <<redemption, contribution, charged, granted>>

(* create_reward: one insert. *)
Create(w) ==
  /\ reward[w].status = "unborn"
  /\ \E v \in RewardInputs :
       reward' = [reward EXCEPT ![w] = Live(v)]
  /\ UNCHANGED <<redemption, contribution, charged, granted, owner, pc, request, seen>>

(* adjust_points, and every other handler that inserts ledger rows (task   *)
(* credits, penalties, achievements): no look at the balance; the insert   *)
(* references the users row and waits while that row is locked.  Grants    *)
(* bounds the sums that are tried.                                         *)
Adjust(u) ==
  /\ owner[u] = None
  /\ \E g \in Grants \ {granted[u]} : granted' = [granted EXCEPT ![u] = g]
  /\ UNCHANGED <<reward, redemption, contribution, charged, owner, pc, request, seen>>

-----------------------------------------------------------------------------

(* An upgraded database may hold pending redemptions without reservation,  *)
(* at most one per reward.                                                 *)
Init ==
  /\ \E of \in [Legacy -> Rewards], by \in [Legacy -> Children] :
       /\ \A r, s \in Legacy : of[r] = of[s] => r = s
       /\ redemption = [r \in Redemptions |->
            IF r \in Legacy THEN [status |-> "pending", reward |-> of[r], by |-> by[r]]
            ELSE NoRedemption]
       /\ \E v \in {i \in RewardInputs : i.active /\ ~i.shareable} :
            reward = [w \in Rewards |->
              IF \E r \in Legacy : of[r] = w THEN Live(v) ELSE UnbornReward]
  /\ contribution = [c \in Contributions |-> NoContribution]
  /\ charged = [x \in Sources |-> 0]
  /\ granted \in [Children -> Grants]
  /\ owner = [x \in Lockable |-> None]
  /\ pc = [t \in Threads |-> "idle"]
  /\ request = [t \in Threads |-> NoRequest]
  /\ seen = [t \in Threads |-> Nothing]

Arrive(t) == \/ StartContribute(t) \/ StartRedeem(t) \/ StartUpdate(t)
             \/ StartDelete(t) \/ StartReview(t)

Statement(t) == \/ SelectRedemption(t) \/ SelectReward(t) \/ SelectPending(t)
                \/ SelectContributions(t) \/ SelectLedger(t) \/ SelectBalance(t)
                \/ Refuse(t) \/ Contribute(t) \/ ContributeAndRequest(t) \/ Redeem(t)
                \/ Approve(t) \/ Reject(t) \/ Update(t) \/ Delete(t)

Next == \/ \E t \in Threads : Arrive(t) \/ Statement(t) \/ AbortDeadlocked(t)
        \/ \E w \in Rewards : Create(w)
        \/ \E u \in Children : Adjust(u)

Spec == Init /\ [][Next]_vars

(* A thread keeps issuing statements; row locks are granted in the order   *)
(* they were asked for, and a deadlock is detected after a second.         *)
Fairness == \A t \in Threads : SF_vars(Statement(t)) /\ WF_vars(AbortDeadlocked(t))

LiveSpec == Spec /\ Fairness

-----------------------------------------------------------------------------
(* Properties *)

(* A reward has at most one open request: contribute_reward and            *)
(* redeem_reward refuse while one is pending.                              *)
AtMostOnePending ==
  \A r, s \in Redemptions :
    /\ redemption[r].status = "pending" /\ redemption[s].status = "pending"
    /\ redemption[r].reward = redemption[s].reward
    => r = s

(* Points reserved for a reward never exceed its price, however the        *)
(* contributions of several children and price changes interleave.         *)
NeverOverReserved ==
  \A w \in Rewards : ActiveOf(w) # {} => PointsIn(ActiveOf(w)) <= reward[w].cost

(* The ledger agrees with the status of every source: the points of a      *)
(* contribution are taken while it is reserved, submitted or consumed and  *)
(* given back exactly once when it is released; a rejected redemption      *)
(* keeps nothing and nothing was given back for it twice.                  *)
LedgerSettled ==
  /\ \A c \in Contributions :
       charged[c] = IF contribution[c].status \in {"reserved", "submitted", "consumed"}
                    THEN contribution[c].points ELSE 0
  /\ \A r \in Redemptions :
       /\ charged[r] >= 0
       /\ redemption[r].status \in {"none", "rejected"} => charged[r] = 0

(* A submitted contribution waits for a pending request of its own reward, *)
(* and the contributions of that request add up to the price, so that a    *)
(* parent can always approve it.                                           *)
SubmittedIsFunded ==
  \A c \in Contributions : contribution[c].status = "submitted" =>
    \E r \in Redemptions :
      /\ r = contribution[c].redemption
      /\ redemption[r].status = "pending"
      /\ redemption[r].reward = contribution[c].reward
      /\ PointsIn(LinkedTo(r)) = reward[contribution[c].reward].cost

(* Points are put on hold only when the balance covers them at the moment  *)
(* of the commit ("Punkte sofort reservieren, damit keine Mehrfachanfragen *)
(* über das verfügbare Guthaben hinaus möglich sind").                     *)
Taken(x) == IF charged'[x] > charged[x] THEN charged'[x] - charged[x] ELSE 0

OwnerOf(x) == IF x \in Contributions THEN contribution'[x].by ELSE redemption'[x].by

ReservationsCovered ==
  [][\A x \in Sources : Taken(x) > 0 => Taken(x) <= Balance(OwnerOf(x))]_vars

(* A reviewed request is never reviewed again. *)
ReviewedOnce ==
  [][\A r \in Redemptions : redemption[r].status \in {"approved", "rejected"} =>
       redemption'[r].status = redemption[r].status]_vars

(* A request is approved only when the reward has been paid in full, by    *)
(* its own reservation or by the contributions consumed with it.           *)
PaidFor(r) ==
  charged'[r] + SumFunction([c \in LinkedTo(r) |->
                         IF contribution'[c].status = "consumed" THEN charged'[c] ELSE 0])

ApprovedIsPaid ==
  [][\A r \in Redemptions :
       redemption[r].status # "approved" /\ redemption'[r].status = "approved" =>
         PaidFor(r) >= reward[redemption[r].reward].cost]_vars

(* The price and the kind of a reward stay fixed while points are reserved *)
(* for it or a request is open.                                            *)
PriceFrozen ==
  [][\A w \in Rewards : ActiveOf(w) # {} \/ PendingOf(w) # {} =>
       /\ reward'[w].cost = reward[w].cost
       /\ reward'[w].shareable = reward[w].shareable
       /\ reward'[w].status = reward[w].status]_vars

(* Every request is answered, deadlocks among row locks included. *)
RequestsEnd == \A t \in Threads : pc[t] # "idle" ~> pc[t] = "idle"

-----------------------------------------------------------------------------
(* The endpoints implement the escrow. *)

HoldState(x) ==
  LET s == IF x \in Contributions THEN contribution[x].status ELSE redemption[x].status IN
  IF s = "none" THEN "free"
  ELSE IF s \in {"reserved", "submitted", "pending"} THEN "held"
  ELSE IF s \in {"consumed", "approved"} THEN "spent"
  ELSE "returned"

HoldView ==
  [x \in Sources |->
     [state |-> HoldState(x),
      owner |-> IF x \in Contributions THEN contribution[x].by ELSE redemption[x].by,
      amount |-> charged[x],
      bundle |-> IF x \in Contributions THEN contribution[x].redemption
                 ELSE IF redemption[x].status = "none" THEN None ELSE x]]

Escrow == INSTANCE PointsEscrow WITH Users <- Children, Holds <- Sources, hold <- HoldView

(* Reservations, reviews and refunds, statement by statement and thread by *)
(* thread, have the effect of the atomic steps of PointsEscrow.            *)
EscrowImplemented == Escrow!Spec

=============================================================================

-------------------------- MODULE RewardsInvariant --------------------------
(***************************************************************************)
(* The inductive invariant of Rewards: what the tables, the row locks and  *)
(* the snapshots of the sessions have to do with each other.               *)
(***************************************************************************)
EXTENDS Rewards

(***************************************************************************)
(* Well-formedness: types, and what each thread has read by the time it    *)
(* reaches a statement.  It holds with and without row locks.              *)
(***************************************************************************)

(* Rows refer to rows that exist; unused identities are blank. *)
RowsKnown ==
  /\ \A r \in Redemptions :
       IF redemption[r].status = "none" THEN redemption[r] = NoRedemption
       ELSE redemption[r].reward \in Rewards /\ redemption[r].by \in Children
  /\ \A c \in Contributions :
       IF contribution[c].status = "none" THEN contribution[c] = NoContribution
       ELSE contribution[c].reward \in Rewards /\ contribution[c].by \in Children

HoldsReward(t) == pc[t] \in {"pending", "contributions", "ledger", "user", "write"}

HoldsRedemption(t) == IsReview(t) /\ pc[t] # "redemption"

(* Will the commit take points after looking at the balance? *)
Spends(t) ==
  \/ Takes(t)
  \/ /\ IsReview(t)
     /\ request[t].decision = "approved"
     /\ seen[t].contributions = {}
     /\ seen[t].reward.cost > seen[t].reserved

Local(t) ==
  /\ pc[t] = "idle" <=> request[t] = NoRequest
  /\ pc[t] = "redemption" => IsReview(t)
  /\ pc[t] = "ledger" => IsReview(t)
  /\ pc[t] = "pending" => ~IsReview(t)
  /\ pc[t] = "user" => Spends(t)
  /\ IsReview(t) => /\ redemption[request[t].redemption].status # "none"
                    /\ redemption[request[t].redemption].reward = request[t].reward
                    /\ redemption[request[t].redemption].by = request[t].child
  /\ \A c \in seen[t].contributions : contribution[c].status # "none"

WellFormed == TypeOK /\ RowsKnown /\ \A t \in Threads : Local(t)

-----------------------------------------------------------------------------
(***************************************************************************)
(* With row locks: who holds which lock, and why what a session has read   *)
(* still holds when it commits.                                            *)
(***************************************************************************)

(* Redemptions, contributions and sessions refer to rewards that were      *)
(* created.                                                                *)
Born ==
  /\ \A r \in Redemptions :
       redemption[r].status # "none" => reward[redemption[r].reward].status # "unborn"
  /\ \A c \in Contributions :
       contribution[c].status # "none" => reward[contribution[c].reward].status # "unborn"
  /\ \A t \in Threads : HoldsReward(t) => reward[request[t].reward].status # "unborn"

Held(t) ==
  /\ HoldsRedemption(t) => owner[request[t].redemption] = t
  /\ HoldsReward(t) => owner[request[t].reward] = t
  /\ pc[t] = "write" /\ Spends(t) => owner[request[t].child] = t

(* Does the commit change or remove a reward that must not be in use? *)
Edits(t) == request[t].op = "delete" \/ (request[t].op = "update" /\ Changes(t))

(* What the session t found out is still so. *)
Current(t) ==
  /\ pc[t] \in {"contributions", "user", "write"} /\ (Takes(t) \/ Edits(t)) =>
       PendingOf(request[t].reward) = {}
  /\ pc[t] = "write" /\ Edits(t) => ActiveOf(request[t].reward) = {}
  /\ IsReview(t) =>
       /\ pc[t] = "reward" => seen[t].status = redemption[request[t].redemption].status
       /\ HoldsReward(t) => /\ redemption[request[t].redemption].status = "pending"
                            /\ request[t].decision # "pending"
       /\ pc[t] \in {"ledger", "user", "write"} =>
            seen[t].contributions = LinkedTo(request[t].redemption)
       /\ pc[t] \in {"user", "write"} =>
            seen[t].reserved = ReservedPoints(request[t].redemption)
  /\ pc[t] = "write" /\ Spends(t) => Needed(t) <= Balance(request[t].child)

(* Everything that the safety of the endpoints rests on, inductive when    *)
(* the database locks rows.                                                *)
Safe ==
  /\ WellFormed
  /\ Born
  /\ LedgerSettled
  /\ AtMostOnePending
  /\ \A t \in Threads : Held(t) /\ Current(t)

-----------------------------------------------------------------------------
(***************************************************************************)
(* With row locks: what keeps the prices paid.  The points a session added *)
(* up are still those of the reward when it commits, and the contributions *)
(* of a reward are either all open or all submitted with one request.      *)
(***************************************************************************)

(* What the session t read of the price and of the contributions holds.    *)
Informed(t) ==
  LET q == request[t]  paid == seen[t].contributions IN
  /\ HoldsReward(t) => seen[t].reward.cost = reward[q.reward].cost
  /\ pc[t] \in {"user", "write"} /\ Takes(t) =>
       /\ paid = ActiveOf(q.reward)
       /\ q.op = "contribute" => q.points <= seen[t].reward.cost - PointsIn(paid)
       /\ q.op = "redeem" => paid = {}

OpenOrSubmitted ==
  \A c \in Contributions :
    LET row == contribution[c] IN
    /\ row.status = "reserved" => row.redemption = None
    /\ row.status = "submitted" =>
         /\ row.redemption \in Redemptions
         /\ redemption[row.redemption].status = "pending"
         /\ redemption[row.redemption].reward = row.reward
         /\ LinkedTo(row.redemption) = ActiveOf(row.reward)
         /\ PointsIn(ActiveOf(row.reward)) = reward[row.reward].cost

Solvent == Safe /\ NeverOverReserved /\ OpenOrSubmitted /\ \A t \in Threads : Informed(t)

=============================================================================

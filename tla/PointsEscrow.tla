---------------------------- MODULE PointsEscrow ----------------------------
(***************************************************************************)
(* What the reward endpoints promise about points, without requests,       *)
(* transactions or database rows.                                          *)
(*                                                                         *)
(* Points a user was granted can be put on hold.  A hold is opened only    *)
(* when the user's available points cover it, holds are tied together in   *)
(* a bundle when a reward is asked for, and a bundle is settled once and   *)
(* as a whole: every hold of it is spent, or every hold of it is returned. *)
(***************************************************************************)
EXTENDS Integers, Functions

CONSTANTS Users,   \* the members who own points
          Holds,   \* identities of holds
          None     \* no user, no bundle

VARIABLES granted, \* granted[u]: points from every other source, net
          hold     \* hold[h]: the state of one hold

vars == <<granted, hold>>

States == {"free", "held", "spent", "returned"}

HoldType == [state: States, owner: Users \union {None},
             amount: Int, bundle: Holds \union {None}]

(* The holds of a user, and the points the user can still put on hold. *)
HoldsOf(u) == {h \in Holds : hold[h].owner = u}

Available(u) == granted[u] - SumFunction([h \in HoldsOf(u) |-> hold[h].amount])

Free == [state |-> "free", owner |-> None, amount |-> 0, bundle |-> None]

Init ==
  /\ granted \in [Users -> Int]
  /\ hold \in [Holds -> HoldType]
  /\ \A h \in Holds : \/ hold[h] = Free
                      \/ /\ hold[h].state = "held"
                         /\ hold[h].amount = 0
                         /\ hold[h].bundle = h

Grant(u) ==
  /\ granted' \in [Users -> Int]
  /\ \A v \in Users \ {u} : granted'[v] = granted[v]
  /\ UNCHANGED hold

(* A new hold h of user u, covered by what u has available. *)
Opens(u, h) ==
  /\ hold[h].state = "free"
  /\ hold'[h].state = "held"
  /\ hold'[h].owner = u
  /\ hold'[h].amount \in Nat
  /\ hold'[h].amount <= Available(u)

Open(u, h) ==
  /\ Opens(u, h)
  /\ hold'[h].bundle = None
  /\ hold' = [hold EXCEPT ![h] = hold'[h]]
  /\ UNCHANGED granted

(* Opening h completes a request b: h, b and the holds B join one bundle. *)
OpenBundle(u, h, b, B) ==
  /\ Opens(u, h)
  /\ h # b => hold[b].state = "free"
  /\ \A x \in B : hold[x].state = "held" /\ hold[x].bundle = None
  /\ hold' = [x \in Holds |->
                IF x = h THEN [state |-> "held", owner |-> u,
                               amount |-> hold'[h].amount, bundle |-> b]
                ELSE IF x = b THEN [state |-> "held", owner |-> u, amount |-> 0, bundle |-> b]
                ELSE IF x \in B THEN [hold[x] EXCEPT !.bundle = b]
                ELSE hold[x]]
  /\ UNCHANGED granted

Bundle(b) == {h \in Holds : hold[h].state = "held" /\ hold[h].bundle = b}

Settled(h, state, amount) ==
  [state |-> state, owner |-> hold[h].owner, amount |-> amount, bundle |-> hold[h].bundle]

(* Every hold of the bundle is spent.  The hold that names the bundle may  *)
(* be topped up from the available points of its owner.                    *)
Spend(b) ==
  /\ b \in Bundle(b)
  /\ hold'[b].amount >= hold[b].amount
  /\ hold'[b].amount > hold[b].amount =>
       hold'[b].amount - hold[b].amount <= Available(hold[b].owner)
  /\ hold' = [h \in Holds |->
                IF h = b THEN Settled(h, "spent", hold'[b].amount)
                ELSE IF h \in Bundle(b) THEN Settled(h, "spent", hold[h].amount)
                ELSE hold[h]]
  /\ UNCHANGED granted

(* Every hold of the bundle is given back in full. *)
Return(b) ==
  /\ b \in Bundle(b)
  /\ hold' = [h \in Holds |->
                IF h \in Bundle(b) THEN Settled(h, "returned", 0)
                ELSE hold[h]]
  /\ UNCHANGED granted

Next ==
  \/ \E u \in Users : Grant(u)
  \/ \E u \in Users, h \in Holds : Open(u, h)
  \/ \E u \in Users, h, b \in Holds : \E B \in SUBSET Holds : OpenBundle(u, h, b, B)
  \/ \E b \in Holds : Spend(b) \/ Return(b)

Spec == Init /\ [][Next]_vars

=============================================================================

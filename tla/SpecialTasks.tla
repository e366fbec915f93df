---------------------------- MODULE SpecialTasks ----------------------------
(***************************************************************************)
(* Special tasks: a parent keeps a template, children claim it a number of *)
(* times per day (routers/tasks.py).                                       *)
(*                                                                         *)
(* A claim is a request of several statements: the advisory lock on the    *)
(* template and the child, the template FOR UPDATE, the count, the insert  *)
(* with its commit.  Everything else commits in one step.  The clock is    *)
(* local time; rows carry UTC, which is Offset ticks behind.               *)
(*                                                                         *)
(* Left out: templates other than one, weekly and monthly intervals (they  *)
(* differ in where the interval begins), weekdays, the texts and points.   *)
(***************************************************************************)
EXTENDS Handlers

CONSTANTS Claimants,    \* children
          ClaimIds,     \* bound: rows of claimed tasks
          MaxQuota,     \* bound: max_claims_per_interval
          TicksPerDay,  \* resolution of the clock
          Offset,       \* local time minus UTC
          DueTick,      \* due_time_hhmm of the template
          LastTick      \* bound: the last moment

ASSUME SpecialAssumption ==
  /\ None \notin Claimants
  /\ {MaxQuota, TicksPerDay, LastTick} \subseteq Nat \ {0}
  /\ Offset \in 0..TicksPerDay - 1 /\ Offset <= LastTick /\ DueTick \in 0..TicksPerDay - 1

VARIABLES tick,        \* the local clock
          template,    \* its row, or None
          claimed,     \* the tasks claimed from it
          windowOwner, \* who holds pg_advisory_xact_lock(template, child)
          rowOwner,    \* who holds the template's row lock
          claim        \* the claims under way

specialVars == <<tick, template, claimed, windowOwner, rowOwner, claim>>

-----------------------------------------------------------------------------
TemplateRow == [max: 1..MaxQuota, active: BOOLEAN]
ClaimRow == [by: Claimants, made: 0..LastTick - Offset,
             status: {"open", "submitted", "rejected", "approved"}]

NoClaim == [pc |-> "idle", by |-> None]

SpecialInit ==
  /\ tick = Offset
  /\ template = None
  /\ claimed = [i \in {} |-> None]
  /\ windowOwner = [c \in Claimants |-> None]
  /\ rowOwner = None
  /\ claim = [t \in Threads |-> NoClaim]

-----------------------------------------------------------------------------
(* _interval_start, _special_task_usage_count *)
Midnight == (tick \div TicksPerDay) * TicksPerDay

(* Mutant: only tasks that are still open count. *)
UsageOpenOnly(c) ==
  Cardinality({i \in DOMAIN claimed : /\ claimed[i].by = c /\ claimed[i].status = "open"
                                      /\ claimed[i].made >= Midnight})

Usage(c) ==
  Cardinality({i \in DOMAIN claimed : claimed[i].by = c /\ claimed[i].made >= Midnight})

Offered == template # None /\ template.active /\ tick % TicksPerDay <= DueTick

EndsClaim(t) ==
  /\ claim' = [claim EXCEPT ![t] = NoClaim]
  /\ windowOwner' = [c \in Claimants |-> IF windowOwner[c] = t THEN None ELSE windowOwner[c]]
  /\ rowOwner' = IF rowOwner = t THEN None ELSE rowOwner

BeginClaim(t) ==
  /\ claim[t].pc = "idle"
  /\ template # None
  /\ \E c \in Claimants : claim' = [claim EXCEPT ![t] = [pc |-> "begun", by |-> c]]
  /\ UNCHANGED <<tick, template, claimed, windowOwner, rowOwner>>

LockClaimWindow(t) ==
  /\ claim[t].pc = "begun"
  /\ RowIsFree(windowOwner[claim[t].by])
  /\ windowOwner' = [windowOwner EXCEPT ![claim[t].by] = Taken(t)]
  /\ claim' = [claim EXCEPT ![t].pc = "window"]
  /\ UNCHANGED <<tick, template, claimed, rowOwner>>

LockTemplate(t) ==
  /\ claim[t].pc = "window"
  /\ RowIsFree(rowOwner)
  /\ \/ /\ Offered
        /\ rowOwner' = Taken(t)
        /\ claim' = [claim EXCEPT ![t].pc = "locked"]
        /\ UNCHANGED windowOwner
     \/ /\ ~Offered
        /\ EndsClaim(t)
  /\ UNCHANGED <<tick, template, claimed>>

CountUsage(t) ==
  /\ claim[t].pc = "locked"
  /\ \/ /\ Usage(claim[t].by) < template.max
        /\ claim' = [claim EXCEPT ![t].pc = "counted"]
        /\ UNCHANGED <<windowOwner, rowOwner>>
     \/ /\ Usage(claim[t].by) >= template.max
        /\ EndsClaim(t)
  /\ UNCHANGED <<tick, template, claimed>>

InsertClaim(t) ==
  /\ claim[t].pc = "counted"
  /\ \E i \in ClaimIds \ DOMAIN claimed :
       claimed' = [j \in DOMAIN claimed \union {i} |->
                     IF j = i THEN [by |-> claim[t].by, made |-> tick - Offset, status |-> "open"]
                     ELSE claimed[j]]
  /\ EndsClaim(t)
  /\ UNCHANGED <<tick, template>>

-----------------------------------------------------------------------------
(* What happens to claimed tasks: submitted (in time, late or as missed,   *)
(* which Tasks tells apart), reviewed, put back by the child while open or *)
(* rejected, deleted by a parent or by the review of a missed task.        *)
SubmitClaimed ==
  /\ \E i \in DOMAIN claimed : /\ claimed[i].status \in {"open", "rejected"}
                               /\ claimed' = [claimed EXCEPT ![i].status = "submitted"]
  /\ UNCHANGED <<tick, template, windowOwner, rowOwner, claim>>

ReviewClaimed ==
  /\ \E i \in DOMAIN claimed, s \in {"approved", "rejected"} :
       /\ claimed[i].status = "submitted"
       /\ claimed' = [claimed EXCEPT ![i].status = s]
  /\ UNCHANGED <<tick, template, windowOwner, rowOwner, claim>>

Removed(i) == claimed' = [j \in DOMAIN claimed \ {i} |-> claimed[j]]

Unclaim ==
  /\ \E i \in DOMAIN claimed : claimed[i].status \in {"open", "rejected"} /\ Removed(i)
  /\ UNCHANGED <<tick, template, windowOwner, rowOwner, claim>>

DeleteClaimed ==
  /\ \E i \in DOMAIN claimed : Removed(i)
  /\ UNCHANGED <<tick, template, windowOwner, rowOwner, claim>>

(* Mutant: the template is changed without waiting for its row. *)
EditTemplateAnytime ==
  /\ template # None
  /\ \E row \in TemplateRow : template' = row
  /\ UNCHANGED <<tick, claimed, windowOwner, rowOwner, claim>>

CreateTemplate ==
  /\ template = None
  /\ \E row \in TemplateRow : template' = row
  /\ UNCHANGED <<tick, claimed, windowOwner, rowOwner, claim>>

EditTemplate ==
  /\ template # None
  /\ rowOwner = None
  /\ \E row \in TemplateRow \ {template} : template' = row
  /\ UNCHANGED <<tick, claimed, windowOwner, rowOwner, claim>>

(* The tasks remain, without their template.                               *)
DeleteTemplate ==
  /\ template # None
  /\ rowOwner = None
  /\ template' = None
  /\ claimed' = [i \in {} |-> None]
  /\ UNCHANGED <<tick, windowOwner, rowOwner, claim>>

PassTime ==
  /\ tick < LastTick
  /\ tick' = tick + 1
  /\ UNCHANGED <<template, claimed, windowOwner, rowOwner, claim>>

SpecialNext ==
  \/ \E t \in Threads : BeginClaim(t) \/ LockClaimWindow(t) \/ LockTemplate(t)
                        \/ CountUsage(t) \/ InsertClaim(t)
  \/ SubmitClaimed \/ ReviewClaimed \/ Unclaim \/ DeleteClaimed
  \/ CreateTemplate \/ EditTemplate \/ DeleteTemplate \/ PassTime

SpecialSpec == SpecialInit /\ [][SpecialNext]_specialVars

-----------------------------------------------------------------------------
SpecialTypeOK ==
  /\ tick \in Offset..LastTick
  /\ template \in TemplateRow \union {None}
  /\ DOMAIN claimed \subseteq ClaimIds /\ \A i \in DOMAIN claimed : claimed[i] \in ClaimRow
  /\ windowOwner \in [Claimants -> Threads \union {None}]
  /\ rowOwner \in Threads \union {None}
  /\ claim \in [Threads -> [pc: {"idle", "begun", "window", "locked", "counted"},
                            by: Claimants \union {None}]]

WithinQuota ==
  \A i \in DOMAIN claimed' \ DOMAIN claimed :
    /\ template # None /\ template.active
    /\ Cardinality({j \in DOMAIN claimed' : /\ claimed'[j].by = claimed'[i].by
                                           /\ claimed'[j].made >= Midnight}) <= template.max

(* Whatever claims run at the same time, and whatever the parents change:   *)
(* a child gets a task only from an active template and within its quota    *)
(* for the day ("Das Limit gilt pro Vorlage und Kind").  What a child       *)
(* claimed in the first Offset ticks of the day is stored as made on the    *)
(* day before, and neither the code nor this property counts it.            *)
QuotaKept == [][WithinQuota]_specialVars

=============================================================================

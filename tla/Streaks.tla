------------------------------ MODULE Streaks ------------------------------
(***************************************************************************)
(* How far a child is in an achievement that asks for a series of periods  *)
(* (the rules of achievement_engine.py), and what the life of tasks does   *)
(* to it.  A period is a week or a month; periods are numbered.            *)
(*                                                                         *)
(* Left out: children other than one, tasks the recurrence types of the    *)
(* rule exclude, tasks without a due date, the times within a period       *)
(* (early: submitted before the cutoff of the rule).                       *)
(***************************************************************************)
EXTENDS Handlers, SequencesExt

CONSTANTS TaskIds,   \* bound: rows of tasks
          Templates, \* special task templates
          Minimum,   \* minimum_tasks of the rule
          Scan,      \* scan_limit: periods looked at, 24 or more in the code
          MaxFrozen, \* bound: periods frozen
          MaxPeriod  \* bound: the last period

ASSUME StreaksAssumption ==
  /\ None \notin Templates
  /\ {Minimum, Scan, MaxFrozen, MaxPeriod} \subseteq Nat

VARIABLES period,    \* the current period
          metric,    \* what the rule counts
          work,      \* the rows of tasks
          outcome,   \* the rows of achievement_task_records, by task_id
          frozen,    \* periods that a freeze window touches
          offered    \* active special task templates

streakVars == <<period, metric, work, outcome, frozen, offered>>

-----------------------------------------------------------------------------
Periods == 0..MaxPeriod
Metrics == {"all_due_tasks_completed", "all_due_tasks_completed_early",
            "all_active_special_tasks_completed"}
WorkRow == [due: Periods, template: Templates \union {None}, status: {"open", "approved"},
            early: BOOLEAN]
OutcomeRow == [due: Periods, template: Templates \union {None}, result: {"approved", "missed"},
               early: BOOLEAN]

StreaksInit ==
  /\ period = 0
  /\ metric \in Metrics
  /\ work = [i \in {} |-> None]
  /\ outcome = [i \in {} |-> None]
  /\ frozen = {}
  /\ offered = {}

-----------------------------------------------------------------------------
(* _evaluate_period and what it calls *)

OnTime(row) == metric = "all_due_tasks_completed_early" => row.early

Recorded(p) == {i \in DOMAIN outcome : outcome[i].due = p}
Unrecorded(p) == {i \in DOMAIN work \ Recorded(p) : work[i].due = p}
All(p) == Recorded(p) \union Unrecorded(p)

Done(p) == {i \in Recorded(p) : outcome[i].result = "approved" /\ OnTime(outcome[i])}
           \union {i \in Unrecorded(p) : work[i].status = "approved" /\ OnTime(work[i])}

Covered(p) ==
  {outcome[i].template : i \in {j \in Recorded(p) : outcome[j].result = "approved"}}

(* "frozen" and "uncounted" periods are passed over.                       *)
Result(p) ==
  IF p \in frozen THEN "frozen"
  ELSE IF metric = "all_active_special_tasks_completed"
       THEN IF offered = {} THEN "uncounted"
            ELSE IF offered \subseteq Covered(p) THEN "success" ELSE "failure"
       ELSE IF All(p) = {} \/ Cardinality(All(p)) < Minimum THEN "uncounted"
            ELSE IF Done(p) = All(p) THEN "success" ELSE "failure"

(* Newest first; what lies before the first period is empty.               *)
Results == [n \in 1..Scan |-> IF period - n + 1 \in Periods THEN Result(period - n + 1)
                              ELSE "uncounted"]

(* Mutant: a period that does not count ends the series. *)
CurrentStreakStrict ==
  FoldLeft(LAMBDA acc, r : IF acc.over \/ r = "frozen" THEN acc
                           ELSE IF r = "success" THEN [acc EXCEPT !.n = @ + 1]
                           ELSE [acc EXCEPT !.over = TRUE],
           [n |-> 0, over |-> FALSE], Results).n

CurrentStreak ==
  FoldLeft(LAMBDA acc, r : IF acc.over \/ r \in {"frozen", "uncounted"} THEN acc
                           ELSE IF r = "success" THEN [acc EXCEPT !.n = @ + 1]
                           ELSE [acc EXCEPT !.over = TRUE],
           [n |-> 0, over |-> FALSE], Results).n

BestStreak ==
  FoldLeft(LAMBDA acc, r : CASE r = "success" ->
                                  [rolling |-> acc.rolling + 1,
                                   best |-> IF acc.rolling + 1 > acc.best THEN acc.rolling + 1
                                            ELSE acc.best]
                             [] r = "failure" -> [acc EXCEPT !.rolling = 0]
                             [] OTHER -> acc,
           [rolling |-> 0, best |-> 0], Results).best

-----------------------------------------------------------------------------
(* The life of tasks, as far as an evaluation sees it.                     *)

(* Mutant: PostgreSQL too gives out the id of a deleted task again. *)
NewIdsReused == TaskIds \ DOMAIN work

(* PostgreSQL: the id of a task that left a record is never given out      *)
(* again, one that nothing refers to any more is as good as a new one.     *)
(* SQLite gives out the highest id again once its row is gone.             *)
NewIds == TaskIds \ (DOMAIN work \union IF RowLocks THEN DOMAIN outcome ELSE {})

Without(rows, i) == [j \in DOMAIN rows \ {i} |-> rows[j]]

With(rows, i, row) == [j \in DOMAIN rows \union {i} |-> IF j = i THEN row ELSE rows[j]]

(* The child gets a task, a new one or somebody else's, past ones too.     *)
(* Under a rule that counts special tasks nothing else is of interest.     *)
Assign ==
  /\ \E i \in NewIds, due \in Periods :
       \E s \in IF metric = "all_active_special_tasks_completed" THEN offered ELSE {None} :
         work' = With(work, i, [due |-> due, template |-> s, status |-> "open", early |-> FALSE])
  /\ UNCHANGED <<period, metric, outcome, frozen, offered>>

(* An edit gives a task that is not approved another due date, or the      *)
(* maintenance pulls tomorrow's daily task back to today.  One that also   *)
(* approves it is this step and ApproveTask.                               *)
Reschedule ==
  /\ \E i \in DOMAIN work, due \in Periods :
       /\ work[i].status = "open"
       /\ work' = [work EXCEPT ![i].due = due]
  /\ UNCHANGED <<period, metric, outcome, frozen, offered>>

(* A review of a submission, also of a missed one, at any later time;      *)
(* record_task_outcome writes the one record of this task_id.              *)
ApproveTask ==
  /\ \E i \in DOMAIN work, early \in BOOLEAN :
       /\ work[i].status = "open"
       /\ early => metric = "all_due_tasks_completed_early" /\ work[i].due >= period
       /\ work' = [work EXCEPT ![i].status = "approved", ![i].early = early]
       /\ outcome' = With(outcome, i, [due |-> work[i].due, template |-> work[i].template,
                                       result |-> "approved", early |-> early])
  /\ UNCHANGED <<period, metric, frozen, offered>>

(* The review of a missed task records that and deletes the task.          *)
MissTask ==
  /\ \E i \in DOMAIN work :
       /\ work[i].status = "open"
       /\ work' = Without(work, i)
       /\ outcome' = With(outcome, i, [due |-> work[i].due, template |-> work[i].template,
                                       result |-> "missed", early |-> FALSE])
  /\ UNCHANGED <<period, metric, frozen, offered>>

(* Deleting a task, or giving it to another child, leaves its record.      *)
DeleteTask ==
  /\ \E i \in DOMAIN work : work' = Without(work, i)
  /\ UNCHANGED <<period, metric, outcome, frozen, offered>>

(* A freeze window touches periods, past ones too.                         *)
Freeze ==
  /\ Cardinality(frozen) < MaxFrozen
  /\ \E p \in Periods : frozen' = frozen \union {p}
  /\ UNCHANGED <<period, metric, work, outcome, offered>>

(* A template is created, activated, deactivated or deleted.               *)
Offer ==
  /\ metric = "all_active_special_tasks_completed"
  /\ \E s \in Templates : offered' = IF s \in offered THEN offered \ {s} ELSE offered \union {s}
  /\ UNCHANGED <<period, metric, work, outcome, frozen>>

NextPeriod ==
  /\ period < MaxPeriod
  /\ period' = period + 1
  /\ UNCHANGED <<metric, work, outcome, frozen, offered>>

StreaksNext == \/ Assign \/ Reschedule \/ ApproveTask \/ MissTask \/ DeleteTask
               \/ Freeze \/ Offer \/ NextPeriod

StreaksSpec == StreaksInit /\ [][StreaksNext]_streakVars

-----------------------------------------------------------------------------
StreaksTypeOK ==
  /\ period \in Periods /\ metric \in Metrics
  /\ DOMAIN work \subseteq TaskIds /\ \A i \in DOMAIN work : work[i] \in WorkRow
  /\ DOMAIN outcome \subseteq TaskIds /\ \A i \in DOMAIN outcome : outcome[i] \in OutcomeRow
  /\ frozen \subseteq Periods /\ offered \subseteq Templates

Scanned == {p \in Periods : p <= period /\ p > period - Scan}
Won == {p \in Scanned : Result(p) = "success"}
Lost == {p \in Scanned : Result(p) = "failure"}

(* The two loops count what a streak is: the periods won since the last     *)
(* one lost, and the longest row of periods won with none lost between      *)
(* them; periods frozen or without tasks neither end nor lengthen it.       *)
StreakIsReference ==
  /\ CurrentStreak = Cardinality({p \in Won : \A q \in Lost : q < p})
  /\ \A a, b \in Scanned :
       Lost \intersect a..b = {} => Cardinality(Won \intersect a..b) <= BestStreak
  /\ BestStreak > 0 =>
       \E a, b \in Scanned : /\ Lost \intersect a..b = {}
                             /\ Cardinality(Won \intersect a..b) = BestStreak

(* What a child has reached is not lost by approvals, deletions or time: a  *)
(* streak gets shorter only when the child gets another task, misses one or *)
(* is late, when a task not done yet is moved into a period that is lost by *)
(* that, when a period is frozen, when the templates change, when the       *)
(* period begins for which tasks were already there, or when a period won   *)
(* leaves the scan.                                                         *)
StreakFallsExplained ==
  [][CurrentStreak' < CurrentStreak =>
       \/ DOMAIN work' \ DOMAIN work # {}
       \/ \E i \in DOMAIN work' \intersect DOMAIN work :
            work'[i].due # work[i].due /\ work'[i].due \in Lost' \ Lost
       \/ \E i \in DOMAIN outcome' \ DOMAIN outcome :
            \/ outcome'[i].result = "missed"
            \/ metric = "all_due_tasks_completed_early" /\ ~outcome'[i].early
       \/ frozen' # frozen
       \/ offered' # offered
       \/ period' > period /\ (period' \in Lost' \/ period - Scan + 1 \in Won)]_streakVars

=============================================================================

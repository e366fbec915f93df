------------------------------ MODULE MCTasks ------------------------------
(* Small instances of Tasks for TLC: days of two ticks, weeks of two days. *)
EXTENDS Tasks, TLC

Symmetry == Permutations(Threads)

ShortPeriod == [k \in Recurring |-> IF k = "daily" THEN 1 ELSE 2]

(* One daily task that is penalised, due in the second half of the day. *)
Daily == [kind |-> "daily", due |-> 1, penalty |-> TRUE, always |-> FALSE]

DailyInputs == {Daily}

(* A task is corrected, or approved by hand, or the penalty of a missed    *)
(* one is switched off.                                                    *)
SomeEdits == {[input |-> Daily, active |-> TRUE, status |-> "open"],
              [input |-> Daily, active |-> TRUE, status |-> "approved"],
              [input |-> [Daily EXCEPT !.penalty = FALSE], active |-> FALSE, status |-> "missed_submitted"]}

(* No edit at all. *)
NoEdits == {}

=============================================================================

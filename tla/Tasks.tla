-------------------------------- MODULE Tasks --------------------------------
(***************************************************************************)
(* The tasks of one family: creation, editing, submission, review, and the *)
(* maintenance that rolls a recurring series over.                         *)
(*                                                                         *)
(* A request is three steps at most.  Begin: its rows are read, and locked *)
(* FOR UPDATE, and it is not refused.  Query: it looks for other rows of   *)
(* the series, which are not locked.  Write: everything it decided becomes *)
(* visible with the commit.                                                *)
(*                                                                         *)
(* RowLocks = TRUE is PostgreSQL.  RowLocks = FALSE is the default SQLite  *)
(* file: what Begin read may be out of date, but from the first flush, in  *)
(* which the write lock is taken, queries see what is committed.  An       *)
(* UPDATE writes the changed columns only, on either database.             *)
(*                                                                         *)
(* The maintenance selects its rows for each of its parts.  Under row      *)
(* locks they are taken once here: what it holds stays as it is, and rows  *)
(* that somebody adds meanwhile wait for the next round.  On SQLite each   *)
(* part reads them anew (Reload).                                          *)
(*                                                                         *)
(* Left out: flexible weekly tasks (no due date), special tasks, weekdays  *)
(* on which a daily task rests, rows from before series existed; who may   *)
(* send a request, and what it does to achievements and live events.       *)
(***************************************************************************)
EXTENDS Integers, FiniteSets, Folds

CONSTANTS Threads,      \* threads of the pool and of the workers
          None,         \* no thread
          TicksPerDay,  \* resolution of the clock
          Period,       \* days from one occurrence to the next, per kind
          Inputs,       \* the tasks that create_task is asked for
          Edits,        \* the payloads of update_task that are tried
          RowLocks,     \* TRUE: PostgreSQL, FALSE: SQLite
          MaxTasks,     \* bound: rows ever inserted
          MaxSeries,    \* bound: series ever begun
          MaxRequests,  \* bound: requests of parents and children
          MaxTime       \* bound: the last tick

Recurring == {"daily", "weekly", "monthly"}
Kinds == Recurring \union {"none"}
NoDue == -1
Due == Nat \union {NoDue}

Input == {x \in [kind: Kinds, due: Due, penalty: BOOLEAN, always: BOOLEAN] :
            /\ x.kind \in Recurring => x.due # NoDue
            /\ x.penalty => x.kind \in {"daily", "weekly"}}

ASSUME TasksAssumption ==
  /\ None \notin Threads
  /\ {TicksPerDay, MaxTasks, MaxSeries, MaxRequests, MaxTime}
     \subseteq Nat \ {0}
  /\ Period \in [Recurring -> 1..31]
  /\ Inputs \subseteq Input
  /\ \A e \in Edits : /\ e.input \in Input /\ e.active \in BOOLEAN
                      /\ e.status \in {"open", "submitted", "missed_submitted",
                                       "approved", "rejected"}
  /\ RowLocks \in BOOLEAN

VARIABLES now,       \* the clock
          task,      \* the tasks table
          last,      \* the highest id handed out
          serial,    \* series ids handed out
          credited,  \* history: ledger rows of source task_approval, per task, at most 2
          charged,   \* history: rows of source task_penalty since the due date was set
                     \* or the penalty switched off, at most 2
          ended,     \* history: series a parent deleted, deactivated or dissolved
          owner,     \* row locks
          begun,     \* requests of parents and children so far
          pc,        \* the next step of a thread
          request,
          seen       \* rows of the table as the thread read them

tables == <<task, last, serial, credited, charged, ended>>
threads == <<owner, begun, pc, request, seen>>
vars == <<now, tables, threads>>

-----------------------------------------------------------------------------
(* Types *)

Ids == 1..MaxTasks

Row == [status: {"none", "open", "submitted", "missed_submitted", "approved", "rejected", "deleted"},
        kind: Kinds, due: Due, penalty: BOOLEAN, always: BOOLEAN, active: BOOLEAN,
        series: Nat, applied: Due, created: 0..MaxTime]

NoRow == [status |-> "none", kind |-> "none", due |-> NoDue, penalty |-> FALSE,
          always |-> FALSE, active |-> FALSE, series |-> 0, applied |-> NoDue, created |-> 0]

NoRequest == [op |-> "none"]

Request ==
  [op: {"create"}, input: Inputs]
  \union [op: {"update"}, id: Ids, edit: Edits]
  \union [op: {"set active"}, id: Ids, to: BOOLEAN]
  \union [op: {"submit", "submit and approve", "report missed", "delete", "delete instance"}, id: Ids]
  \union [op: {"review"}, id: Ids, decision: {"approved", "rejected"}]
  \union [op: {"review missed"}, id: Ids, action: {"approve", "delete", "penalty"}]
  \union [op: {"review all missed"}, action: {"approve", "delete", "penalty"}]
  \union [op: {"maintain"}]

TypeOK ==
  /\ now \in 0..MaxTime
  /\ task \in [Ids -> Row]
  /\ last \in 0..MaxTasks
  /\ \A i \in Ids : /\ task[i] = NoRow <=> i > last
                    /\ task[i].kind \in Recurring => task[i].series # 0 /\ task[i].due # NoDue
                    /\ task[i].series <= serial
  /\ serial \in 0..MaxSeries
  /\ credited \in [Ids -> 0..2] /\ charged \in [Ids -> 0..2]
  /\ ended \subseteq 1..serial
  /\ owner \in [Ids -> Threads \union {None}]
  /\ begun \in 0..MaxRequests
  /\ pc \in [Threads -> {"idle", "query", "write"}]
  /\ request \in [Threads -> Request \union {NoRequest}]
  /\ seen \in [Threads -> [Ids -> Row]]

-----------------------------------------------------------------------------
(* The calendar *)

Date(t) == t \div TicksPerDay
Midnight(d) == d * TicksPerDay

Step(kind) == Period[kind] * TicksPerDay

(* _next_due *)
NextDue(row) == row.due + Step(row.kind)

(* _align_due_for_active_task *)
Align(due, kind) ==
  IF due = NoDue \/ kind = "none" \/ due > now THEN due
  ELSE due + Step(kind) * ((now - due) \div Step(kind) + 1)

(* _next_cycle_boundary, and the end of the day of creation *)
Boundary(row) ==
  IF row.due = NoDue THEN Midnight(Date(row.created) + 1)
  ELSE IF row.kind \in {"none", "daily"} THEN Midnight(Date(row.due) + 1)
  ELSE Midnight(Date(NextDue(row)))

(* _validate_task_submission_window *)
InWindow(row, wasMissed) ==
  /\ row.kind = "daily" /\ ~row.always /\ ~wasMissed => Date(row.due) = Date(now)
  /\ row.due # NoDue /\ ~row.always => row.due <= now \/ Date(row.due) = Date(now)

-----------------------------------------------------------------------------
(* Which rows a request locks, and when it is refused *)

Pending(row) == row.status \in {"open", "rejected"}
Missed(row) == row.status = "missed_submitted"
Exists(row) == row.status \notin {"none", "deleted"}

(* The rows that _run_family_task_maintenance selects FOR UPDATE.          *)
Candidates == {i \in Ids : task[i].active /\ Pending(task[i])}

Named(req) == IF "id" \in DOMAIN req THEN {req.id} ELSE {}

Selected(req) ==
  CASE req.op = "maintain"          -> Candidates
    [] req.op = "review all missed" -> {i \in Ids : Missed(task[i])}
    [] OTHER                        -> Named(req)

(* Mutant: a submitted task can be reported as missed. *)
PermitsReportAlways(row, op) ==
  CASE op = "update"             -> row.status # "approved"
    [] op = "submit"             -> (Pending(row) \/ Missed(row)) /\ InWindow(row, Missed(row))
    [] op = "submit and approve" -> Pending(row) /\ InWindow(row, FALSE)
    [] op = "report missed"      -> (Pending(row) \/ row.status = "submitted") /\ row.due # NoDue /\ row.due < now
    [] op = "review"             -> row.status = "submitted"
    [] op = "review missed"      -> Missed(row)
    [] op = "delete instance"    -> /\ row.status # "approved"
                                    /\ row.kind \in Recurring => row.active
    [] OTHER                     -> TRUE

(* Mutant: an approved task can be reviewed again. *)
PermitsReviewAgain(row, op) ==
  CASE op = "update"             -> row.status # "approved"
    [] op = "submit"             -> (Pending(row) \/ Missed(row)) /\ InWindow(row, Missed(row))
    [] op = "submit and approve" -> Pending(row) /\ InWindow(row, FALSE)
    [] op = "report missed"      -> Pending(row) /\ row.due # NoDue /\ row.due < now
    [] op = "review"             -> row.status \in {"submitted", "approved"}
    [] op = "review missed"      -> Missed(row)
    [] op = "delete instance"    -> /\ row.status # "approved"
                                    /\ row.kind \in Recurring => row.active
    [] OTHER                     -> TRUE

(* No 404 and no 400. *)
Permits(row, op) ==
  CASE op = "update"             -> row.status # "approved"
    [] op = "submit"             -> (Pending(row) \/ Missed(row)) /\ InWindow(row, Missed(row))
    [] op = "submit and approve" -> Pending(row) /\ InWindow(row, FALSE)
    [] op = "report missed"      -> Pending(row) /\ row.due # NoDue /\ row.due < now
    [] op = "review"             -> row.status = "submitted"
    [] op = "review missed"      -> Missed(row)
    [] op = "delete instance"    -> /\ row.status # "approved"
                                    /\ row.kind \in Recurring => row.active
    [] OTHER                     -> TRUE

Accepted(req) == \A i \in Named(req) : Exists(task[i]) /\ Permits(task[i], req.op)

-----------------------------------------------------------------------------
(* What a request does.  A session is its own rows, the rows its queries   *)
(* find, the ids it has used, and the ledger rows it added.                *)

With(row, columns) ==
  [c \in DOMAIN row |-> IF c \in DOMAIN columns THEN columns[c] ELSE row[c]]

(* Only the columns that differ from the session's row are written. *)
Written(row, own, columns) ==
  [c \in DOMAIN row |-> IF c \in DOMAIN columns /\ columns[c] # own[c] THEN columns[c] ELSE row[c]]

(* The columns to set, by the row.                                         *)
SetEach(s, columns) ==
  [s EXCEPT !.own = [i \in Ids |-> IF i \in DOMAIN columns THEN With(@[i], columns[i]) ELSE @[i]],
            !.found = [i \in Ids |-> IF i \in DOMAIN columns
                                     THEN Written(@[i], s.own[i], columns[i]) ELSE @[i]]]

Set(s, S, columns) == SetEach(s, [i \in S |-> columns])

Insert(s, row) ==
  [s EXCEPT !.last = @ + 1, !.own = [i \in Ids |-> IF i = s.last + 1 THEN row ELSE @[i]],
                            !.found = [i \in Ids |-> IF i = s.last + 1 THEN row ELSE @[i]]]

NewSeries(s) == [s EXCEPT !.serial = @ + 1]

(* _existing_open_recurring_successor *)
Successors(s, i) ==
  {j \in Ids \ {i} : /\ s.found[j].series = s.own[i].series /\ s.found[j].active
                     /\ s.found[j].status \in {"open", "rejected", "submitted"}}

(* Mutant: only open rows count as the next occurrence. *)
CreateNextOften(s, i) ==
  LET row == s.own[i] IN
  IF ~row.active \/ row.kind \notin Recurring
     \/ \E j \in Successors(s, i) : s.found[j].status = "open" THEN s
  ELSE Insert(s, [row EXCEPT !.status = "open", !.due = NextDue(row), !.applied = NoDue,
                             !.created = now])

(* _create_next_recurring_task *)
CreateNext(s, i) ==
  LET row == s.own[i] IN
  IF ~row.active \/ row.kind \notin Recurring \/ Successors(s, i) # {} THEN s
  ELSE Insert(s, [row EXCEPT !.status = "open", !.due = NextDue(row), !.applied = NoDue,
                             !.created = now])

(* _deactivate_related_recurring_tasks *)
DeactivateRelated(s, i) ==
  LET related(j) == j # i /\ s.found[j].series = s.own[i].series /\ s.found[j].active IN
  IF s.own[i].kind \notin Recurring THEN s
  ELSE [s EXCEPT !.found = [j \in Ids |-> IF related(j) THEN [@[j] EXCEPT !.active = FALSE] ELSE @[j]]]

(* _approve_task_submission *)
Approve(s, i) ==
  CreateNext([Set(s, {i}, [status |-> "approved"]) EXCEPT !.credit = @ \union {i}], i)

Delete(s, i) == Set(s, {i}, [status |-> "deleted", active |-> FALSE])

(* Mutant: a penalty the maintenance has taken is taken again. *)
ReviewMissedTwice(s, i, action) ==
  IF action = "approve" THEN Approve(s, i)
  ELSE LET charge == IF action = "penalty" THEN {i} ELSE {}
       IN  Delete(CreateNext([s EXCEPT !.charge = @ \union charge], i), i)

(* _review_missed_task_in_session *)
ReviewMissed(s, i, action) ==
  LET row == s.own[i]
      charge == IF action = "penalty" /\ (row.due = NoDue \/ row.applied < row.due)
                THEN {i} ELSE {}
  IN
  IF action = "approve" THEN Approve(s, i)
  ELSE Delete(CreateNext([s EXCEPT !.charge = @ \union charge], i), i)

(* Mutant: the series is begun with the second occurrence. *)
CreateWithoutSeries(s, input) ==
  LET next == IF input.kind \in Recurring THEN NewSeries(s) ELSE s IN
  Insert(next, [status |-> "open", kind |-> input.kind, due |-> Align(input.due, input.kind),
                penalty |-> input.penalty, always |-> input.always, active |-> TRUE,
                series |-> 0,
                applied |-> NoDue, created |-> now])

(* create_task *)
Create(s, input) ==
  LET next == IF input.kind \in Recurring THEN NewSeries(s) ELSE s IN
  Insert(next, [status |-> "open", kind |-> input.kind, due |-> Align(input.due, input.kind),
                penalty |-> input.penalty, always |-> input.always, active |-> TRUE,
                series |-> IF input.kind \in Recurring THEN next.serial ELSE 0,
                applied |-> NoDue, created |-> now])

(* update_task *)
Update(s, i, e) ==
  LET old == s.own[i]
      recurring == e.input.kind \in Recurring
      next == IF recurring /\ old.series = 0 THEN NewSeries(s) ELSE s
      edited == Set(next, {i},
        [kind |-> e.input.kind, penalty |-> e.input.penalty, always |-> e.input.always,
         due |-> IF e.active THEN Align(e.input.due, e.input.kind) ELSE e.input.due,
         series |-> IF ~recurring THEN 0 ELSE IF old.series = 0 THEN next.serial ELSE old.series,
         applied |-> IF e.input.penalty THEN old.applied ELSE NoDue,
         active |-> e.active, status |-> e.status])
      decided == IF e.status = "approved" THEN Approve(edited, i) ELSE edited
  IN
  IF old.active /\ ~e.active THEN DeactivateRelated(decided, i) ELSE decided

(* set_task_active *)
SetActive(s, i, to) ==
  LET old == s.own[i] IN
  IF to THEN Set(s, {i}, [active |-> TRUE, due |-> Align(old.due, old.kind)])
  ELSE IF old.active THEN DeactivateRelated(Set(s, {i}, [active |-> FALSE]), i)
  ELSE Set(s, {i}, [active |-> FALSE])

(* review_all_missed_tasks *)
ReviewAllMissed(s, S, action) ==
  LET review(i, r) == ReviewMissed(r, i, action)
  IN  MapThenFoldSet(review, s, LAMBDA i : i, LAMBDA U : CHOOSE i \in U : \A j \in U : j <= i, S)

-----------------------------------------------------------------------------
(* The maintenance *)

(* _realign_daily_tasks_for_family: tomorrow's task can still be done today. *)
Realign(s) ==
  LET early(i) == /\ s.own[i].kind = "daily"
                  /\ Date(s.own[i].created) < Date(now)
                  /\ Date(s.own[i].due) = Date(now) + 1
                  /\ s.own[i].due - TicksPerDay > now
      S == {i \in s.candidates : early(i)}
  IN  SetEach(s, [i \in S |-> [due |-> s.own[i].due - TicksPerDay]])

(* _rollover_missed_tasks_for_family *)
Expired(row) == (row.due # NoDue => row.due < now) /\ now >= Boundary(row)

(* The last of the rows U, by due date.                                    *)
Latest(rows, U) ==
  CHOOSE i \in U : \A j \in U : \/ rows[j].due < rows[i].due
                                \/ rows[j].due = rows[i].due /\ j <= i

(* Mutant: a rejected task stays for ever. *)
RolloverOpen(s) ==
  LET S == {i \in s.candidates : Expired(s.own[i]) /\ s.own[i].status = "open"}
      miss(i, r) == CreateNext(Set(r, {i}, [status |-> "missed_submitted"]), i)
  IN  MapThenFoldSet(miss, s, LAMBDA i : i, LAMBDA U : Latest(s.own, U), S)

Rollover(s) ==
  LET S == {i \in s.candidates : Expired(s.own[i])}
      miss(i, r) == CreateNext(Set(r, {i}, [status |-> "missed_submitted"]), i)
  IN  MapThenFoldSet(miss, s, LAMBDA i : i, LAMBDA U : Latest(s.own, U), S)

(* The pending rows of a later query of the session: its candidates that   *)
(* are still pending, and the rows it inserted.                            *)
StillPending(s) ==
  {i \in Ids : (i \in s.candidates \/ i > last) /\ s.own[i].active /\ Pending(s.own[i])}

(* Mutant: only rows for the same due date count as duplicates. *)
DeduplicateSameDay(s) ==
  LET S == {i \in StillPending(s) : s.own[i].series # 0
              /\ \E j \in StillPending(s) : s.own[j].series = s.own[i].series /\ j > i
                /\ s.own[j].due = s.own[i].due}
  IN  Set(s, S, [active |-> FALSE])

(* _deduplicate_active_open_recurring_tasks *)
Deduplicate(s) ==
  LET S == {i \in StillPending(s) : s.own[i].series # 0
              /\ \E j \in StillPending(s) : s.own[j].series = s.own[i].series /\ j > i}
  IN  Set(s, S, [active |-> FALSE])

(* _apply_penalties_for_family *)
Penalise(s) ==
  LET S == {i \in StillPending(s) : /\ s.own[i].penalty /\ s.own[i].kind \in {"daily", "weekly"}
                                    /\ s.own[i].due <= now /\ s.own[i].applied < s.own[i].due}
      charge == [s EXCEPT !.charge = @ \union S]
  IN  SetEach(charge, [i \in S |-> [applied |-> s.own[i].due]])

(* The next SELECT of a session that holds SQLite's write lock finds what  *)
(* is committed, and the rows it has written itself.                       *)
Reload(s) ==
  IF RowLocks THEN s
  ELSE [s EXCEPT !.own = s.found,
                 !.candidates = {i \in Ids : s.found[i].active /\ Pending(s.found[i])}]

(* _run_family_task_maintenance.  The write lock is taken by the first     *)
(* row it changes, or else by the DELETE of expired blocks, which comes    *)
(* after the rollover (_active_generation_block_hashes).                   *)
Maintain(s) ==
  LET aligned == Realign(s)
  IN  Penalise(Deduplicate(Reload(Rollover(IF aligned = s THEN s ELSE Reload(aligned)))))

-----------------------------------------------------------------------------
(* Requests *)

(* Does the request look for other rows? *)
Looks(req) == req.op \notin {"create", "submit", "delete"}

(* What a session reads of its own rows, and of other rows. *)
Own(t) == IF RowLocks THEN task ELSE seen[t]
Found(t) == IF RowLocks /\ Looks(request[t]) THEN seen[t] ELSE task

Session(t) ==
  [own |-> Own(t), found |-> Found(t), last |-> last, serial |-> serial,
   candidates |-> {i \in Ids : IF RowLocks THEN owner[i] = t
                               ELSE seen[t][i].active /\ Pending(seen[t][i])},
   credit |-> {}, charge |-> {}]

Outcome(t) ==
  LET s == Session(t)
      req == request[t]
      missed == {i \in Ids : IF RowLocks THEN owner[i] = t ELSE Missed(seen[t][i])}
  IN
  CASE req.op = "create"             -> Create(s, req.input)
    [] req.op = "update"             -> Update(s, req.id, req.edit)
    [] req.op = "set active"         -> SetActive(s, req.id, req.to)
    [] req.op = "submit"             -> Set(s, {req.id}, [status |-> "submitted"])
    [] req.op = "submit and approve" -> Approve(s, req.id)
    [] req.op = "report missed"      ->
         CreateNext(Set(s, {req.id}, [status |-> "missed_submitted"]), req.id)
    [] req.op = "review"             ->
         IF req.decision = "approved" THEN Approve(s, req.id)
         ELSE Set(s, {req.id}, [status |-> "rejected"])
    [] req.op = "review missed"      -> ReviewMissed(s, req.id, req.action)
    [] req.op = "review all missed"  -> ReviewAllMissed(s, missed, req.action)
    [] req.op = "delete"             -> Delete(s, req.id)
    [] req.op = "delete instance"    -> Delete(CreateNext(s, req.id), req.id)
    [] req.op = "maintain"           -> Maintain(s)

-----------------------------------------------------------------------------
(* Steps *)

Blank == [i \in Ids |-> NoRow]

(* The maintenance lock: PostgreSQL keeps it until the commit, the process *)
(* lock that replaces it on SQLite is released before the caller commits.  *)
Maintaining(t) == request[t].op = "maintain" /\ (RowLocks \/ pc[t] = "query")

(* On SQLite: the maintenance has flushed and holds the write lock.        *)
Flushed(t) == request[t].op = "maintain" /\ ~RowLocks /\ pc[t] = "write"

Begin(t, req) ==
  /\ pc[t] = "idle"
  /\ Accepted(req)
  /\ IF req.op = "maintain" THEN (\A u \in Threads : ~Maintaining(u)) /\ UNCHANGED begun
     ELSE begun < MaxRequests /\ begun' = begun + 1
  /\ IF RowLocks
     THEN /\ \A i \in Selected(req) : owner[i] = None
          /\ owner' = [i \in Ids |-> IF i \in Selected(req) THEN t ELSE owner[i]]
          /\ pc' = [pc EXCEPT ![t] = IF Looks(req) THEN "query" ELSE "write"]
          /\ UNCHANGED seen
     ELSE /\ seen' = [seen EXCEPT ![t] = task]
          /\ pc' = [pc EXCEPT ![t] = IF req.op = "maintain" THEN "query" ELSE "write"]
          /\ UNCHANGED owner
  /\ request' = [request EXCEPT ![t] = req]
  /\ UNCHANGED <<now, tables>>

(* PostgreSQL: the queries for other rows.  SQLite: the first statement of *)
(* the maintenance that writes.                                            *)
Query(t) ==
  /\ pc[t] = "query"
  /\ \A u \in Threads : ~Flushed(u)
  /\ pc' = [pc EXCEPT ![t] = "write"]
  /\ seen' = IF RowLocks THEN [seen EXCEPT ![t] = task] ELSE seen
  /\ UNCHANGED <<now, tables, owner, begun, request>>

End(t) ==
  /\ pc' = [pc EXCEPT ![t] = "idle"]
  /\ request' = [request EXCEPT ![t] = NoRequest]
  /\ seen' = [seen EXCEPT ![t] = Blank]
  /\ owner' = [i \in Ids |-> IF owner[i] = t THEN None ELSE owner[i]]
  /\ UNCHANGED begun

(* The committed rows that the session updates. *)
Updated(t, s) == {i \in 1..last : s.found[i] # Found(t)[i]}

(* Of a row that it did not lock, a session sets is_active only. *)
Merged(t, s) ==
  [i \in Ids |-> IF i > last THEN s.found[i]
                 ELSE IF i \notin Updated(t, s) THEN task[i]
                 ELSE IF RowLocks /\ owner[i] # t THEN [task[i] EXCEPT !.active = FALSE]
                 ELSE s.found[i]]

(* A series ends when a parent deletes, deactivates or dissolves it. *)
Ending(req) ==
  CASE req.op = "delete"     -> {task[req.id].series} \ {0}
    [] req.op = "set active" -> IF req.to THEN {} ELSE {task[req.id].series} \ {0}
    [] req.op = "update"     -> IF req.edit.active /\ req.edit.input.kind \in Recurring THEN {}
                                ELSE {task[req.id].series} \ {0}
    [] OTHER                 -> {}

UpTo2(n) == IF n > 2 THEN 2 ELSE n

(* An edit switched the penalty off, and with it the record of the last.   *)
Forgotten(i) == task[i].applied # NoDue /\ task'[i].applied = NoDue

(* The commit. *)
Write(t) ==
  LET s == Outcome(t) IN
  /\ pc[t] = "write"
  /\ \A u \in Threads \ {t} : ~Flushed(u)
  /\ s.last <= MaxTasks /\ s.serial <= MaxSeries
  /\ \A i \in Updated(t, s) : owner[i] \in {t, None} /\ Exists(task[i])
  /\ task' = Merged(t, s)
  /\ last' = s.last
  /\ serial' = s.serial
  /\ credited' = [i \in Ids |-> IF i \in s.credit THEN UpTo2(credited[i] + 1) ELSE credited[i]]
  /\ charged' = [i \in Ids |->
       LET before == IF task'[i].due # task[i].due \/ Forgotten(i) THEN 0 ELSE charged[i]
       IN  IF i \in s.charge THEN UpTo2(before + 1) ELSE before]
  /\ ended' = ended \union Ending(request[t])
  /\ End(t)
  /\ UNCHANGED now

(* A row to be updated is gone (StaleDataError). *)
Fail(t) ==
  /\ pc[t] = "write"
  /\ \A u \in Threads \ {t} : ~Flushed(u)
  /\ \E i \in Updated(t, Outcome(t)) : ~Exists(task[i])
  /\ End(t)
  /\ UNCHANGED <<now, tables>>

(* Two sessions deactivate each other's rows; PostgreSQL aborts one. *)
WaitsFor(t) ==
  IF pc[t] # "write" THEN {} ELSE {owner[i] : i \in Updated(t, Outcome(t))} \ {t, None}

AbortDeadlocked(t) ==
  /\ \E u \in WaitsFor(t) : t \in WaitsFor(u)
  /\ End(t)
  /\ UNCHANGED <<now, tables>>

Tick ==
  /\ now < MaxTime
  /\ now' = now + 1
  /\ UNCHANGED <<tables, threads>>

-----------------------------------------------------------------------------
Init ==
  /\ now = 0
  /\ task = Blank /\ last = 0 /\ serial = 0
  /\ credited = [i \in Ids |-> 0] /\ charged = [i \in Ids |-> 0]
  /\ ended = {}
  /\ owner = [i \in Ids |-> None]
  /\ begun = 0
  /\ pc = [t \in Threads |-> "idle"]
  /\ request = [t \in Threads |-> NoRequest]
  /\ seen = [t \in Threads |-> Blank]

Continue(t) == Query(t) \/ Write(t) \/ Fail(t) \/ AbortDeadlocked(t)

Next == \/ Tick
        \/ \E t \in Threads, req \in Request : Begin(t, req)
        \/ \E t \in Threads : Continue(t)

Spec == Init /\ [][Next]_vars

(* Every session ends, and the penalty worker comes again and again.  The  *)
(* waits that could prevent it (a lock whose holder waits in turn) end in  *)
(* AbortDeadlocked; a session that needs more rows than MaxTasks is left   *)
(* out of the liveness properties, which allow for last = MaxTasks.        *)
Fairness == /\ \A t \in Threads : []<>(pc[t] = "idle")
            /\ []<>(\E t \in Threads : request[t].op = "maintain" /\ pc[t] = "query")

LiveSpec == Spec /\ Fairness

-----------------------------------------------------------------------------
(* Properties *)

(* A task is paid for when it is approved, and once, whoever submits,      *)
(* edits, reviews or reports it at the same time.                          *)
PaidOnce ==
  \A i \in Ids : /\ credited[i] <= 1
                 /\ task[i].status = "approved" => credited[i] = 1
                 /\ credited[i] = 1 => task[i].status \in {"approved", "deleted"}

(* Minus points for one due date are taken once, be it by the worker, by a *)
(* listing or by a parent ("damit parallele Jobs nicht doppelt eingreifen", *)
(* CHANGELOG 74), unless an edit made the row forget that they were.       *)
ChargedOnce == \A i \in Ids : charged[i] <= 1

(* What a child has submitted is not turned into a missed task by the      *)
(* maintenance or by a report that was under way.                          *)
SubmissionKept ==
  [][\A i \in Ids : (task[i].status = "submitted" /\ task'[i].status = "missed_submitted") =>
       \E t \in Threads : pc[t] = "write" /\ request[t].op = "update" /\ request[t].id = i]_vars

(* A series that no parent ended has an occurrence that waits for somebody *)
(* ("damit Serien-Aufgaben korrekt fortgeführt werden", CHANGELOG 110).    *)
SeriesGoesOn ==
  \A s \in 1..serial \ ended :
    \E i \in Ids : /\ task[i].series = s /\ task[i].active
                   /\ task[i].status \in {"open", "rejected", "submitted", "missed_submitted"}

(* A task whose cycle is over is rolled over by the maintenance, or         *)
(* somebody acts on it: it does not stay overdue for ever.                 *)
Overdue(i) == task[i].active /\ Pending(task[i]) /\ Expired(task[i])

RolledOver == \A i \in Ids : Overdue(i) ~> (~Overdue(i) \/ last = MaxTasks)

(* Duplicates that parallel requests leave behind vanish ("Keep one        *)
(* current open row per recurring series").                                *)
Duplicates(i, j) ==
  /\ task[i].series = task[j].series /\ task[i].series # 0
  /\ \A k \in {i, j} : task[k].active /\ Pending(task[k])

DuplicatesVanish ==
  \A i, j \in Ids : (i < j /\ Duplicates(i, j)) ~> (~Duplicates(i, j) \/ last = MaxTasks)

=============================================================================

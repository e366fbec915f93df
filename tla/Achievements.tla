---------------------------- MODULE Achievements ----------------------------
(***************************************************************************)
(* The transactions around achievements (achievement_engine.py,            *)
(* achievement_calibration.py, routers/achievements.py and adjust_points): *)
(* points are earned and evaluated, achievements unlocked and claimed, the *)
(* targets of the family calibrated.                                       *)
(*                                                                         *)
(* Every handler commits once, at its end.  Until then what it wrote is    *)
(* its own, and so are the locks of PostgreSQL on the rows it wrote,       *)
(* locked or referred to.  A step is one statement that takes locks, or    *)
(* some that insert and write rows, with the reads before the next one.    *)
(* On SQLite (RowLocks = FALSE) nobody waits.                              *)
(*                                                                         *)
(* Left out: how far a child is (Streaks), achievements other              *)
(* than one on earned points, all of them worth points; catalog changes.   *)
(***************************************************************************)
EXTENDS Handlers

CONSTANTS Children,  \* users that earn
          MaxPoints  \* bound: points a child earns; the achievement needs them all

ASSUME AchievementsAssumption == None \notin Children /\ MaxPoints \in Nat \ {0}

VARIABLES calibration,  \* status of the family's calibration row, or "missing"
          earned,       \* committed points per child
          progress,     \* the row of achievement_progress, per child
          rewards,      \* history: unlock events and points granted, per child
          locks,        \* locks held by each thread
          trip          \* the requests

achievementVars == <<calibration, earned, progress, rewards, locks, trip>>

-----------------------------------------------------------------------------
Claims == {"profile", "reward"}

(* Rows and their locks: "share" is FOR KEY SHARE, taken on a row that an  *)
(* inserted row refers to, "write" the lock of an UPDATE that changes no   *)
(* key, "update" FOR UPDATE.                                               *)
Rows == {<<"user", c>> : c \in Children}
        \union {<<"definition", None>>, <<"calibration", None>>, <<"family", None>>,
                <<"events", None>>}
Modes == {"share", "write", "update"}
Child(c, mode) == <<<<"user", c>>, mode>>
Definition(mode) == <<<<"definition", None>>, mode>>
Calibration == <<<<"calibration", None>>, "write">>
Family(mode) == <<<<"family", None>>, mode>>

(* The live events of the family past the limit, which emit_live_event     *)
(* deletes in batches: two sessions that do want the same rows.            *)
Events == <<<<"events", None>>, "update">>

Conflict(x, y) == /\ x[1] = y[1]
                  /\ \/ "update" \in {x[2], y[2]}
                     \/ x[2] = "write" /\ y[2] = "write"

Statuses == {"missing", "pending", "ready", "applied"}
ProgressRow == [unlocked: BOOLEAN, claimed: BOOLEAN, granted: BOOLEAN]
NoProgress == [unlocked |-> FALSE, claimed |-> FALSE, granted |-> FALSE]

ASSUME ProgressAssumption == None \notin ProgressRow

Trip == [op: {"none", "post", "overview", "profile", "reward", "recalibrate", "edit"},
         pc: {"idle", "insert", "lock", "entry", "read", "calibrate", "claim", "evaluate",
              "award", "family", "write", "commit"},
         trims: BOOLEAN,                     \* has emitted an event that passes the limit
         child: Children \union {None},
         seen: Statuses \union {"unread"},   \* the calibration as this session has it
         sets: Statuses \union {"same"},     \* what it writes to the status column
         before: Statuses \union {"unread"}, \* what the row was when it was read
         row: ProgressRow \union {None},     \* the progress as read under the child's lock
         events: 0..1, adds: 0..1]

NoTrip == [op |-> "none", pc |-> "idle", trims |-> FALSE, child |-> None,
           seen |-> "unread", sets |-> "same",
           before |-> "unread", row |-> None, events |-> 0, adds |-> 0]

AchievementsInit ==
  /\ calibration = "missing"
  /\ earned = [c \in Children |-> 0]
  /\ progress = [c \in Children |-> NoProgress]
  /\ rewards = [c \in Children |-> [events |-> 0, grants |-> 0]]
  /\ locks = [t \in Threads |-> {}]
  /\ trip = [t \in Threads |-> NoTrip]

-----------------------------------------------------------------------------
(* A request that has live events to delete does so before anything else.  *)
Reached(t, pc) == trip[t].pc = pc /\ ~trip[t].trims

(* Whether a claim changes anything, and so emits live events. *)
Emits(r) == \/ r.op = "profile" /\ ~r.row.claimed
            \/ r.op = "reward" /\ r.row.claimed /\ ~r.row.granted

(* What the statement at which a request has arrived must lock.            *)
Wants(t) ==
  LET r == trip[t] IN
  CASE r.trims -> {Events}
    [] Reached(t, "insert") -> {Child(r.child, "share"), Family("share")}
    [] Reached(t, "lock") -> {Child(r.child, "update")}
    [] Reached(t, "entry") -> {Definition("update")}
    [] Reached(t, "calibrate") -> {Calibration}
                                  \union IF r.before = "missing" THEN {Family("share")} ELSE {}
    [] Reached(t, "claim") -> IF Emits(r) THEN {Family("share")} ELSE {}
    [] Reached(t, "award") -> {Definition("share"), Family("share")}
    [] Reached(t, "family") -> {Family("update")}
    [] Reached(t, "write") -> {Child(r.child, "write")}
    [] OTHER -> {}

WaitsFor(s, t) == s # t /\ \E x \in Wants(s), y \in locks[t] : Conflict(x, y)

Deadlocked(S) == S # {} /\ \A s \in S : \E t \in S : WaitsFor(s, t)

Acquire(t) ==
  /\ \A s \in Threads : ~WaitsFor(t, s)
  /\ locks' = IF RowLocks THEN [locks EXCEPT ![t] = @ \union Wants(t)] ELSE locks

Ended(t) ==
  /\ trip' = [trip EXCEPT ![t] = NoTrip]
  /\ locks' = [locks EXCEPT ![t] = {}]

committed == <<calibration, earned, progress, rewards>>

-----------------------------------------------------------------------------
(* The start of each request; who may send it is not modelled.             *)

(* Mutant: a claim refreshes the calibration first, as the overview does. *)
FirstRefreshes(op) == CASE op = "post" -> "insert"
                        [] op = "edit" -> "family"
                        [] OTHER -> "read"

First(op) == CASE op = "post" -> "insert"
               [] op \in {"overview", "recalibrate"} -> "read"
               [] op \in Claims -> "lock"
               [] op = "edit" -> "family"

Continue(t) == IF trip[t].op \in Claims THEN "claim" ELSE "evaluate"

BeginTrip(t) ==
  /\ trip[t].pc = "idle"
  /\ \E op \in {"post", "overview", "profile", "reward", "recalibrate", "edit"},
        c \in Children :
       /\ trip' = [trip EXCEPT ![t] = [NoTrip EXCEPT !.op = op, !.pc = First(op), !.child = c]]
  /\ UNCHANGED <<committed, locks>>

(* adjust_points, with a live event, and, once the child has its MaxPoints, *)
(* create_achievement_freeze: a row about the child.                        *)
Insert(t) ==
  /\ Reached(t, "insert")
  /\ Acquire(t)
  /\ LET adds == IF earned[trip[t].child] < MaxPoints THEN 1 ELSE 0 IN
     \E trims \in BOOLEAN :
       /\ trims => adds = 1
       /\ trip' = [trip EXCEPT ![t].pc = "lock", ![t].adds = adds, ![t].trims = trims]
  /\ UNCHANGED committed

(* update_member: the family, then the user, with a live event.            *)
EditMember(t) ==
  /\ Reached(t, "family") \/ Reached(t, "write")
  /\ Acquire(t)
  /\ \E trims \in BOOLEAN :
       /\ trims => trip[t].pc = "write"
       /\ trip' = [trip EXCEPT ![t].pc = IF @ = "family" THEN "write" ELSE "commit",
                               ![t].trims = trims]
  /\ UNCHANGED committed

(* _trim_live_events, which whoever emits an event calls.                  *)
Trim(t) ==
  /\ trip[t].trims
  /\ Acquire(t)
  /\ trip' = [trip EXCEPT ![t].trims = FALSE]
  /\ UNCHANGED committed

(* Mutant: the child's row is read without a lock. *)
LockChildNever(t) ==
  /\ Reached(t, "lock")
  /\ trip' = [trip EXCEPT ![t].pc = IF trip[t].op \in Claims THEN "entry" ELSE "read",
                          ![t].row = IF trip[t].op \in Claims THEN @ ELSE progress[trip[t].child]]
  /\ UNCHANGED <<committed, locks>>

(* _lock_achievement_user; an evaluation then has the progress as it is.   *)
LockChild(t) ==
  /\ Reached(t, "lock")
  /\ Acquire(t)
  /\ \/ /\ trip[t].op \in Claims
        /\ trip' = [trip EXCEPT ![t].pc = "entry"]
     \/ /\ trip[t].op \notin Claims
        /\ trip' = [trip EXCEPT ![t].pc = "read", ![t].row = progress[trip[t].child]]
  /\ UNCHANGED committed

(* _load_unlocked_progress, whose FOR UPDATE locks the joined row of the   *)
(* catalog with that of the progress.                                      *)
LockEntry(t) ==
  /\ Reached(t, "entry")
  /\ LET row == progress[trip[t].child] IN
     \/ /\ row.unlocked
        /\ Acquire(t)
        /\ trip' = [trip EXCEPT ![t].pc = "read", ![t].row = row]
     \/ /\ ~row.unlocked
        /\ \A s \in Threads : ~WaitsFor(t, s)
        /\ Ended(t)
  /\ UNCHANGED committed

-----------------------------------------------------------------------------
(* ensure_family_achievement_calibration                                   *)

AfterCalibration(t) == IF trip[t].row = None THEN "lock" ELSE Continue(t)

(* The status a session gives the row it has read; mature: the thresholds  *)
(* of days, tasks and rewards are met at that moment.                      *)
Ensured(status, mature) ==
  IF status = "applied" THEN "applied"
  ELSE IF status = "ready" \/ mature THEN "ready" ELSE "pending"

(* The read takes no lock, and a session that has the row does not see     *)
(* what others commit to it.  Written are a row that was missing, a status *)
(* that changes, figures that changed; an applied row is left alone.       *)
ReadCalibration(t) ==
  /\ Reached(t, "read")
  /\ trip[t].op = "recalibrate" => trip[t].row # None
  /\ LET status == IF trip[t].seen = "unread" THEN calibration ELSE trip[t].seen IN
     \E mature, writes \in BOOLEAN :
       LET new == Ensured(status, mature) IN
       /\ new # status => writes
       /\ writes => new # status \/ status # "applied"
       /\ trip' = [trip EXCEPT ![t].pc = IF writes THEN "calibrate" ELSE AfterCalibration(t),
                               ![t].seen = new,
                               ![t].before = IF @ = "unread" THEN calibration ELSE @,
                               ![t].sets = IF new = status THEN @ ELSE new]
  /\ UNCHANGED <<committed, locks>>

(* apply_family_achievement_recalibration                                  *)
ApplyCalibration(t) ==
  /\ Reached(t, "read") /\ trip[t].op = "recalibrate" /\ trip[t].row = None
  /\ trip' = [trip EXCEPT ![t].pc = "calibrate", ![t].seen = "applied", ![t].before = calibration,
                          ![t].sets = IF calibration = "applied" THEN "same" ELSE "applied"]
  /\ UNCHANGED <<committed, locks>>

(* Mutant: a row that is already there is overwritten instead of refused. *)
WriteCalibrationUpserts(t) ==
  /\ Reached(t, "calibrate")
  /\ Acquire(t)
  /\ trip' = [trip EXCEPT ![t].pc = AfterCalibration(t)]
  /\ UNCHANGED committed

(* A second row for the family violates the unique index.                  *)
WriteCalibration(t) ==
  /\ Reached(t, "calibrate")
  /\ \/ /\ trip[t].before = "missing" => calibration = "missing"
        /\ Acquire(t)
        /\ trip' = [trip EXCEPT ![t].pc = AfterCalibration(t)]
     \/ /\ trip[t].before = "missing" /\ calibration # "missing"
        /\ \A s \in Threads : ~WaitsFor(t, s)
        /\ Ended(t)
  /\ UNCHANGED committed

-----------------------------------------------------------------------------
(* claim_achievement_profile, claim_achievement_reward                     *)
Claim(t) ==
  /\ Reached(t, "claim")
  /\ \/ \E trims \in BOOLEAN :
          /\ trims => Emits(trip[t])
          /\ Acquire(t)
          /\ \/ /\ trip[t].op = "profile"
                /\ trip' = [trip EXCEPT ![t].pc = "evaluate", ![t].trims = trims,
                                        ![t].row.claimed = TRUE]
             \/ /\ trip[t].op = "reward" /\ trip[t].row.claimed
                /\ trip' = [trip EXCEPT ![t].pc = "evaluate", ![t].trims = trims,
                                        ![t].row.granted = TRUE,
                                        ![t].adds = IF trip[t].row.granted THEN 0 ELSE 1]
     \/ /\ trip[t].op = "reward" /\ ~trip[t].row.claimed
        /\ Ended(t)
  /\ UNCHANGED committed

(* evaluate_achievements_for_user, after its lock.  Points of the session  *)
(* count; what a claim grants is no earned point.  Rows are inserted when  *)
(* an achievement is unlocked or seen for the first time.  What the        *)
(* session knows of the calibration is not used again, except at the       *)
(* commit of a change.                                                     *)
Evaluate(t) ==
  /\ Reached(t, "evaluate")
  /\ LET own == IF trip[t].op = "post" THEN trip[t].adds ELSE 0
         new == /\ ~trip[t].row.unlocked
                /\ trip[t].seen \in {"ready", "applied"}
                /\ earned[trip[t].child] + own >= MaxPoints
     IN \E inserts \in BOOLEAN :
          /\ new => inserts
          /\ trip' = [trip EXCEPT ![t].pc = IF inserts THEN "award" ELSE "commit",
                                  ![t].row.unlocked = @ \/ new,
                                  ![t].events = IF new THEN 1 ELSE 0,
                                  ![t].seen = "unread",
                                  ![t].before = IF trip[t].sets = "same" THEN "unread" ELSE @]
  /\ UNCHANGED <<committed, locks>>

(* An unlocked achievement is announced, except from a freeze.             *)
Award(t) ==
  /\ Reached(t, "award")
  /\ Acquire(t)
  /\ \E trims \in BOOLEAN :
       /\ trims => trip[t].events = 1 /\ ~(trip[t].op = "post" /\ trip[t].adds = 0)
       /\ trip' = [trip EXCEPT ![t].pc = "commit", ![t].trims = trims]
  /\ UNCHANGED committed

CommitTrip(t) ==
  /\ Reached(t, "commit")
  /\ LET r == trip[t] IN
     /\ calibration' = IF r.sets = "same" THEN calibration ELSE r.sets
     /\ earned' = IF r.op = "post" THEN [earned EXCEPT ![r.child] = @ + r.adds] ELSE earned
     /\ progress' = IF r.op = "edit" THEN progress
                    ELSE [progress EXCEPT ![r.child] = [unlocked |-> @.unlocked \/ r.row.unlocked,
                                                        claimed |-> @.claimed \/ r.row.claimed,
                                                        granted |-> @.granted \/ r.row.granted]]
     /\ rewards' = IF r.op = "edit" THEN rewards
                   ELSE [rewards EXCEPT ![r.child] =
                           [events |-> @.events + r.events,
                            grants |-> @.grants + IF r.op = "reward" THEN r.adds ELSE 0]]
  /\ Ended(t)

(* PostgreSQL aborts one of the transactions that wait for each other.     *)
AbortDeadlocked(t) ==
  /\ \E S \in SUBSET Threads : t \in S /\ Deadlocked(S)
  /\ Ended(t)
  /\ UNCHANGED committed

AchievementsNext ==
  \E t \in Threads :
       \/ BeginTrip(t) \/ Insert(t) \/ EditMember(t) \/ Trim(t) \/ LockChild(t) \/ LockEntry(t)
       \/ ReadCalibration(t) \/ ApplyCalibration(t) \/ WriteCalibration(t)
       \/ Claim(t) \/ Evaluate(t) \/ Award(t) \/ CommitTrip(t) \/ AbortDeadlocked(t)

AchievementsSpec == AchievementsInit /\ [][AchievementsNext]_achievementVars

-----------------------------------------------------------------------------
AchievementsTypeOK ==
  /\ calibration \in Statuses
  /\ earned \in [Children -> 0..MaxPoints + Cardinality(Threads) - 1]
  /\ progress \in [Children -> ProgressRow]
  /\ rewards \in [Children -> [events: Nat, grants: Nat]]
  /\ \A t \in Threads : locks[t] \subseteq Rows \X Modes
  /\ trip \in [Threads -> Trip]

(* However many evaluations and claims run at the same time, an achievement *)
(* is unlocked with one event and its points are granted once, after the    *)
(* child took it into the profile.                                          *)
AwardedOnce ==
  \A c \in Children :
    /\ rewards[c].events = IF progress[c].unlocked THEN 1 ELSE 0
    /\ rewards[c].grants = IF progress[c].granted THEN 1 ELSE 0
    /\ progress[c].granted => progress[c].claimed
    /\ progress[c].claimed => progress[c].unlocked

(* Requests that wait for each other, of which PostgreSQL aborts one: in    *)
(* every such case one of them asks for the child's row after it has        *)
(* written something else (points, a freeze, the calibration, or, editing a *)
(* member, locked the family), or inserts a row that refers to the catalog  *)
(* entry which a claim has locked, or deletes the live events that another  *)
(* of them, now waiting for something else, has deleted before it.          *)
DeadlocksExplained ==
  \A S \in SUBSET Threads :
    Deadlocked(S) =>
      \E t \in S : /\ locks[t] # {}
                   /\ \/ Reached(t, "lock") /\ trip[t].op \notin Claims
                      \/ Reached(t, "write")
                      \/ Reached(t, "award") /\ \E s \in S : Definition("update") \in locks[s]
                      \/ trip[t].trims /\ \E s \in S \ {t} : \E y \in locks[s] : y[1] = Events[1]

(* What the parents applied stays applied, unless a session that had read   *)
(* the calibration when it was still pending commits afterwards.            *)
ApplicationLostExplained ==
  [][calibration = "applied" /\ calibration' # "applied" =>
       \E t \in Threads : /\ Reached(t, "commit")
                          /\ trip[t].before = "pending" /\ calibration' = "ready"]_achievementVars

=============================================================================

------------------------- MODULE AchievementsProofs -------------------------
(***************************************************************************)
(* Achievements  on PostgreSQL an achievement is unlocked and its points   *)
(*               are granted once; requests wait in a circle only where    *)
(*               DeadlocksExplained says, an applied calibration is undone *)
(*               only by a session that read it before, and the variables  *)
(*               keep their types, for every number of children and of     *)
(*               requests at the same time.                                *)
(* Streaks       the two loops over the periods compute what a streak is,  *)
(*               and the current one falls only for a reason, for every    *)
(*               number of tasks, of periods and of periods scanned.       *)
(***************************************************************************)
EXTENDS Achievements, Streaks, FiniteSetTheorems, WellFoundedInduction, TLAPS

(* What a request r with the locks held has established: from the lock of  *)
(* the child on, its copy of the progress is not behind the database, and  *)
(* the database with the events and points r adds agrees with the copy.    *)
Promise(r, held) ==
  /\ r.pc # "idle" => r.child \in Children
  /\ r.pc \in {"claim", "evaluate", "award"} => r.row # None
  /\ r.pc = "commit" => r.op = "edit" \/ r.row # None
  /\ r.pc \in {"family", "write"} => r.op = "edit"
  /\ r.pc = "insert" => r.op = "post"
  /\ r.pc = "entry" => Child(r.child, "update") \in held
  /\ r.pc \notin {"award", "commit"} => r.events = 0
  /\ r.op = "reward" /\ r.pc \notin {"evaluate", "award", "commit"} => r.adds = 0
  /\ r.row # None =>
       /\ r.child \in Children
       /\ Child(r.child, "update") \in held
       /\ progress[r.child].unlocked => r.row.unlocked
       /\ progress[r.child].claimed => r.row.claimed
       /\ progress[r.child].granted => r.row.granted
       /\ r.row.granted => r.row.claimed
       /\ r.row.claimed => r.row.unlocked
       /\ r.op \in Claims => r.row.unlocked
       /\ rewards[r.child].events + r.events = IF r.row.unlocked THEN 1 ELSE 0
       /\ rewards[r.child].grants + (IF r.op = "reward" THEN r.adds ELSE 0)
            = IF r.row.granted THEN 1 ELSE 0

Typed ==
  /\ calibration \in Statuses
  /\ progress \in [Children -> ProgressRow]
  /\ rewards \in [Children -> [events: Nat, grants: Nat]]
  /\ locks \in [Threads -> SUBSET (Rows \X Modes)]
  /\ trip \in [Threads -> Trip]

Compatible ==
  \A s, t \in Threads : s # t => \A x \in locks[s], y \in locks[t] : ~Conflict(x, y)

Promised == /\ Typed
            /\ Compatible
            /\ AwardedOnce
            /\ \A t \in Threads : Promise(trip[t], locks[t])

LEMMA InitPromised == AchievementsInit => Promised
  <1> SUFFICES ASSUME AchievementsInit PROVE Promised
    OBVIOUS
  <1>1. NoTrip \in Trip /\ Promise(NoTrip, {})
    BY DEF NoTrip, Trip, Promise, Statuses
  <1>2. Typed
    BY <1>1 DEF AchievementsInit, Typed, Statuses, ProgressRow, NoProgress
  <1>3. Compatible
    BY DEF AchievementsInit, Compatible
  <1>4. AwardedOnce
    BY DEF AchievementsInit, AwardedOnce, NoProgress
  <1> QED
    BY <1>1, <1>2, <1>3, <1>4 DEF AchievementsInit, Promised

-----------------------------------------------------------------------------
(* Locks *)

LEMMA WantsType ==
  ASSUME NEW t \in Threads, trip[t].pc # "idle" => trip[t].child \in Children
  PROVE  Wants(t) \subseteq Rows \X Modes
  <1> DEFINE r == trip[t]
  <1>1. /\ Calibration \in Rows \X Modes /\ Events \in Rows \X Modes
        /\ \A m \in Modes : Definition(m) \in Rows \X Modes /\ Family(m) \in Rows \X Modes
        /\ \A c \in Children, m \in Modes : Child(c, m) \in Rows \X Modes
    BY DEF Calibration, Events, Definition, Family, Child, Rows, Modes
  <1>2. {"share", "write", "update"} = Modes
    BY DEF Modes
  <1>3. r.pc # "idle" => r.child \in Children
    OBVIOUS
  <1>4. CASE r.pc = "insert"
    BY <1>1, <1>2, <1>3, <1>4 DEF Reached, Wants
  <1>5. CASE r.pc = "lock"
    BY <1>1, <1>2, <1>3, <1>5 DEF Reached, Wants
  <1>6. CASE r.pc = "calibrate"
    BY <1>1, <1>2, <1>6 DEF Reached, Wants
  <1>7. CASE r.pc = "award"
    BY <1>1, <1>2, <1>7 DEF Reached, Wants
  <1>8. CASE r.pc = "family"
    BY <1>1, <1>2, <1>8 DEF Reached, Wants
  <1>9. CASE r.pc = "write"
    BY <1>1, <1>2, <1>3, <1>9 DEF Reached, Wants
  <1>10. CASE r.trims \/ r.pc = "entry"
    BY <1>1, <1>2, <1>10 DEF Reached, Wants
  <1>11. CASE r.pc = "claim"
    BY <1>1, <1>2, <1>11 DEF Reached, Wants
  <1>12. CASE /\ ~r.trims
              /\ r.pc \notin {"insert", "lock", "entry", "calibrate", "claim", "award", "family", "write"}
    BY <1>12 DEF Reached, Wants
  <1> QED
    BY <1>4, <1>5, <1>6, <1>7, <1>8, <1>9, <1>10, <1>11, <1>12

LEMMA AcquireKeeps ==
  ASSUME RowLocks, Promised, NEW t \in Threads, Acquire(t)
  PROVE  /\ locks' \in [Threads -> SUBSET (Rows \X Modes)]
         /\ Compatible'
         /\ locks'[t] = locks[t] \union Wants(t)
         /\ \A s \in Threads : s # t => locks'[s] = locks[s]
  <1>1. /\ locks' = [locks EXCEPT ![t] = @ \union Wants(t)]
        /\ \A s \in Threads : ~WaitsFor(t, s)
    BY DEF Acquire
  <1>2. /\ locks' \in [Threads -> SUBSET (Rows \X Modes)]
        /\ locks'[t] = locks[t] \union Wants(t)
        /\ \A s \in Threads : s # t => locks'[s] = locks[s]
    BY <1>1, WantsType DEF Promised, Typed, Promise
  <1>3. \A x, y : Conflict(x, y) => Conflict(y, x)
    BY DEF Conflict
  <1>4. \A s \in Threads : s # t => \A x \in Wants(t), y \in locks[s] : ~Conflict(x, y)
    BY <1>1 DEF WaitsFor
  <1>5. \A s \in Threads : s # t => \A x \in locks'[t], y \in locks'[s] : ~Conflict(x, y)
    BY <1>2, <1>4 DEF Promised, Compatible
  <1>6. Compatible'
    BY <1>2, <1>3, <1>5 DEF Promised, Compatible
  <1> QED
    BY <1>2, <1>6

(* A step that commits nothing concerns its own request only.              *)
LEMMA OwnStep ==
  ASSUME RowLocks, Promised, NEW t \in Threads, NEW r \in Trip,
         trip' = [trip EXCEPT ![t] = r], UNCHANGED committed,
         UNCHANGED locks \/ Acquire(t), Promise(r, locks'[t])
  PROVE  Promised'
  <1>1. /\ locks' \in [Threads -> SUBSET (Rows \X Modes)] /\ Compatible'
        /\ \A s \in Threads : s # t => locks'[s] = locks[s]
    BY AcquireKeeps DEF Promised, Typed, Compatible
  <1>2. /\ trip' \in [Threads -> Trip] /\ trip'[t] = r
        /\ \A s \in Threads : s # t => trip'[s] = trip[s]
    BY DEF Promised, Typed
  <1>3. Typed'
    BY <1>1, <1>2 DEF Promised, Typed, committed
  <1>4. AwardedOnce'
    BY DEF Promised, AwardedOnce, committed
  <1>5. \A s \in Threads : Promise(trip'[s], locks'[s])
    BY <1>1, <1>2 DEF Promised
  <1>6. \A s \in Threads : Promise(trip[s], locks[s])'
    BY <1>5 DEF Promise, committed
  <1> QED
    BY <1>1, <1>3, <1>4, <1>6 DEF Promised

LEMMA EndsSafe ==
  ASSUME Promised, NEW t \in Threads, Ended(t), UNCHANGED committed
  PROVE  Promised'
  <1>1. NoTrip \in Trip /\ Promise(NoTrip, {})
    BY DEF NoTrip, Trip, Promise, Statuses
  <1>2. /\ trip' \in [Threads -> Trip] /\ trip'[t] = NoTrip
        /\ locks' \in [Threads -> SUBSET (Rows \X Modes)] /\ locks'[t] = {}
        /\ \A s \in Threads : s # t => trip'[s] = trip[s] /\ locks'[s] = locks[s]
    BY <1>1 DEF Promised, Typed, Ended
  <1>3. Typed' /\ Compatible' /\ AwardedOnce'
    BY <1>2 DEF Promised, Typed, Compatible, AwardedOnce, committed
  <1>4. \A s \in Threads : Promise(trip'[s], locks'[s])
    BY <1>1, <1>2 DEF Promised
  <1>5. \A s \in Threads : Promise(trip[s], locks[s])'
    BY <1>4 DEF Promise, committed
  <1> QED
    BY <1>3, <1>5 DEF Promised

-----------------------------------------------------------------------------
(* The statements before a commit *)

LEMMA BeginSafe ==
  ASSUME RowLocks, Promised, NEW t \in Threads, BeginTrip(t)
  PROVE  Promised'
  <1>1. PICK op \in {"post", "overview", "profile", "reward", "recalibrate", "edit"},
             c \in Children :
               trip' = [trip EXCEPT ![t] = [NoTrip EXCEPT !.op = op, !.pc = First(op), !.child = c]]
    BY DEF BeginTrip
  <1> DEFINE pc == First(op)
             r == [NoTrip EXCEPT !.op = op, !.pc = pc, !.child = c]
  <1>2. /\ pc \in {"insert", "lock", "read", "family"}
        /\ pc = "insert" => op = "post"
        /\ pc = "family" => op = "edit"
    BY DEF First, Claims
  <1> HIDE DEF pc
  <1>3. r \in Trip
    <2>1. NoTrip \in Trip
      BY DEF NoTrip, Trip, Statuses
    <2> DEFINE q == [NoTrip EXCEPT !.op = op]
               s == [q EXCEPT !.pc = pc]
    <2>2. q \in Trip
      BY <2>1 DEF Trip
    <2>3. s \in Trip
      <3> HIDE DEF q
      <3> QED
        BY <1>2, <2>2 DEF Trip
    <2>4. [s EXCEPT !.child = c] \in Trip
      <3> HIDE DEF s
      <3> QED
        BY <2>3 DEF Trip
    <2>5. r = [s EXCEPT !.child = c]
      OBVIOUS
    <2> QED
      BY <2>4, <2>5
  <1>4. /\ r.pc = pc /\ r.op = op /\ r.child = c /\ r.row = None
        /\ r.events = 0 /\ r.adds = 0
    BY DEF NoTrip
  <1> HIDE DEF r
  <1>5. Promise(r, locks[t])
    BY <1>2, <1>4 DEF Promise
  <1>6. locks' = locks /\ UNCHANGED committed
    BY DEF BeginTrip
  <1> QED
    BY <1>1, <1>3, <1>5, <1>6, OwnStep DEF r, pc

LEMMA InsertSafe ==
  ASSUME RowLocks, Promised, NEW t \in Threads, Insert(t)
  PROVE  Promised'
  <1> DEFINE n == IF earned[trip[t].child] < MaxPoints THEN 1 ELSE 0
  <1>1. trip[t] \in Trip /\ Promise(trip[t], locks[t])
    BY DEF Promised, Typed
  <1>7. PICK trims \in BOOLEAN :
          trip' = [trip EXCEPT ![t].pc = "lock", ![t].adds = n, ![t].trims = trims]
    BY DEF Insert
  <1> DEFINE r == [trip[t] EXCEPT !.pc = "lock", !.adds = n, !.trims = trims]
  <1>2. trip' = [trip EXCEPT ![t] = r]
    BY <1>1, <1>7 DEF Promised, Typed, Trip
  <1>3. n \in 0..1
    OBVIOUS
  <1> HIDE DEF n
  <1>4. r \in Trip
    BY <1>1, <1>3 DEF Trip
  <1>5. locks'[t] = locks[t] \union Wants(t)
    BY AcquireKeeps DEF Reached, Insert
  <1>6. Promise(r, locks'[t])
    BY <1>1, <1>5 DEF Reached, Insert, Trip, Promise, Claims
  <1> QED
    BY <1>2, <1>4, <1>6, OwnStep DEF Reached, Insert

LEMMA EditSafe ==
  ASSUME RowLocks, Promised, NEW t \in Threads, EditMember(t)
  PROVE  Promised'
  <1>1. trip[t] \in Trip /\ Promise(trip[t], locks[t])
    BY DEF Promised, Typed
  <1>5. PICK trims \in BOOLEAN :
          trip' = [trip EXCEPT ![t].pc = IF @ = "family" THEN "write" ELSE "commit",
                               ![t].trims = trims]
    BY DEF EditMember
  <1> DEFINE pc == IF trip[t].pc = "family" THEN "write" ELSE "commit"
             r == [trip[t] EXCEPT !.pc = pc, !.trims = trims]
  <1>2. trip' = [trip EXCEPT ![t] = r]
    BY <1>1, <1>5 DEF Promised, Typed, Trip
  <1>3. locks'[t] = locks[t] \union Wants(t)
    BY AcquireKeeps DEF Reached, EditMember
  <1>6. /\ pc \in {"write", "commit"} /\ trip[t].pc \in {"family", "write"}
        /\ trip[t].op = "edit"
    BY <1>1 DEF Reached, EditMember, Promise
  <1> HIDE DEF pc
  <1>7. r \in Trip
    BY <1>1, <1>6 DEF Trip
  <1>8. /\ r.pc = pc /\ r.op = trip[t].op /\ r.child = trip[t].child
        /\ r.row = trip[t].row /\ r.events = trip[t].events /\ r.adds = trip[t].adds
    BY <1>1 DEF Trip
  <1> HIDE DEF r
  <1>4. Promise(r, locks'[t])
    BY <1>1, <1>3, <1>6, <1>8 DEF Promise
  <1> QED
    BY <1>2, <1>4, <1>7, OwnStep DEF Reached, EditMember

LEMMA TrimSafe ==
  ASSUME RowLocks, Promised, NEW t \in Threads, Trim(t)
  PROVE  Promised'
  <1> DEFINE r == [trip[t] EXCEPT !.trims = FALSE]
  <1>1. trip[t] \in Trip /\ Promise(trip[t], locks[t])
    BY DEF Promised, Typed
  <1>2. trip' = [trip EXCEPT ![t] = r] /\ r \in Trip
    BY <1>1 DEF Trim, Promised, Typed, Trip
  <1>3. locks'[t] = locks[t] \union Wants(t)
    BY AcquireKeeps DEF Trim
  <1>4. /\ r.pc = trip[t].pc /\ r.op = trip[t].op /\ r.child = trip[t].child
        /\ r.row = trip[t].row /\ r.events = trip[t].events /\ r.adds = trip[t].adds
    BY <1>1 DEF Trip
  <1> HIDE DEF r
  <1>5. Promise(r, locks'[t])
    BY <1>1, <1>3, <1>4 DEF Promise
  <1> QED
    BY <1>2, <1>5, OwnStep DEF Trim

(* The row is read under the lock of the child, so it is the last one.     *)
LEMMA ReadUnderLock ==
  ASSUME RowLocks, Promised, NEW t \in Threads, trip[t].pc \in {"lock", "entry"},
         trip[t].op \in Claims => progress[trip[t].child].unlocked,
         Acquire(t), Child(trip[t].child, "update") \in locks'[t],
         trip' = [trip EXCEPT ![t].pc = "read", ![t].row = progress[trip[t].child]],
         UNCHANGED committed
  PROVE  Promised'
  <1> DEFINE c == trip[t].child
             row == progress[c]
             r == [trip[t] EXCEPT !.pc = "read", !.row = row]
  <1>1. trip[t] \in Trip /\ Promise(trip[t], locks[t])
    BY DEF Promised, Typed
  <1>2. c \in Children /\ row \in ProgressRow
    BY <1>1 DEF Promise, Promised, Typed
  <1>3. r \in Trip
    BY <1>1, <1>2 DEF Trip
  <1>4. trip' = [trip EXCEPT ![t] = r]
    BY <1>1 DEF Promised, Typed, Trip
  <1>5. Child(c, "update") \in locks'[t]
    OBVIOUS
  <1>6. /\ rewards[c].events = IF row.unlocked THEN 1 ELSE 0
        /\ rewards[c].grants = IF row.granted THEN 1 ELSE 0
        /\ row.granted => row.claimed
        /\ row.claimed => row.unlocked
        /\ rewards[c].events \in Nat /\ rewards[c].grants \in Nat
    BY <1>2 DEF Promised, AwardedOnce, Typed
  <1>7. /\ r.pc = "read" /\ r.row = row /\ r.child = c /\ r.op = trip[t].op
        /\ r.events = 0 /\ (r.op = "reward" => r.adds = 0)
    BY <1>1 DEF Promise, Trip
  <1>9. trip[t].op \in Claims => row.unlocked
    OBVIOUS
  <1> HIDE DEF r, row, c
  <1>8. Promise(r, locks'[t])
    BY <1>2, <1>5, <1>6, <1>7, <1>9 DEF Promise, row
  <1> QED
    BY <1>3, <1>4, <1>8, OwnStep

LEMMA LockSafe ==
  ASSUME RowLocks, Promised, NEW t \in Threads, LockChild(t)
  PROVE  Promised'
  <1>1. /\ trip[t] \in Trip /\ Promise(trip[t], locks[t])
        /\ Reached(t, "lock") /\ Acquire(t) /\ UNCHANGED committed
    BY DEF Promised, Typed, LockChild
  <1>2. Child(trip[t].child, "update") \in locks'[t] /\ locks[t] \subseteq locks'[t]
    BY <1>1, AcquireKeeps DEF Reached, Wants
  <1>3. CASE trip[t].op \in Claims /\ trip' = [trip EXCEPT ![t].pc = "entry"]
    <2> DEFINE r == [trip[t] EXCEPT !.pc = "entry"]
    <2>1. trip' = [trip EXCEPT ![t] = r] /\ r \in Trip
      BY <1>1, <1>3 DEF Promised, Typed, Trip
    <2>2. /\ r.pc = "entry" /\ r.op = trip[t].op /\ r.child = trip[t].child
          /\ r.row = trip[t].row /\ r.events = trip[t].events /\ r.adds = trip[t].adds
      BY <1>1 DEF Trip
    <2> HIDE DEF r
    <2>3. Promise(r, locks'[t])
      BY <1>1, <1>2, <2>2 DEF Promise, Reached
    <2> QED
      BY <1>1, <2>1, <2>3, OwnStep
  <1>4. CASE /\ trip[t].op \notin Claims
             /\ trip' = [trip EXCEPT ![t].pc = "read", ![t].row = progress[trip[t].child]]
    BY <1>1, <1>2, <1>4, ReadUnderLock DEF Reached
  <1> QED
    BY <1>3, <1>4 DEF LockChild

LEMMA EntrySafe ==
  ASSUME RowLocks, Promised, NEW t \in Threads, LockEntry(t)
  PROVE  Promised'
  <1>1. trip[t].pc = "entry" /\ Promise(trip[t], locks[t]) /\ UNCHANGED committed
    BY DEF LockEntry, Reached, Promised
  <1>2. CASE /\ progress[trip[t].child].unlocked /\ Acquire(t)
             /\ trip' = [trip EXCEPT ![t].pc = "read", ![t].row = progress[trip[t].child]]
    <2>1. Child(trip[t].child, "update") \in locks'[t]
      BY <1>1, <1>2, AcquireKeeps DEF Promise
    <2> QED
      BY <1>1, <1>2, <2>1, ReadUnderLock
  <1>3. CASE Ended(t)
    BY <1>1, <1>3, EndsSafe
  <1> QED
    BY <1>2, <1>3 DEF LockEntry

(* The statements on the calibration leave the progress alone. *)
LEMMA CalibrationSafe ==
  ASSUME RowLocks, Promised, NEW t \in Threads,
         ReadCalibration(t) \/ ApplyCalibration(t) \/ WriteCalibration(t)
  PROVE  Promised'
  <1>1. trip[t] \in Trip /\ Promise(trip[t], locks[t])
    BY DEF Promised, Typed
  <1>2. calibration \in Statuses
    BY DEF Promised, Typed
  <1>3. /\ AfterCalibration(t) \in {"lock", "claim", "evaluate"}
        /\ AfterCalibration(t) # "lock" => trip[t].row # None
    BY DEF AfterCalibration, Continue
  <1>4. ASSUME NEW pc \in {"calibrate", "lock", "claim", "evaluate"},
               NEW seen \in Statuses \union {"unread"},
               NEW before \in Statuses \union {"unread"}, NEW sets \in Statuses \union {"same"},
               NEW held, locks[t] \subseteq held,
               trip[t].pc \in {"read", "calibrate"},
               pc \in {"claim", "evaluate"} => trip[t].row # None
        PROVE  LET r == [trip[t] EXCEPT !.pc = pc, !.seen = seen, !.before = before, !.sets = sets]
               IN  r \in Trip /\ Promise(r, held)
    <2> DEFINE r == [trip[t] EXCEPT !.pc = pc, !.seen = seen, !.before = before, !.sets = sets]
    <2>1. r \in Trip
      BY <1>1, <1>4 DEF Trip
    <2>2. /\ r.pc = pc /\ r.op = trip[t].op /\ r.child = trip[t].child /\ r.row = trip[t].row
          /\ r.events = trip[t].events /\ r.adds = trip[t].adds
      BY <1>1 DEF Trip
    <2> HIDE DEF r
    <2>3. Promise(r, held)
      BY <1>1, <1>4, <2>2 DEF Promise
    <2> QED
      BY <2>1, <2>3 DEF r
  <1>5. CASE ReadCalibration(t)
    <2> DEFINE status == IF trip[t].seen = "unread" THEN calibration ELSE trip[t].seen
    <2>1. PICK mature \in BOOLEAN, writes \in BOOLEAN :
            LET new == Ensured(status, mature) IN
            /\ new # status => writes
            /\ writes => new # status \/ status # "applied"
            /\ trip' = [trip EXCEPT ![t].pc = IF writes THEN "calibrate" ELSE AfterCalibration(t),
                                    ![t].seen = new,
                                    ![t].before = IF @ = "unread" THEN calibration ELSE @,
                                    ![t].sets = IF new = status THEN @ ELSE new]
      BY <1>5 DEF Reached, ReadCalibration
    <2> DEFINE new == Ensured(status, mature)
               pc == IF writes THEN "calibrate" ELSE AfterCalibration(t)
               before == IF trip[t].before = "unread" THEN calibration ELSE trip[t].before
               sets == IF new = status THEN trip[t].sets ELSE new
               r == [trip[t] EXCEPT !.pc = pc, !.seen = new, !.before = before, !.sets = sets]
    <2>2. trip' = [trip EXCEPT ![t] = r]
      BY <1>1, <2>1 DEF Promised, Typed, Trip
    <2>3. new \in Statuses
      BY DEF Ensured, Statuses
    <2>4. /\ pc \in {"calibrate", "lock", "claim", "evaluate"}
          /\ pc \in {"claim", "evaluate"} => trip[t].row # None
      BY <1>3
    <2>5. before \in Statuses \union {"unread"} /\ sets \in Statuses \union {"same"}
      BY <1>1, <1>2, <2>3 DEF Trip
    <2>6. trip[t].pc = "read" /\ UNCHANGED <<committed, locks>>
      BY <1>5 DEF Reached, ReadCalibration
    <2> HIDE DEF new, pc, before, sets
    <2>7. r \in Trip /\ Promise(r, locks'[t])
      BY <1>4, <2>3, <2>4, <2>5, <2>6
    <2> QED
      BY <2>2, <2>6, <2>7, OwnStep
  <1>6. CASE ApplyCalibration(t)
    <2> DEFINE sets == IF calibration = "applied" THEN "same" ELSE "applied"
               r == [trip[t] EXCEPT !.pc = "calibrate", !.seen = "applied", !.before = calibration,
                                    !.sets = sets]
    <2>1. trip' = [trip EXCEPT ![t] = r]
      BY <1>1, <1>6 DEF Reached, ApplyCalibration, Promised, Typed, Trip
    <2>2. trip[t].pc = "read" /\ UNCHANGED <<committed, locks>>
      BY <1>6 DEF Reached, ApplyCalibration
    <2>3. sets \in Statuses \union {"same"} /\ "applied" \in Statuses
      BY DEF Statuses
    <2> HIDE DEF sets
    <2>4. r \in Trip /\ Promise(r, locks'[t])
      BY <1>2, <1>4, <2>2, <2>3
    <2> QED
      BY <2>1, <2>2, <2>4, OwnStep
  <1>7. CASE WriteCalibration(t)
    <2>1. CASE Acquire(t) /\ trip' = [trip EXCEPT ![t].pc = AfterCalibration(t)]
      <3> DEFINE pc == AfterCalibration(t)
                 r == [trip[t] EXCEPT !.pc = pc, !.seen = trip[t].seen,
                                      !.before = trip[t].before, !.sets = trip[t].sets]
      <3>1. trip' = [trip EXCEPT ![t] = r]
        BY <1>1, <2>1 DEF Promised, Typed, Trip
      <3>2. trip[t].pc = "calibrate" /\ UNCHANGED committed
        BY <1>7 DEF Reached, WriteCalibration
      <3>3. locks[t] \subseteq locks'[t]
        BY <2>1, AcquireKeeps
      <3>4. /\ trip[t].seen \in Statuses \union {"unread"}
            /\ trip[t].before \in Statuses \union {"unread"}
            /\ trip[t].sets \in Statuses \union {"same"}
        BY <1>1 DEF Trip
      <3>5. /\ pc \in {"calibrate", "lock", "claim", "evaluate"}
            /\ pc \in {"claim", "evaluate"} => trip[t].row # None
        BY <1>3
      <3> HIDE DEF pc
      <3>6. r \in Trip /\ Promise(r, locks'[t])
        BY <1>4, <3>2, <3>3, <3>4, <3>5
      <3> QED
        BY <2>1, <3>1, <3>2, <3>6, OwnStep
    <2>2. CASE Ended(t)
      BY <1>7, <2>2, EndsSafe DEF Reached, WriteCalibration
    <2> QED
      BY <1>7, <2>1, <2>2 DEF Reached, WriteCalibration
  <1> QED
    BY <1>5, <1>6, <1>7

(* The copy goes ahead of the database by what the commit will add. *)
LEMMA ClaimSafe ==
  ASSUME RowLocks, Promised, NEW t \in Threads, Claim(t)
  PROVE  Promised'
  <1> DEFINE q == trip[t]
             row == q.row
  <1>1. q \in Trip /\ Promise(q, locks[t]) /\ q.pc = "claim" /\ UNCHANGED committed
    BY DEF Reached, Promised, Typed, Claim
  <1>2. row # None /\ row \in ProgressRow /\ q.child \in Children
    BY <1>1 DEF Promise, Trip
  <1>3. rewards[q.child].events \in Nat /\ rewards[q.child].grants \in Nat
    BY <1>2 DEF Promised, Typed
  <1>7. ASSUME Acquire(t) PROVE locks[t] \subseteq locks'[t]
    BY <1>7, AcquireKeeps
  <1>4. ASSUME NEW trims \in BOOLEAN, q.op = "profile", Acquire(t),
               trip' = [trip EXCEPT ![t].pc = "evaluate", ![t].trims = trims,
                                    ![t].row.claimed = TRUE]
        PROVE  Promised'
    <2> DEFINE new == [row EXCEPT !.claimed = TRUE]
               r == [q EXCEPT !.pc = "evaluate", !.trims = trims, !.row = new]
    <2>1. trip' = [trip EXCEPT ![t] = r]
      BY <1>1, <1>4 DEF Promised, Typed, Trip
    <2>2. /\ new \in ProgressRow /\ new.unlocked = row.unlocked /\ new.claimed
          /\ new.granted = row.granted
      BY <1>2 DEF ProgressRow
    <2> HIDE DEF new
    <2>3. r \in Trip
      BY <1>1, <2>2 DEF Trip
    <2>4. /\ r.pc = "evaluate" /\ r.row = new /\ r.op = q.op /\ r.child = q.child
          /\ r.events = q.events /\ r.adds = q.adds /\ new # None
      BY <1>1, <2>2, ProgressAssumption DEF ProgressAssumption, Trip
    <2> HIDE DEF r
    <2>5. Promise(r, locks'[t])
      BY <1>1, <1>2, <1>4, <1>7, <2>2, <2>4 DEF Promise, Claims
    <2> QED
      BY <1>1, <1>4, <2>1, <2>3, <2>5, OwnStep
  <1>5. ASSUME NEW trims \in BOOLEAN, q.op = "reward", row.claimed, Acquire(t),
               trip' = [trip EXCEPT ![t].pc = "evaluate", ![t].trims = trims,
                                    ![t].row.granted = TRUE,
                                    ![t].adds = IF row.granted THEN 0 ELSE 1]
        PROVE  Promised'
    <2> DEFINE new == [row EXCEPT !.granted = TRUE]
               n == IF row.granted THEN 0 ELSE 1
               s == [q EXCEPT !.pc = "evaluate", !.trims = trims]
               r == [s EXCEPT !.row = new, !.adds = n]
    <2>1. trip' = [trip EXCEPT ![t] = r]
      BY <1>1, <1>5 DEF Promised, Typed, Trip
    <2>2. /\ new \in ProgressRow /\ new.unlocked = row.unlocked /\ new.claimed = row.claimed
          /\ new.granted
      BY <1>2 DEF ProgressRow
    <2>9. n \in 0..1 /\ n = IF row.granted THEN 0 ELSE 1
      OBVIOUS
    <2> HIDE DEF new, n
    <2>10. /\ s \in Trip /\ s.pc = "evaluate" /\ s.op = q.op /\ s.child = q.child
           /\ s.events = q.events
      BY <1>1 DEF Trip
    <2> HIDE DEF s
    <2>3. r \in Trip
      BY <2>2, <2>9, <2>10 DEF Trip
    <2>4. /\ r.pc = "evaluate" /\ r.row = new /\ r.op = q.op /\ r.child = q.child
          /\ r.events = q.events /\ r.adds = n /\ new # None
      BY <2>2, <2>10, ProgressAssumption DEF ProgressAssumption, Trip
    <2> HIDE DEF r
    <2>5. rewards[q.child].grants = IF row.granted THEN 1 ELSE 0
      BY <1>1, <1>2, <1>3, <1>5 DEF Promise
    <2>6. rewards[q.child].grants + n = 1
      BY <1>3, <2>5, <2>9
    <2>7. q.op = "reward" /\ row.claimed
      BY <1>5
    <2>8. Promise(r, locks'[t])
      BY <1>1, <1>2, <1>5, <1>7, <2>2, <2>4, <2>6, <2>7 DEF Promise
    <2> QED
      BY <1>1, <1>5, <2>1, <2>3, <2>8, OwnStep
  <1>6. CASE Ended(t)
    BY <1>1, <1>6, EndsSafe
  <1> QED
    BY <1>4, <1>5, <1>6 DEF Claim

LEMMA ClaimStep ==
  ASSUME Promised, NEW t \in Threads, Claim(t), ~Ended(t)
  PROVE  /\ trip'[t].pc = "evaluate" /\ trip'[t].op = trip[t].op
         /\ UNCHANGED <<trip[t].seen, trip[t].before, trip[t].sets>>
  <1>1. trip[t] \in Trip
    BY DEF Promised, Typed
  <1>3. PICK trims \in BOOLEAN :
          \/ trip' = [trip EXCEPT ![t].pc = "evaluate", ![t].trims = trims, ![t].row.claimed = TRUE]
          \/ trip' = [trip EXCEPT ![t].pc = "evaluate", ![t].trims = trims,
                                  ![t].row.granted = TRUE,
                                  ![t].adds = IF trip[t].row.granted THEN 0 ELSE 1]
    BY DEF Claim
  <1>4. CASE trip' = [trip EXCEPT ![t].pc = "evaluate", ![t].trims = trims, ![t].row.claimed = TRUE]
    <2> DEFINE r == [trip[t] EXCEPT !.pc = "evaluate", !.trims = trims, !.row.claimed = TRUE]
    <2>1. trip'[t] = r
      BY <1>1, <1>4 DEF Promised, Typed, Trip
    <2>2. /\ r.pc = "evaluate" /\ r.op = trip[t].op
          /\ r.seen = trip[t].seen /\ r.before = trip[t].before /\ r.sets = trip[t].sets
      BY <1>1 DEF Trip
    <2> QED
      BY <2>1, <2>2
  <1>5. CASE trip' = [trip EXCEPT ![t].pc = "evaluate", ![t].trims = trims,
                                  ![t].row.granted = TRUE,
                                  ![t].adds = IF trip[t].row.granted THEN 0 ELSE 1]
    <2> DEFINE r == [trip[t] EXCEPT !.pc = "evaluate", !.trims = trims, !.row.granted = TRUE,
                                     !.adds = IF trip[t].row.granted THEN 0 ELSE 1]
    <2>1. trip'[t] = r
      BY <1>1, <1>5 DEF Promised, Typed, Trip
    <2>2. /\ r.pc = "evaluate" /\ r.op = trip[t].op
          /\ r.seen = trip[t].seen /\ r.before = trip[t].before /\ r.sets = trip[t].sets
      BY <1>1 DEF Trip
    <2> QED
      BY <2>1, <2>2
  <1> QED
    BY <1>3, <1>4, <1>5

LEMMA EvaluateSafe ==
  ASSUME RowLocks, Promised, NEW t \in Threads, Evaluate(t)
  PROVE  Promised'
  <1> DEFINE q == trip[t]
             row == q.row
             own == IF q.op = "post" THEN q.adds ELSE 0
             new == /\ ~row.unlocked
                    /\ q.seen \in {"ready", "applied"}
                    /\ earned[q.child] + own >= MaxPoints
  <1>1. q \in Trip /\ Promise(q, locks[t]) /\ q.pc = "evaluate" /\ UNCHANGED <<committed, locks>>
    BY DEF Reached, Promised, Typed, Evaluate
  <1>2. row # None /\ row \in ProgressRow /\ q.child \in Children
    BY <1>1 DEF Promise, Trip
  <1>3. rewards[q.child].events \in Nat /\ rewards[q.child].grants \in Nat
    BY <1>2 DEF Promised, Typed
  <1>4. PICK inserts \in BOOLEAN :
          trip' = [trip EXCEPT ![t].pc = IF inserts THEN "award" ELSE "commit",
                               ![t].row.unlocked = @ \/ new,
                               ![t].events = IF new THEN 1 ELSE 0,
                               ![t].seen = "unread",
                               ![t].before = IF q.sets = "same" THEN "unread" ELSE @]
    BY DEF Reached, Evaluate
  <1> DEFINE after == [row EXCEPT !.unlocked = @ \/ new]
             n == IF new THEN 1 ELSE 0
             pc == IF inserts THEN "award" ELSE "commit"
             before == IF q.sets = "same" THEN "unread" ELSE q.before
             r == [q EXCEPT !.pc = pc, !.row = after, !.events = n, !.seen = "unread",
                            !.before = before]
  <1>5. trip' = [trip EXCEPT ![t] = r]
    BY <1>1, <1>4 DEF Promised, Typed, Trip
  <1>6. new \in BOOLEAN /\ (new => ~row.unlocked)
    BY <1>2 DEF ProgressRow
  <1> HIDE DEF new
  <1>7. /\ after \in ProgressRow /\ after.unlocked = (row.unlocked \/ new)
        /\ after.claimed = row.claimed /\ after.granted = row.granted
    BY <1>2, <1>6 DEF ProgressRow
  <1>8. /\ pc \in {"award", "commit"} /\ before \in Statuses \union {"unread"}
        /\ n \in 0..1 /\ (new => n = 1) /\ (~new => n = 0)
    BY <1>1 DEF Trip
  <1> HIDE DEF after, pc, before, n
  <1>9. r \in Trip
    BY <1>1, <1>7, <1>8 DEF Trip
  <1>10. /\ r.pc = pc /\ r.row = after /\ r.op = q.op /\ r.child = q.child
         /\ r.events = n /\ r.adds = q.adds /\ after # None
    BY <1>1, <1>7, ProgressAssumption DEF ProgressAssumption, Trip
  <1> HIDE DEF r
  <1>11. /\ rewards[q.child].events = IF row.unlocked THEN 1 ELSE 0
         /\ rewards[q.child].grants + (IF q.op = "reward" THEN q.adds ELSE 0)
              = IF row.granted THEN 1 ELSE 0
    BY <1>1, <1>2, <1>3 DEF Promise
  <1>12. rewards[q.child].events + n = IF after.unlocked THEN 1 ELSE 0
    <2>1. CASE new
      <3>1. n = 1 /\ row.unlocked = FALSE /\ after.unlocked = TRUE
        BY <1>2, <1>6, <1>7, <1>8, <2>1 DEF ProgressRow
      <3>2. rewards[q.child].events = 0
        BY <1>11, <3>1
      <3> QED
        BY <3>1, <3>2
    <2>2. CASE ~new
      <3>1. n = 0 /\ (after.unlocked <=> row.unlocked)
        BY <1>7, <1>8, <2>2
      <3> QED
        BY <1>3, <1>11, <3>1
    <2> QED
      BY <2>1, <2>2
  <1>13. Promise(r, locks[t])
    BY <1>1, <1>2, <1>7, <1>8, <1>10, <1>11, <1>12 DEF Promise
  <1> QED
    BY <1>1, <1>5, <1>9, <1>13, OwnStep

LEMMA AwardSafe ==
  ASSUME RowLocks, Promised, NEW t \in Threads, Award(t)
  PROVE  Promised'
  <1>1. trip[t] \in Trip /\ Promise(trip[t], locks[t]) /\ trip[t].pc = "award"
    BY DEF Reached, Promised, Typed, Award
  <1>6. PICK trims \in BOOLEAN : trip' = [trip EXCEPT ![t].pc = "commit", ![t].trims = trims]
    BY DEF Award
  <1> DEFINE r == [trip[t] EXCEPT !.pc = "commit", !.trims = trims]
  <1>2. trip' = [trip EXCEPT ![t] = r] /\ r \in Trip
    BY <1>1, <1>6 DEF Promised, Typed, Trip
  <1>3. locks'[t] = locks[t] \union Wants(t)
    BY AcquireKeeps DEF Reached, Award
  <1>4. /\ r.pc = "commit" /\ r.op = trip[t].op /\ r.child = trip[t].child
        /\ r.row = trip[t].row /\ r.events = trip[t].events /\ r.adds = trip[t].adds
    BY <1>1 DEF Trip
  <1> HIDE DEF r
  <1>5. Promise(r, locks'[t])
    BY <1>1, <1>3, <1>4 DEF Promise
  <1> QED
    BY <1>2, <1>5, OwnStep DEF Reached, Award

-----------------------------------------------------------------------------
(* The commit *)

LEMMA CommitSafe ==
  ASSUME Promised, NEW t \in Threads, CommitTrip(t)
  PROVE  Promised'
  <1> DEFINE r == trip[t]
             c == r.child
  <1>1. r \in Trip /\ Promise(r, locks[t]) /\ r.pc = "commit" /\ Ended(t)
    BY DEF Reached, Promised, Typed, CommitTrip
  <1>2. NoTrip \in Trip /\ Promise(NoTrip, {})
    BY DEF NoTrip, Trip, Promise, Statuses
  <1>3. /\ trip' \in [Threads -> Trip] /\ trip'[t] = NoTrip
        /\ locks' \in [Threads -> SUBSET (Rows \X Modes)] /\ locks'[t] = {}
        /\ \A s \in Threads : s # t => trip'[s] = trip[s] /\ locks'[s] = locks[s]
    BY <1>1, <1>2 DEF Promised, Typed, Ended
  <1>4. Compatible'
    BY <1>3 DEF Promised, Typed, Compatible
  <1>5. calibration' \in Statuses
    BY <1>1 DEF Reached, CommitTrip, Promised, Typed, Trip
  <1>6. CASE r.op = "edit"
    <2>1. UNCHANGED <<progress, rewards>>
      BY <1>6 DEF Reached, CommitTrip
    <2>2. Typed' /\ AwardedOnce'
      BY <1>3, <1>5, <2>1 DEF Promised, Typed, AwardedOnce
    <2>3. \A s \in Threads : Promise(trip'[s], locks'[s])
      BY <1>2, <1>3 DEF Promised
    <2>4. \A s \in Threads : Promise(trip[s], locks[s])'
      BY <2>1, <2>3 DEF Promise
    <2> QED
      BY <1>4, <2>2, <2>4 DEF Promised
  <1>7. CASE r.op # "edit"
    <2> DEFINE p == progress[c]
               w == rewards[c]
               n == IF r.op = "reward" THEN r.adds ELSE 0
    <2>1. /\ r.row # None /\ r.row \in ProgressRow /\ c \in Children
          /\ p \in ProgressRow /\ w \in [events: Nat, grants: Nat]
          /\ r.events \in 0..1 /\ n \in 0..1
      BY <1>1, <1>7 DEF Promise, Promised, Typed, Trip
    <2>2. /\ progress' = [progress EXCEPT ![c] = [unlocked |-> @.unlocked \/ r.row.unlocked,
                                                  claimed |-> @.claimed \/ r.row.claimed,
                                                  granted |-> @.granted \/ r.row.granted]]
          /\ rewards' = [rewards EXCEPT ![c] = [events |-> @.events + r.events,
                                                grants |-> @.grants + n]]
      BY <1>7 DEF Reached, CommitTrip
    <2>3. /\ p.unlocked \/ r.row.unlocked <=> r.row.unlocked
          /\ p.claimed \/ r.row.claimed <=> r.row.claimed
          /\ p.granted \/ r.row.granted <=> r.row.granted
          /\ r.row.granted => r.row.claimed
          /\ r.row.claimed => r.row.unlocked
          /\ w.events + r.events = IF r.row.unlocked THEN 1 ELSE 0
          /\ w.grants + n = IF r.row.granted THEN 1 ELSE 0
          /\ Child(c, "update") \in locks[t]
      BY <1>1, <2>1 DEF Promise
    <2>4. /\ progress' \in [Children -> ProgressRow]
          /\ progress'[c].unlocked <=> r.row.unlocked
          /\ progress'[c].claimed <=> r.row.claimed
          /\ progress'[c].granted <=> r.row.granted
          /\ \A d \in Children : d # c => progress'[d] = progress[d]
      BY <2>1, <2>2, <2>3 DEF Promised, Typed, ProgressRow
    <2>5. /\ rewards' \in [Children -> [events: Nat, grants: Nat]]
          /\ rewards'[c].events = w.events + r.events
          /\ rewards'[c].grants = w.grants + n
          /\ \A d \in Children : d # c => rewards'[d] = rewards[d]
      BY <2>1, <2>2 DEF Promised, Typed
    <2>6. Typed'
      BY <1>3, <1>5, <2>4, <2>5 DEF Promised, Typed
    <2>7. AwardedOnce'
      BY <2>3, <2>4, <2>5 DEF Promised, AwardedOnce
    <2>8. ASSUME NEW s \in Threads, s # t, trip[s].row # None PROVE trip[s].child # c
      <3>1. Conflict(Child(c, "update"), Child(c, "update"))
        BY DEF Conflict, Child
      <3>2. Child(trip[s].child, "update") \in locks[s]
        BY <2>8 DEF Promised, Promise
      <3> QED
        BY <2>3, <2>8, <3>1, <3>2 DEF Promised, Compatible
    <2>9. ASSUME NEW s \in Threads PROVE Promise(trip[s], locks[s])'
      <3>1. CASE s = t
        BY <1>3, <3>1 DEF Promise, NoTrip
      <3>2. CASE s # t
        <4>1. Promise(trip[s], locks[s]) /\ trip'[s] = trip[s] /\ locks'[s] = locks[s]
          BY <1>3, <3>2 DEF Promised
        <4>2. trip[s].row # None => /\ progress'[trip[s].child] = progress[trip[s].child]
                                    /\ rewards'[trip[s].child] = rewards[trip[s].child]
          BY <2>4, <2>5, <2>8, <3>2, <4>1 DEF Promise
        <4> QED
          BY <4>1, <4>2 DEF Promise
      <3> QED
        BY <3>1, <3>2
    <2> QED
      BY <1>4, <2>6, <2>7, <2>9 DEF Promised
  <1> QED
    BY <1>6, <1>7

LEMMA NextPromised ==
  ASSUME RowLocks, Promised, [AchievementsNext]_achievementVars
  PROVE  Promised'
  <1>1. CASE AchievementsNext
    <2>1. PICK t \in Threads :
              \/ BeginTrip(t) \/ Insert(t) \/ EditMember(t) \/ Trim(t) \/ LockChild(t) \/ LockEntry(t)
              \/ ReadCalibration(t) \/ ApplyCalibration(t) \/ WriteCalibration(t)
              \/ Claim(t) \/ Evaluate(t) \/ Award(t) \/ CommitTrip(t) \/ AbortDeadlocked(t)
      BY <1>1 DEF AchievementsNext
    <2>2. CASE AbortDeadlocked(t)
      BY <2>2, EndsSafe DEF AbortDeadlocked
    <2> QED
      BY <2>1, <2>2, BeginSafe, InsertSafe, EditSafe, TrimSafe, LockSafe, EntrySafe,
         CalibrationSafe, ClaimSafe, EvaluateSafe, AwardSafe, CommitSafe
  <1>2. CASE UNCHANGED achievementVars
    BY <1>2 DEF achievementVars, Promised, Typed, Compatible, AwardedOnce, Promise
  <1> QED
    BY <1>1, <1>2

(* Evaluations and claims of one child wait for each other at its row, and *)
(* what they read there is still true when they commit                     *)
(* (_lock_achievement_user, evaluate_achievements_for_user).               *)
THEOREM AwardedOnceAlways == ASSUME RowLocks PROVE AchievementsSpec => []AwardedOnce
  <1>1. Promised /\ [AchievementsNext]_achievementVars => Promised'
    BY NextPromised
  <1>2. Promised => AwardedOnce
    BY DEF Promised
  <1> QED
    BY <1>1, <1>2, InitPromised, PTL DEF AchievementsSpec

-----------------------------------------------------------------------------
(* Requests that wait for each other *)

(* Who holds nothing where it waits, who holds something, and who holds    *)
(* the family for itself.                                                  *)
Holding(r, held) ==
  /\ r.pc \in {"idle", "insert", "family"} => held = {}
  /\ r.pc = "lock" /\ r.op \in Claims => held = {}
  /\ r.pc = "entry" => held \subseteq {Child(r.child, "update")} /\ ~r.trims
  /\ r.pc \in {"read", "calibrate"} /\ r.op \in Claims => r.row # None
  /\ r.pc = "write" \/ r.trims => held # {}
  /\ Family("update") \in held => r.pc \in {"write", "commit"}

Orderly == \A t \in Threads : Holding(trip[t], locks[t])

LEMMA OnlyEditsLockFamily ==
  ASSUME NEW t \in Threads, trip[t].pc # "family"
  PROVE  Family("update") \notin Wants(t)
  BY DEF Reached, Wants, Family, Child, Definition, Calibration, Events

OnlyTrip(t) == \A s \in Threads \ {t} : trip'[s] = trip[s]

(* A step of t that commits nothing. *)
LEMMA StepHolds ==
  ASSUME RowLocks, Promised, Orderly, NEW t \in Threads, OnlyTrip(t),
         UNCHANGED locks \/ Acquire(t), trip'[t].op = trip[t].op,
         \/ trip'[t].pc \in {"claim", "evaluate", "award", "commit"}
         \/ trip'[t].pc = "lock" /\ trip[t].op \notin Claims
         \/ /\ trip'[t].pc = "entry" /\ ~trip'[t].trims
            /\ locks'[t] \subseteq {Child(trip'[t].child, "update")}
         \/ trip'[t].pc \in {"read", "calibrate"} /\ (trip[t].op \in Claims => trip'[t].row # None)
         \/ trip'[t].pc = "write" /\ trip[t].pc = "family" /\ Acquire(t),
         trip[t].pc = "family" => trip'[t].pc = "write",
         trip[t].pc = "write" => trip'[t].pc = "commit",
         trip'[t].trims => locks'[t] # {},
         trip[t].pc # "commit"
  PROVE  Orderly'
  <1> DEFINE r == trip'[t]
  <1>1. Holding(trip[t], locks[t])
    BY DEF Orderly
  <1>2. \A s \in Threads \ {t} : trip'[s] = trip[s]
    BY DEF OnlyTrip
  <1>3. /\ \A s \in Threads \ {t} : locks'[s] = locks[s]
        /\ locks'[t] = locks[t] \/ locks'[t] = locks[t] \union Wants(t)
        /\ Acquire(t) => locks'[t] = locks[t] \union Wants(t)
    BY AcquireKeeps
  <1>4. r.pc = "write" => locks'[t] # {}
    <2>1. trip[t].pc = "family" => Family("update") \in Wants(t)
      BY <1>1 DEF Reached, Wants, Holding
    <2> QED
      BY <1>3, <2>1
  <1>5. Family("update") \in locks'[t] => r.pc \in {"write", "commit"}
    BY <1>1, <1>3, OnlyEditsLockFamily DEF Holding
  <1>6. Holding(r, locks'[t])
    BY <1>4, <1>5 DEF Holding
  <1>7. \A s \in Threads : Holding(trip'[s], locks'[s])
    BY <1>2, <1>3, <1>6 DEF Orderly
  <1> QED
    BY <1>7 DEF Orderly, Holding, Child, Claims, Family

LEMMA TrimHolds ==
  ASSUME RowLocks, Promised, Orderly, NEW t \in Threads, Trim(t)
  PROVE  Orderly'
  <1> DEFINE r == [trip[t] EXCEPT !.trims = FALSE]
  <1>1. trip[t] \in Trip /\ Holding(trip[t], locks[t]) /\ trip[t].trims
    BY DEF Trim, Orderly, Promised, Typed
  <1>2. trip'[t] = r /\ \A s \in Threads \ {t} : trip'[s] = trip[s]
    BY DEF Trim, Promised, Typed
  <1>3. /\ r.pc = trip[t].pc /\ r.op = trip[t].op /\ r.child = trip[t].child
        /\ r.row = trip[t].row /\ ~r.trims
    BY <1>1 DEF Trip
  <1> HIDE DEF r
  <1>4. /\ \A s \in Threads \ {t} : locks'[s] = locks[s]
        /\ locks'[t] = locks[t] \union Wants(t)
    BY AcquireKeeps DEF Trim
  <1>5. Family("update") \notin Wants(t)
    BY <1>1 DEF Reached, Wants, Family, Events
  <1>6. Holding(r, locks'[t])
    BY <1>1, <1>3, <1>4, <1>5 DEF Holding
  <1>7. \A s \in Threads : Holding(trip'[s], locks'[s])
    BY <1>2, <1>4, <1>6 DEF Orderly
  <1> QED
    BY <1>7 DEF Orderly, Holding, Child, Claims, Family

LEMMA EndHolds ==
  ASSUME Promised, Orderly, NEW t \in Threads, Ended(t)
  PROVE  Orderly'
  <1>1. /\ trip'[t] = NoTrip /\ locks'[t] = {}
        /\ \A s \in Threads \ {t} : trip'[s] = trip[s] /\ locks'[s] = locks[s]
    BY DEF Promised, Typed, Ended
  <1>2. Holding(NoTrip, {})
    BY DEF Holding, NoTrip
  <1>3. \A s \in Threads : Holding(trip'[s], locks'[s])
    BY <1>1, <1>2 DEF Orderly
  <1> QED
    BY <1>3 DEF Orderly, Holding, Child, Claims, Family

LEMMA BeginHolds ==
  ASSUME RowLocks, Promised, Orderly, NEW t \in Threads, BeginTrip(t)
  PROVE  Orderly'
  <1>1. PICK op \in {"post", "overview", "profile", "reward", "recalibrate", "edit"}, c \in Children :
           trip' = [trip EXCEPT ![t] = [NoTrip EXCEPT !.op = op, !.pc = First(op), !.child = c]]
    BY DEF BeginTrip
  <1> DEFINE r == [NoTrip EXCEPT !.op = op, !.pc = First(op), !.child = c]
  <1>2. r.op = op /\ r.pc = First(op) /\ ~r.trims
    BY DEF NoTrip
  <1> HIDE DEF r
  <1>3. trip'[t] = r /\ \A s \in Threads \ {t} : trip'[s] = trip[s]
    BY <1>1 DEF Promised, Typed, r
  <1>4. locks' = locks /\ locks[t] = {}
    BY DEF BeginTrip, Orderly, Holding
  <1>5. Holding(r, {})
    BY <1>2 DEF Holding, First, Claims
  <1>6. \A s \in Threads : Holding(trip'[s], locks'[s])
    BY <1>3, <1>4, <1>5 DEF Orderly
  <1> QED
    BY <1>6 DEF Orderly, Holding, Child, Claims, Family

LEMMA NextOrderly ==
  ASSUME RowLocks, Promised, Orderly, [AchievementsNext]_achievementVars
  PROVE  Orderly'
  <1>1. CASE UNCHANGED achievementVars
    BY <1>1 DEF achievementVars, Orderly
  <1>2. ASSUME NEW t \in Threads, Insert(t) PROVE Orderly'
    <2> DEFINE n == IF earned[trip[t].child] < MaxPoints THEN 1 ELSE 0
    <2>1. trip[t] \in Trip /\ Promise(trip[t], locks[t]) /\ trip[t].pc = "insert"
      BY <1>2 DEF Reached, Insert, Promised, Typed
    <2>5. PICK trims \in BOOLEAN :
            trip' = [trip EXCEPT ![t].pc = "lock", ![t].adds = n, ![t].trims = trims]
      BY <1>2 DEF Insert
    <2> DEFINE r == [trip[t] EXCEPT !.pc = "lock", !.adds = n, !.trims = trims]
    <2>2. trip' = [trip EXCEPT ![t] = r] /\ Acquire(t)
      BY <1>2, <2>1, <2>5 DEF Insert, Promised, Typed, Trip
    <2>6. locks'[t] # {}
      <3>1. Family("share") \in Wants(t)
        BY <1>2 DEF Insert, Reached, Wants
      <3> QED
        BY <2>2, <3>1, AcquireKeeps
    <2>3. r.op = "post" /\ r.pc = "lock" /\ trip[t].op = "post"
      BY <2>1 DEF Promise, Trip
    <2> HIDE DEF r
    <2>4. trip'[t] = r /\ OnlyTrip(t)
      BY <2>2 DEF Promised, Typed, OnlyTrip
    <2> QED
      BY <2>1, <2>2, <2>3, <2>4, <2>6, StepHolds DEF Claims
  <1>3. ASSUME NEW t \in Threads, EditMember(t) PROVE Orderly'
    <2>1. trip[t] \in Trip
      BY DEF Promised, Typed
    <2>5. PICK trims \in BOOLEAN :
            trip' = [trip EXCEPT ![t].pc = IF @ = "family" THEN "write" ELSE "commit",
                                 ![t].trims = trims]
      BY <1>3 DEF EditMember
    <2> DEFINE r == [trip[t] EXCEPT !.pc = IF @ = "family" THEN "write" ELSE "commit",
                                    !.trims = trims]
    <2>2. trip' = [trip EXCEPT ![t] = r]
      BY <2>1, <2>5 DEF Promised, Typed, Trip
    <2>6. locks'[t] # {}
      <3>1. Wants(t) # {}
        BY <1>3 DEF EditMember, Reached, Wants
      <3> QED
        BY <1>3, <3>1, AcquireKeeps DEF EditMember
    <2>3. r.op = trip[t].op /\ r.pc = IF trip[t].pc = "family" THEN "write" ELSE "commit"
      BY <2>1 DEF Trip
    <2> HIDE DEF r
    <2>4. trip'[t] = r /\ OnlyTrip(t)
      BY <2>2 DEF Promised, Typed, OnlyTrip
    <2> QED
      BY <1>3, <2>2, <2>3, <2>4, <2>6, StepHolds DEF Reached, EditMember
  <1>8. ASSUME NEW t \in Threads, LockChild(t), trip[t].op \in Claims PROVE Orderly'
    <2>1. /\ trip[t] \in Trip /\ Acquire(t) /\ trip[t].pc = "lock" /\ ~trip[t].trims
          /\ locks[t] = {}
      BY <1>8 DEF LockChild, Reached, Promised, Typed, Orderly, Holding
    <2> DEFINE r == [trip[t] EXCEPT !.pc = "entry"]
    <2>2. trip'[t] = r /\ OnlyTrip(t)
      BY <1>8, <2>1 DEF LockChild, Promised, Typed, OnlyTrip
    <2>3. r.op = trip[t].op /\ r.pc = "entry" /\ r.child = trip[t].child /\ ~r.trims
      BY <2>1 DEF Trip
    <2> HIDE DEF r
    <2>4. locks'[t] \subseteq {Child(trip[t].child, "update")}
      BY <2>1, AcquireKeeps DEF Wants, Reached
    <2> QED
      BY <2>1, <2>2, <2>3, <2>4, StepHolds
  <1>4. ASSUME NEW t \in Threads, (LockChild(t) /\ trip[t].op \notin Claims) \/ LockEntry(t)
        PROVE  Orderly'
    <2>1. /\ trip[t] \in Trip /\ Promise(trip[t], locks[t]) /\ ~trip[t].trims
          /\ trip[t].pc \in {"lock", "entry"}
      BY <1>4 DEF Reached, LockChild, LockEntry, Promised, Typed
    <2> DEFINE row == progress[trip[t].child]
               r == [trip[t] EXCEPT !.pc = "read", !.row = row]
    <2>2. Ended(t) \/ (Acquire(t) /\ trip' = [trip EXCEPT ![t] = r])
      BY <1>4, <2>1 DEF Reached, LockChild, LockEntry, Promised, Typed, Trip
    <2>3. r.op = trip[t].op /\ r.pc = "read" /\ r.row # None /\ ~r.trims
      <3>1. row \in ProgressRow
        BY <2>1 DEF Promise, Promised, Typed
      <3> HIDE DEF row
      <3> QED
        BY <2>1, <3>1, ProgressAssumption DEF Trip
    <2> HIDE DEF r
    <2>4. CASE Acquire(t) /\ trip' = [trip EXCEPT ![t] = r]
      <3>1. trip'[t] = r /\ OnlyTrip(t)
        BY <2>4 DEF Promised, Typed, OnlyTrip
      <3> QED
        BY <2>1, <2>3, <2>4, <3>1, StepHolds
    <2> QED
      BY <2>2, <2>4, EndHolds
  <1>5. ASSUME NEW t \in Threads, ReadCalibration(t) \/ ApplyCalibration(t) \/ WriteCalibration(t)
        PROVE  Orderly'
    <2>1. /\ trip[t] \in Trip /\ trip[t].pc \in {"read", "calibrate"} /\ ~trip[t].trims
          /\ trip[t].op \in Claims => trip[t].row # None
      BY <1>5 DEF Reached, ReadCalibration, ApplyCalibration, WriteCalibration, Orderly, Holding, Promised, Typed
    <2>2. /\ AfterCalibration(t) \in {"lock", "claim", "evaluate"}
          /\ AfterCalibration(t) = "lock" => trip[t].row = None
      BY DEF AfterCalibration, Continue
    <2>3. ASSUME OnlyTrip(t), UNCHANGED locks \/ Acquire(t),
                 trip'[t].pc \in {"calibrate", AfterCalibration(t)},
                 trip'[t].op = trip[t].op, trip'[t].row = trip[t].row, ~trip'[t].trims
          PROVE  Orderly'
      BY <2>1, <2>2, <2>3, StepHolds
    <2>4. CASE ReadCalibration(t)
      <3>1. OnlyTrip(t) /\ UNCHANGED locks
        BY <2>4 DEF Reached, ReadCalibration, Promised, Typed, OnlyTrip
      <3>2. /\ trip'[t].pc \in {"calibrate", AfterCalibration(t)}
            /\ trip'[t].op = trip[t].op /\ trip'[t].row = trip[t].row /\ ~trip'[t].trims
        BY <2>1, <2>4 DEF Reached, ReadCalibration, Promised, Typed, Trip
      <3> QED
        BY <2>3, <3>1, <3>2
    <2>5. CASE ApplyCalibration(t)
      <3>1. OnlyTrip(t) /\ UNCHANGED locks
        BY <2>5 DEF Reached, ApplyCalibration, Promised, Typed, OnlyTrip
      <3>2. /\ trip'[t].pc = "calibrate"
            /\ trip'[t].op = trip[t].op /\ trip'[t].row = trip[t].row /\ ~trip'[t].trims
        BY <2>1, <2>5 DEF Reached, ApplyCalibration, Promised, Typed, Trip
      <3> QED
        BY <2>3, <3>1, <3>2
    <2>6. CASE WriteCalibration(t)
      <3>1. Ended(t) \/ (Acquire(t) /\ trip' = [trip EXCEPT ![t].pc = AfterCalibration(t)])
        BY <2>6 DEF Reached, WriteCalibration
      <3>2. CASE Acquire(t) /\ trip' = [trip EXCEPT ![t].pc = AfterCalibration(t)]
        <4>1. OnlyTrip(t) /\ trip'[t] = [trip[t] EXCEPT !.pc = AfterCalibration(t)]
          BY <3>2 DEF Promised, Typed, OnlyTrip
        <4>2. /\ trip'[t].pc = AfterCalibration(t)
              /\ trip'[t].op = trip[t].op /\ trip'[t].row = trip[t].row /\ ~trip'[t].trims
          BY <2>1, <4>1 DEF Trip
        <4> QED
          BY <2>3, <3>2, <4>1, <4>2
      <3> QED
        BY <3>1, <3>2, EndHolds
    <2> QED
      BY <1>5, <2>4, <2>5, <2>6
  <1>6. ASSUME NEW t \in Threads, Claim(t) \/ Evaluate(t) \/ Award(t) PROVE Orderly'
    <2>1. trip[t] \in Trip /\ trip[t].pc \in {"claim", "evaluate", "award"}
      BY <1>6 DEF Reached, Claim, Evaluate, Award, Promised, Typed
    <2>2. CASE Ended(t)
      BY <2>2, EndHolds
    <2>4. Promise(trip[t], locks[t])
      BY DEF Promised
    <2>5. trip[t].row # None /\ locks[t] # {}
      BY <2>1, <2>4 DEF Promise
    <2>3. CASE ~Ended(t)
      <3>1. OnlyTrip(t) /\ (UNCHANGED locks \/ Acquire(t))
        BY <1>6, <2>3 DEF Reached, Claim, Evaluate, Award, Promised, Typed, OnlyTrip
      <3>2. trip'[t].pc \in {"evaluate", "award", "commit"} /\ trip'[t].op = trip[t].op
        <4>1. CASE Claim(t)
          BY <2>3, <4>1, ClaimStep
        <4>2. CASE Evaluate(t)
          BY <2>1, <4>2 DEF Reached, Evaluate, Promised, Typed, Trip
        <4>3. CASE Award(t)
          BY <2>1, <4>3 DEF Reached, Award, Promised, Typed, Trip
        <4> QED
          BY <1>6, <4>1, <4>2, <4>3
      <3>3. locks'[t] # {}
        BY <2>5, <3>1, AcquireKeeps
      <3> QED
        BY <2>1, <3>1, <3>2, <3>3, StepHolds
    <2> QED
      BY <2>2, <2>3
  <1>7. ASSUME NEW t \in Threads, CommitTrip(t) \/ AbortDeadlocked(t) PROVE Orderly'
    BY <1>7, EndHolds DEF Reached, CommitTrip, AbortDeadlocked
  <1> QED
    BY <1>1, <1>2, <1>3, <1>4, <1>5, <1>6, <1>7, <1>8, BeginHolds, TrimHolds DEF AchievementsNext

(* What a holder that waits without an excuse is about. *)
Waiting == {"entry", "calibrate", "claim", "award"}

Excused(S, t) ==
  /\ locks[t] # {}
  /\ \/ Reached(t, "lock") /\ trip[t].op \notin Claims
     \/ Reached(t, "write")
     \/ Reached(t, "award") /\ \E s \in S : Definition("update") \in locks[s]
     \/ trip[t].trims /\ \E s \in S \ {t} : \E y \in locks[s] : y[1] = Events[1]

LEMMA Innocent ==
  ASSUME Promised, Orderly, NEW S \in SUBSET Threads, Deadlocked(S),
         \A t \in S : ~Excused(S, t)
  PROVE  /\ \A t \in S : ~trip[t].trims /\ trip[t].pc # "write"
         /\ \A s \in S : \E t \in S : s # t /\ trip[t].pc \in Waiting
                                     /\ \E x \in Wants(s), y \in locks[t] : Conflict(x, y)
  <1>1. \A t \in Threads : Holding(trip[t], locks[t])
    BY DEF Orderly
  <1>2. ASSUME NEW t \in S PROVE ~trip[t].trims
    <2> SUFFICES ASSUME trip[t].trims PROVE FALSE
      OBVIOUS
    <2>1. PICK s \in S : WaitsFor(t, s)
      BY DEF Deadlocked
    <2>2. PICK y \in locks[s] : Conflict(Events, y)
      BY <2>1 DEF Reached, WaitsFor, Wants
    <2>3. y[1] = Events[1] /\ s # t
      BY <2>1, <2>2 DEF Conflict, WaitsFor
    <2> QED
      BY <1>1, <2>2, <2>3 DEF Holding, Excused
  <1>3. ASSUME NEW t \in S PROVE trip[t].pc # "write"
    BY <1>1, <1>2 DEF Holding, Excused, Reached
  <1>4. ASSUME NEW s \in S
        PROVE  \E t \in S : s # t /\ trip[t].pc \in Waiting
                                   /\ \E x \in Wants(s), y \in locks[t] : Conflict(x, y)
    <2>1. PICK t \in S : WaitsFor(s, t)
      BY DEF Deadlocked
    <2>2. locks[t] # {} /\ s # t /\ \E x \in Wants(s), y \in locks[t] : Conflict(x, y)
      BY <2>1 DEF WaitsFor
    <2>3. Wants(t) # {}
      BY DEF Deadlocked, WaitsFor
    <2>4. trip[t].pc \in {"insert", "lock", "entry", "calibrate", "claim", "award", "family", "write"}
      BY <1>2, <2>3 DEF Wants, Reached
    <2>5. trip[t].pc \in Waiting
      BY <1>1, <1>2, <1>3, <2>2, <2>4 DEF Holding, Excused, Reached, Waiting
    <2> QED
      BY <2>2, <2>5
  <1> QED
    BY <1>2, <1>3, <1>4

LEMMA DeadlocksHaveCause ==
  ASSUME Promised, Orderly
  PROVE  DeadlocksExplained
  <1> SUFFICES ASSUME NEW S \in SUBSET Threads, Deadlocked(S), \A t \in S : ~Excused(S, t)
               PROVE  FALSE
    BY DEF DeadlocksExplained, Excused
  <1>1. \A t \in Threads : Holding(trip[t], locks[t]) /\ Promise(trip[t], locks[t])
    BY DEF Orderly, Promised
  <1>2. \A t \in S : ~trip[t].trims /\ trip[t].pc # "write"
    BY Innocent
  <1>3. \A s \in S : \E t \in S : /\ s # t /\ trip[t].pc \in Waiting
                                  /\ \E x \in Wants(s), y \in locks[t] : Conflict(x, y)
    BY Innocent
  <1>4. \A t \in S : Family("update") \notin locks[t]
    <2>1. \A t \in S : Wants(t) # {}
      BY <1>3
    <2>2. \A t \in S : Wants(t) # {} => trip[t].pc # "commit"
      BY <1>2 DEF Wants, Reached
    <2> QED
      BY <1>1, <1>2, <2>1, <2>2 DEF Holding
  <1>5. ASSUME NEW s \in S, NEW t \in S, trip[s].pc \in {"award", "claim"},
               NEW x \in Wants(s), NEW y \in locks[t], Conflict(x, y)
        PROVE  FALSE
    <2>1. /\ x \in {Definition("share"), Family("share")}
          /\ x = Definition("share") => trip[s].pc = "award"
      BY <1>2, <1>5 DEF Wants, Reached, Definition, Family
    <2>2. y \in Rows \X Modes
      BY DEF Promised, Typed
    <2>3. y = <<x[1], "update">>
      BY <1>5, <2>1, <2>2 DEF Conflict, Definition, Family
    <2>4. y \in {Definition("update"), Family("update")}
      BY <2>1, <2>3 DEF Definition, Family
    <2>5. y = Definition("update") /\ x = Definition("share")
      BY <1>4, <2>1, <2>3, <2>4 DEF Definition, Family
    <2>6. trip[s].row # None
      BY <1>1, <2>1, <2>5 DEF Promise
    <2>7. locks[s] # {}
      BY <1>1, <2>6 DEF Promise
    <2> QED
      BY <1>2, <2>1, <2>5, <2>7 DEF Excused, Reached
  <1>6. ASSUME NEW s \in S, NEW t \in S, trip[s].pc = "calibrate",
               NEW x \in Wants(s), NEW y \in locks[t], Conflict(x, y)
        PROVE  x = Calibration /\ y[1] = Calibration[1]
    <2>1. x \in {Calibration, Family("share")}
      BY <1>2, <1>6 DEF Wants, Reached
    <2>2. CASE x = Family("share")
      <3>1. y \in Rows \X Modes
        BY DEF Promised, Typed
      <3>2. y = Family("update")
        BY <1>6, <2>2, <3>1 DEF Conflict, Family
      <3> QED
        BY <1>4, <3>2
    <2> QED
      BY <1>6, <2>1, <2>2 DEF Conflict
  <1>7. ASSUME NEW s \in S, NEW t \in S, trip[s].pc = "entry", trip[t].pc = "entry",
               NEW x \in Wants(s), NEW y \in locks[t], Conflict(x, y)
        PROVE  FALSE
    <2>1. x = Definition("update") /\ y = Child(trip[t].child, "update")
      BY <1>1, <1>2, <1>7 DEF Wants, Reached, Holding
    <2> QED
      BY <1>7, <2>1 DEF Conflict, Definition, Child
  <1>8. ASSUME NEW s \in S, trip[s].pc = "calibrate"
        PROVE  \E t \in S : /\ s # t /\ trip[t].pc = "calibrate"
                            /\ \E y \in locks[t] : y[1] = Calibration[1] /\ Conflict(Calibration, y)
    <2>1. PICK t \in S : /\ s # t /\ trip[t].pc \in Waiting
                         /\ \E x \in Wants(s), y \in locks[t] : Conflict(x, y)
      BY <1>3
    <2>2. PICK x \in Wants(s), y \in locks[t] : Conflict(x, y)
      BY <2>1
    <2>3. x = Calibration /\ y[1] = Calibration[1]
      BY <1>6, <1>8, <2>2
    <2>4. trip[t].pc \notin {"award", "claim"}
      BY <1>3, <1>5
    <2>5. trip[t].pc # "entry"
      BY <1>1, <2>3 DEF Holding, Calibration, Child
    <2> QED
      BY <2>1, <2>2, <2>3, <2>4, <2>5 DEF Waiting
  <1>9. PICK s \in S : trip[s].pc = "calibrate"
    <2>1. PICK t \in S : trip[t].pc \in Waiting
      BY <1>3 DEF Deadlocked
    <2>2. \A u \in S : trip[u].pc \notin {"award", "claim"}
      BY <1>3, <1>5
    <2>3. CASE trip[t].pc = "entry"
      <3>1. PICK u \in S : /\ trip[u].pc \in Waiting
                           /\ \E x \in Wants(t), y \in locks[u] : Conflict(x, y)
        BY <1>3
      <3> QED
        BY <1>7, <2>2, <2>3, <3>1 DEF Waiting
    <2> QED
      BY <2>1, <2>2, <2>3 DEF Waiting
  <1>10. PICK u \in S : /\ trip[u].pc = "calibrate"
                        /\ \E y \in locks[u] : y[1] = Calibration[1] /\ Conflict(Calibration, y)
    BY <1>8, <1>9
  <1>11. PICK v \in S : /\ u # v
                        /\ \E z \in locks[v] : z[1] = Calibration[1] /\ Conflict(Calibration, z)
    BY <1>8, <1>10
  <1>12. PICK y \in locks[u] : y[1] = Calibration[1] /\ Conflict(Calibration, y)
    BY <1>10
  <1>13. PICK z \in locks[v] : z[1] = Calibration[1] /\ Conflict(Calibration, z)
    BY <1>11
  <1>14. Conflict(y, z)
    BY <1>12, <1>13 DEF Conflict, Calibration
  <1> QED
    BY <1>11, <1>12, <1>13, <1>14 DEF Promised, Compatible

(* On SQLite no request holds a lock. *)
LEMMA NoLocksOnSqlite ==
  ASSUME ~RowLocks
  PROVE  AchievementsSpec => []DeadlocksExplained
  <1> DEFINE Free == \A t \in Threads : locks[t] = {}
  <1>1. AchievementsInit => Free
    BY DEF AchievementsInit
  <1>2. Free /\ [AchievementsNext]_achievementVars => Free'
    <2> SUFFICES ASSUME Free, [AchievementsNext]_achievementVars PROVE Free'
      OBVIOUS
    <2>1. CASE UNCHANGED achievementVars
      BY <2>1 DEF achievementVars
    <2>2. ASSUME NEW t \in Threads,
                 \/ BeginTrip(t) \/ Insert(t) \/ EditMember(t) \/ Trim(t) \/ LockChild(t) \/ LockEntry(t)
                 \/ ReadCalibration(t) \/ ApplyCalibration(t) \/ WriteCalibration(t)
                 \/ Claim(t) \/ Evaluate(t) \/ Award(t) \/ CommitTrip(t) \/ AbortDeadlocked(t)
          PROVE  locks' = locks \/ locks' = [locks EXCEPT ![t] = {}]
      BY <2>2 DEF Reached, BeginTrip, Insert, EditMember, Trim, LockChild, LockEntry, ReadCalibration,
                  ApplyCalibration, WriteCalibration, Claim, Evaluate, Award, CommitTrip, AbortDeadlocked, Acquire, Ended
    <2>3. \A t, s \in Threads : locks' = [locks EXCEPT ![t] = {}] => locks'[s] = {}
      OBVIOUS
    <2> QED
      BY <2>1, <2>2, <2>3 DEF AchievementsNext
  <1>3. Free => DeadlocksExplained
    BY DEF Reached, DeadlocksExplained, Deadlocked, WaitsFor
  <1> QED
    BY <1>1, <1>2, <1>3, PTL DEF AchievementsSpec

LEMMA InitOrderly == AchievementsInit => Orderly
  <1>1. Holding(NoTrip, {})
    BY DEF Holding, NoTrip
  <1> QED
    BY <1>1 DEF AchievementsInit, Orderly

(* Whatever number of requests wait for each other, one of them asks for   *)
(* the child's row after it has written something else, refers to the      *)
(* catalog entry a claim has locked, or deletes the old live events after  *)
(* another of them has: the calibration and the family alone never make    *)
(* requests wait in a circle.                                              *)
THEOREM DeadlocksAlwaysExplained == AchievementsSpec => []DeadlocksExplained
  <1>1. CASE RowLocks
    <2>1. Promised /\ Orderly /\ [AchievementsNext]_achievementVars => (Promised /\ Orderly)'
      BY <1>1, NextPromised, NextOrderly
    <2> QED
      BY <2>1, InitPromised, InitOrderly, DeadlocksHaveCause, PTL DEF AchievementsSpec
  <1>2. CASE ~RowLocks
    BY <1>2, NoLocksOnSqlite
  <1> QED
    BY <1>1, <1>2

-----------------------------------------------------------------------------
(* The calibration *)

(* A status is written under the lock of the row, by a session that read   *)
(* an older one; a session that inserted the row is the first to have it.  *)
Informed(r, held) ==
  /\ r.sets # "same" /\ r.pc # "calibrate" => Calibration \in held
  /\ Calibration \in held /\ r.before = "missing" => calibration = "missing"
  /\ r.sets \in {"same", "pending", "ready", "applied"}
  /\ r.sets = "pending" => r.before = "missing"
  /\ r.sets = "ready" => r.before \in {"missing", "pending"}
  /\ r.seen # "missing"
  /\ r.seen = "pending" => r.before \in {"missing", "pending"}
  /\ r.pc \in {"insert", "lock", "entry", "read"} => (r.seen = "unread" <=> r.before = "unread")
  /\ r.pc \in {"insert", "lock", "entry", "read"} /\ r.before = "unread" => Calibration \notin held
  /\ r.pc = "read" /\ r.row = None => r.before = "unread"
  /\ r.pc = "calibrate" => r.seen # "unread" /\ r.before # "unread"

AllInformed == \A t \in Threads : Informed(trip[t], locks[t])

LEMMA OnlyOneWritesCalibration ==
  ASSUME Promised, NEW s \in Threads, NEW t \in Threads, s # t, Calibration \in locks[t]
  PROVE  Calibration \notin locks[s]
  BY DEF Promised, Compatible, Conflict, Calibration

LEMMA CalibrationWanted ==
  ASSUME NEW t \in Threads, trip[t].trims \/ trip[t].pc # "calibrate"
  PROVE  Calibration \notin Wants(t)
  BY DEF Reached, Wants, Family, Child, Definition, Calibration, Events

LEMMA StepInformed ==
  ASSUME RowLocks, Promised, AllInformed, NEW t \in Threads, OnlyTrip(t),
         UNCHANGED locks \/ Acquire(t), calibration' = calibration,
         Informed(trip'[t], locks'[t])
  PROVE  AllInformed'
  <1>1. \A s \in Threads \ {t} : locks'[s] = locks[s]
    BY AcquireKeeps
  <1>2. \A s \in Threads : Informed(trip'[s], locks'[s])
    BY <1>1 DEF AllInformed, OnlyTrip
  <1> QED
    BY <1>2 DEF AllInformed, Informed, Calibration

LEMMA EndInformed ==
  ASSUME Promised, AllInformed, NEW t \in Threads, Ended(t),
         calibration' = calibration \/ Calibration \in locks[t]
  PROVE  AllInformed'
  <1>1. /\ trip'[t] = NoTrip /\ locks'[t] = {}
        /\ \A s \in Threads \ {t} : trip'[s] = trip[s] /\ locks'[s] = locks[s]
    BY DEF Promised, Typed, Ended
  <1>2. Informed(trip[t], locks[t])'
    BY <1>1 DEF Informed, NoTrip
  <1>3. ASSUME NEW s \in Threads \ {t} PROVE Informed(trip[s], locks[s])'
    <2>1. calibration' = calibration \/ Calibration \notin locks[s]
      BY OnlyOneWritesCalibration
    <2>2. Informed(trip[s], locks[s])
      BY DEF AllInformed
    <2> QED
      BY <1>1, <2>1, <2>2 DEF Informed, Calibration
  <1> QED
    BY <1>2, <1>3 DEF AllInformed

(* A step of t that neither reads nor writes the calibration. *)
LEMMA OtherInformed ==
  ASSUME RowLocks, Promised, AllInformed, NEW t \in Threads, OnlyTrip(t),
         UNCHANGED locks \/ Acquire(t), calibration' = calibration,
         trip[t].trims \/ trip[t].pc # "calibrate",
         UNCHANGED <<trip[t].seen, trip[t].before, trip[t].sets>>,
         \/ trip'[t].pc = trip[t].pc /\ trip'[t].row = trip[t].row
         \/ /\ trip[t].pc # "calibrate" /\ trip'[t].pc # "calibrate"
            /\ trip'[t].pc = "read" => trip[t].pc \in {"lock", "entry"} /\ trip'[t].row # None
            /\ trip'[t].pc \in {"insert", "lock"} => trip[t].pc = "insert"
            /\ trip'[t].pc = "entry" => trip[t].pc = "lock"
  PROVE  AllInformed'
  <1>1. Informed(trip[t], locks[t])
    BY DEF AllInformed
  <1>2. Calibration \in locks'[t] <=> Calibration \in locks[t]
    BY AcquireKeeps, CalibrationWanted
  <1>3. Informed(trip'[t], locks'[t])
    BY <1>1, <1>2 DEF Informed
  <1> QED
    BY <1>3, StepInformed
LEMMA InitInformed == AchievementsInit => AllInformed
  <1>1. Informed(NoTrip, {})
    BY DEF Informed, NoTrip
  <1> QED
    BY <1>1 DEF AchievementsInit, AllInformed

LEMMA BeginInformed ==
  ASSUME RowLocks, Promised, Orderly, AllInformed, NEW t \in Threads, BeginTrip(t)
  PROVE  AllInformed'
  <1>1. PICK op \in {"post", "overview", "profile", "reward", "recalibrate", "edit"}, c \in Children :
           trip' = [trip EXCEPT ![t] = [NoTrip EXCEPT !.op = op, !.pc = First(op), !.child = c]]
    BY DEF BeginTrip
  <1> DEFINE r == [NoTrip EXCEPT !.op = op, !.pc = First(op), !.child = c]
  <1>2. r.pc # "calibrate" /\ r.seen = "unread" /\ r.before = "unread" /\ r.sets = "same"
    BY DEF NoTrip, First, Claims
  <1> HIDE DEF r
  <1>3. trip'[t] = r /\ OnlyTrip(t)
    BY <1>1 DEF Promised, Typed, OnlyTrip, r
  <1>4. locks' = locks /\ locks[t] = {} /\ calibration' = calibration
    BY DEF BeginTrip, Orderly, Holding, committed
  <1>5. Informed(r, {})
    BY <1>2 DEF Informed
  <1> QED
    BY <1>3, <1>4, <1>5, StepInformed

LEMMA ReadInformed ==
  ASSUME RowLocks, Promised, AllInformed, NEW t \in Threads, ReadCalibration(t)
  PROVE  AllInformed'
  <1>1. trip[t] \in Trip /\ Informed(trip[t], locks[t]) /\ calibration \in Statuses /\ trip[t].pc = "read"
    BY DEF Reached, ReadCalibration, AllInformed, Promised, Typed
  <1>2. PICK mature \in BOOLEAN, writes \in BOOLEAN :
           LET status == IF trip[t].seen = "unread" THEN calibration ELSE trip[t].seen
               new == Ensured(status, mature)
           IN  /\ new # status => writes
               /\ trip' = [trip EXCEPT ![t].pc = IF writes THEN "calibrate" ELSE AfterCalibration(t),
                                       ![t].seen = new,
                                       ![t].before = IF @ = "unread" THEN calibration ELSE @,
                                       ![t].sets = IF new = status THEN @ ELSE new]
    BY DEF Reached, ReadCalibration
  <1> DEFINE status == IF trip[t].seen = "unread" THEN calibration ELSE trip[t].seen
             new == Ensured(status, mature)
             pc == IF writes THEN "calibrate" ELSE AfterCalibration(t)
             before == IF trip[t].before = "unread" THEN calibration ELSE trip[t].before
             sets == IF new = status THEN trip[t].sets ELSE new
             r == [trip[t] EXCEPT !.pc = pc, !.seen = new, !.before = before, !.sets = sets]
  <1>3. trip' = [trip EXCEPT ![t] = r] /\ (new # status => writes)
    BY <1>2 DEF Promised, Typed
  <1>4. r.pc = pc /\ r.seen = new /\ r.before = before /\ r.sets = sets
    BY <1>1 DEF Trip
  <1>5. /\ status \in Statuses /\ new \in {"pending", "ready", "applied"}
        /\ new = "pending" => status \in {"missing", "pending"}
        /\ new # status => (new = "ready" => status \in {"missing", "pending"}) /\ new # "applied"
    BY <1>1 DEF Ensured, Trip, Statuses
  <1>6. pc # "read" /\ pc # "insert" /\ (pc = "calibrate" <=> writes)
    BY DEF AfterCalibration, Continue
  <1>7. Informed(r, locks[t])
    <2>1. before # "unread" /\ (trip[t].before = "unread" <=> trip[t].seen = "unread")
      BY <1>1 DEF Informed, Statuses
    <2>2. trip[t].before = "unread" => status = calibration /\ before = calibration /\ Calibration \notin locks[t]
      BY <1>1 DEF Informed
    <2>3. trip[t].before # "unread" => status = trip[t].seen /\ before = trip[t].before
      BY <2>1
    <2>4. status \in {"missing", "pending"} => before \in {"missing", "pending"}
      BY <1>1, <2>2, <2>3 DEF Informed
    <2>5. status = "missing" => before = "missing"
      BY <1>1, <2>2, <2>3 DEF Informed
    <2>6. Calibration \in locks[t] /\ before = "missing" => calibration = "missing"
      BY <1>1, <2>2, <2>3 DEF Informed
    <2>7. /\ sets \in {"same", "pending", "ready", "applied"}
          /\ sets = "pending" => before = "missing"
          /\ sets = "ready" => before \in {"missing", "pending"}
      <3>1. CASE new = status
        BY <1>1, <2>2, <2>3, <3>1 DEF Informed
      <3>2. CASE new # status
        BY <1>5, <2>4, <2>5, <3>2 DEF Ensured
      <3> QED
        BY <3>1, <3>2
    <2>8. sets # "same" /\ pc # "calibrate" => Calibration \in locks[t]
      BY <1>1, <1>3, <1>6 DEF Informed
    <2> HIDE DEF r, pc, new, before, sets, status
    <2> QED
      BY <1>4, <1>5, <1>6, <2>1, <2>4, <2>6, <2>7, <2>8 DEF Informed
  <1> HIDE DEF r
  <1>8. trip'[t] = r /\ OnlyTrip(t)
    BY <1>3 DEF Promised, Typed, OnlyTrip
  <1> QED
    BY <1>7, <1>8, StepInformed DEF Reached, ReadCalibration, committed

LEMMA ApplyInformed ==
  ASSUME RowLocks, Promised, AllInformed, NEW t \in Threads, ApplyCalibration(t)
  PROVE  AllInformed'
  <1>1. /\ trip[t] \in Trip /\ Informed(trip[t], locks[t]) /\ calibration \in Statuses
        /\ trip[t].pc = "read" /\ trip[t].row = None
    BY DEF Reached, ApplyCalibration, AllInformed, Promised, Typed
  <1> DEFINE sets == IF calibration = "applied" THEN "same" ELSE "applied"
             r == [trip[t] EXCEPT !.pc = "calibrate", !.seen = "applied", !.before = calibration, !.sets = sets]
  <1>2. trip' = [trip EXCEPT ![t] = r]
    BY DEF Reached, ApplyCalibration, Promised, Typed
  <1>3. r.pc = "calibrate" /\ r.seen = "applied" /\ r.before = calibration /\ r.sets = sets
    BY <1>1 DEF Trip
  <1>4. Informed(r, locks[t])
    <2>1. sets \in {"same", "applied"} /\ calibration # "unread"
      BY <1>1 DEF Statuses
    <2> HIDE DEF r, sets
    <2> QED
      BY <1>1, <1>3, <2>1 DEF Informed
  <1> HIDE DEF r
  <1>5. trip'[t] = r /\ OnlyTrip(t)
    BY <1>2 DEF Promised, Typed, OnlyTrip
  <1> QED
    BY <1>4, <1>5, StepInformed DEF Reached, ApplyCalibration, committed

LEMMA WriteInformed ==
  ASSUME RowLocks, Promised, AllInformed, NEW t \in Threads, WriteCalibration(t)
  PROVE  AllInformed'
  <1>1. /\ trip[t] \in Trip /\ Informed(trip[t], locks[t]) /\ calibration' = calibration
        /\ trip[t].pc = "calibrate" /\ ~trip[t].trims
    BY DEF Reached, WriteCalibration, AllInformed, Promised, Typed, committed
  <1>2. CASE Ended(t)
    BY <1>1, <1>2, EndInformed
  <1>3. CASE ~Ended(t)
    <2> DEFINE pc == AfterCalibration(t)
               r == [trip[t] EXCEPT !.pc = pc]
    <2>1. /\ trip[t].before = "missing" => calibration = "missing"
          /\ Acquire(t) /\ trip' = [trip EXCEPT ![t] = r]
      BY <1>3 DEF Reached, WriteCalibration, Promised, Typed
    <2>2. /\ r.pc = pc /\ r.seen = trip[t].seen /\ r.before = trip[t].before
          /\ r.sets = trip[t].sets
      BY <1>1 DEF Trip
    <2>3. pc \notin {"read", "insert", "calibrate"}
      BY DEF AfterCalibration, Continue
    <2>4. Calibration \in locks'[t]
      BY <1>1, <2>1, AcquireKeeps DEF Reached, Wants
    <2>5. trip[t].seen # "unread" /\ trip[t].before # "unread"
      BY <1>1 DEF Informed
    <2>6. Informed(r, locks'[t])
      BY <1>1, <2>1, <2>2, <2>3, <2>4, <2>5 DEF Informed
    <2> HIDE DEF r
    <2>7. trip'[t] = r /\ OnlyTrip(t)
      BY <2>1 DEF Promised, Typed, OnlyTrip
    <2> QED
      BY <1>1, <2>1, <2>6, <2>7, StepInformed
  <1> QED
    BY <1>2, <1>3
LEMMA RestInformed ==
  ASSUME RowLocks, Promised, AllInformed, NEW t \in Threads,
         \/ Insert(t) \/ EditMember(t) \/ Trim(t) \/ LockChild(t) \/ LockEntry(t)
         \/ Claim(t) \/ Award(t)
  PROVE  AllInformed'
  <1>1. trip[t] \in Trip /\ Promise(trip[t], locks[t]) /\ calibration' = calibration
    BY DEF Reached, Promised, Typed, Insert, EditMember, Trim, LockChild, LockEntry, Claim, Award, committed
  <1>2. CASE Ended(t)
    BY <1>1, <1>2, EndInformed
  <1>3. CASE ~Ended(t)
    <2>1. OnlyTrip(t) /\ (UNCHANGED locks \/ Acquire(t))
      BY <1>3 DEF Reached, Insert, EditMember, Trim, LockChild, LockEntry, Claim, Award,
                  Promised, Typed, OnlyTrip
    <2>5. CASE Trim(t)
      <3>1. /\ UNCHANGED <<trip[t].seen, trip[t].before, trip[t].sets>>
            /\ trip[t].trims /\ trip'[t].pc = trip[t].pc /\ trip'[t].row = trip[t].row
        BY <1>1, <2>5 DEF Trim, Promised, Typed, Trip
      <3> QED
        BY <1>1, <2>1, <3>1, OtherInformed
    <2>6. CASE LockChild(t) /\ trip[t].op \in Claims
      <3>1. /\ UNCHANGED <<trip[t].seen, trip[t].before, trip[t].sets>>
            /\ trip[t].pc = "lock" /\ trip'[t].pc = "entry"
        BY <1>1, <2>6 DEF Reached, LockChild, Promised, Typed, Trip
      <3> QED
        BY <1>1, <2>1, <3>1, OtherInformed
    <2>2. CASE Insert(t) \/ EditMember(t) \/ Award(t)
      <3>1. /\ UNCHANGED <<trip[t].seen, trip[t].before, trip[t].sets>>
            /\ trip[t].pc # "calibrate" /\ trip'[t].pc \in {"lock", "write", "commit"}
            /\ trip'[t].pc = "lock" => trip[t].pc = "insert"
        BY <1>1, <2>2 DEF Reached, Insert, EditMember, Award, Promised, Typed, Trip
      <3> QED
        BY <1>1, <2>1, <3>1, OtherInformed
    <2>3. CASE (LockChild(t) /\ trip[t].op \notin Claims) \/ LockEntry(t)
      <3> DEFINE row == progress[trip[t].child]
                 r == [trip[t] EXCEPT !.pc = "read", !.row = row]
      <3>1. trip'[t] = r /\ trip[t].pc \in {"lock", "entry"}
        BY <1>1, <1>3, <2>3 DEF Reached, LockChild, LockEntry, Promised, Typed
      <3>2. row # None
        BY <1>1, <3>1, ProgressAssumption DEF Promise, Promised, Typed
      <3>3. /\ r.seen = trip[t].seen /\ r.before = trip[t].before /\ r.sets = trip[t].sets
            /\ r.pc = "read" /\ r.row = row
        BY <1>1 DEF Trip
      <3> HIDE DEF r, row
      <3> QED
        BY <1>1, <2>1, <3>1, <3>2, <3>3, OtherInformed
    <2>4. CASE Claim(t)
      <3>1. /\ UNCHANGED <<trip[t].seen, trip[t].before, trip[t].sets>>
            /\ trip[t].pc = "claim" /\ trip'[t].pc = "evaluate"
        BY <1>1, <1>3, <2>4, ClaimStep DEF Reached, Claim
      <3> QED
        BY <1>1, <2>1, <3>1, OtherInformed
    <2> QED
      BY <2>2, <2>3, <2>4, <2>5, <2>6
  <1> QED
    BY <1>2, <1>3

LEMMA EvaluateInformed ==
  ASSUME RowLocks, Promised, AllInformed, NEW t \in Threads, Evaluate(t)
  PROVE  AllInformed'
  <1>1. trip[t] \in Trip /\ Informed(trip[t], locks[t]) /\ trip[t].pc = "evaluate"
    BY DEF Reached, Evaluate, AllInformed, Promised, Typed
  <1>2. /\ trip'[t].pc \in {"award", "commit"} /\ trip'[t].sets = trip[t].sets
        /\ trip'[t].seen = "unread"
        /\ trip'[t].before = IF trip[t].sets = "same" THEN "unread" ELSE trip[t].before
    BY <1>1 DEF Reached, Evaluate, Promised, Typed, Trip
  <1>3. OnlyTrip(t) /\ locks' = locks /\ calibration' = calibration
    BY DEF Reached, Evaluate, Promised, Typed, OnlyTrip, committed
  <1>4. Informed(trip'[t], locks[t])
    BY <1>1, <1>2 DEF Informed
  <1> QED
    BY <1>3, <1>4, StepInformed

LEMMA CommitInformed ==
  ASSUME RowLocks, Promised, AllInformed, NEW t \in Threads, CommitTrip(t)
  PROVE  AllInformed'
  <1>1. Informed(trip[t], locks[t]) /\ trip[t].pc = "commit"
    BY DEF Reached, CommitTrip, AllInformed
  <1>2. calibration' = calibration \/ Calibration \in locks[t]
    BY <1>1 DEF Reached, CommitTrip, Informed
  <1> QED
    BY <1>2, EndInformed DEF Reached, CommitTrip

LEMMA NextInformed ==
  ASSUME RowLocks, Promised, Orderly, AllInformed, [AchievementsNext]_achievementVars
  PROVE  AllInformed'
  <1>1. CASE UNCHANGED achievementVars
    BY <1>1 DEF achievementVars, AllInformed, Informed, Calibration
  <1>2. ASSUME NEW t \in Threads, AbortDeadlocked(t) PROVE AllInformed'
    BY <1>2, EndInformed DEF AbortDeadlocked, committed
  <1> QED
    BY <1>1, <1>2, BeginInformed, ReadInformed, ApplyInformed, WriteInformed, RestInformed,
       EvaluateInformed, CommitInformed DEF AchievementsNext

LEMMA CommitExplained ==
  ASSUME AllInformed, [AchievementsNext]_achievementVars, calibration = "applied", calibration' # "applied"
  PROVE  \E t \in Threads : /\ Reached(t, "commit")
                            /\ trip[t].before = "pending" /\ calibration' = "ready"
  <1>1. PICK t \in Threads : CommitTrip(t)
    <2>1. ASSUME NEW t \in Threads,
                 \/ BeginTrip(t) \/ Insert(t) \/ EditMember(t) \/ Trim(t) \/ LockChild(t) \/ LockEntry(t)
                 \/ ReadCalibration(t) \/ ApplyCalibration(t) \/ WriteCalibration(t)
                 \/ Claim(t) \/ Evaluate(t) \/ Award(t) \/ AbortDeadlocked(t)
          PROVE  UNCHANGED committed
      BY <2>1 DEF BeginTrip, Insert, EditMember, Trim, LockChild, LockEntry, ReadCalibration,
                  ApplyCalibration, WriteCalibration, Claim, Evaluate, Award, AbortDeadlocked
    <2>2. ~UNCHANGED committed /\ ~UNCHANGED achievementVars
      BY DEF committed, achievementVars
    <2> QED
      BY <2>1, <2>2 DEF AchievementsNext
  <1>2. Informed(trip[t], locks[t]) /\ trip[t].pc = "commit" /\ Reached(t, "commit")
    BY <1>1 DEF Reached, CommitTrip, AllInformed
  <1>3. trip[t].sets # "same" /\ calibration' = trip[t].sets
    BY <1>1 DEF Reached, CommitTrip
  <1> QED
    BY <1>2, <1>3 DEF Informed

(* What the parents applied is undone only by a session that read the      *)
(* calibration while it was pending: the unique index and the lock of the  *)
(* row stop every other session from writing an older status.              *)
THEOREM ApplicationLostAlwaysExplained ==
  ASSUME RowLocks PROVE AchievementsSpec => ApplicationLostExplained
  <1>1. Promised /\ Orderly /\ AllInformed /\ [AchievementsNext]_achievementVars
           => (Promised /\ Orderly /\ AllInformed)'
    BY NextPromised, NextOrderly, NextInformed
  <1>2. AllInformed /\ [AchievementsNext]_achievementVars =>
          [calibration = "applied" /\ calibration' # "applied" =>
             \E t \in Threads : /\ Reached(t, "commit")
                                /\ trip[t].before = "pending" /\ calibration' = "ready"]_achievementVars
    BY CommitExplained
  <1> QED
    BY <1>1, <1>2, InitPromised, InitOrderly, InitInformed, PTL DEF AchievementsSpec, ApplicationLostExplained

-----------------------------------------------------------------------------
(* Types, on both databases: what a request that got this far has read, and *)
(* how many posts of a child have yet to be counted.                        *)
Course(r) ==
  /\ r.pc # "idle" => r.child \in Children
  /\ r.pc \in {"claim", "evaluate", "award"} => r.row # None
  /\ r.pc = "commit" => r.op = "edit" \/ r.row # None
  /\ r.pc \in {"family", "write"} => r.op = "edit"

Posting(c) == {t \in Threads : trip[t].op = "post" /\ trip[t].child = c /\ trip[t].adds = 1}

Shaped ==
  /\ Typed
  /\ earned \in [Children -> Nat]
  /\ \A c \in Children :
       earned[c] + Cardinality(Posting(c)) <= MaxPoints + Cardinality(Threads) - 1
  /\ \A t \in Threads : Course(trip[t])

LEMMA PostingFinite ==
  /\ MaxPoints \in Nat \ {0} /\ Cardinality(Threads) \in Nat
  /\ \A U : U \subseteq Threads => /\ IsFiniteSet(U) /\ Cardinality(U) \in Nat
                                   /\ Cardinality(U) <= Cardinality(Threads)
  <1>1. IsFiniteSet(Threads)
    BY ThreadsAssumption DEF ThreadsAssumption
  <1> QED
    BY <1>1, AchievementsAssumption, FS_Subset, FS_CardinalityType DEF AchievementsAssumption

LEMMA InitShaped == AchievementsInit => Shaped
  <1> SUFFICES ASSUME AchievementsInit PROVE Shaped
    OBVIOUS
  <1>1. NoTrip \in Trip /\ Course(NoTrip) /\ NoTrip.op = "none"
    BY DEF NoTrip, Trip, Course, Statuses
  <1>2. Typed
    BY <1>1 DEF AchievementsInit, Typed, Statuses, ProgressRow, NoProgress
  <1>3. \A t \in Threads : trip[t] = NoTrip
    BY DEF AchievementsInit
  <1>4. ASSUME NEW c \in Children PROVE Posting(c) = {}
    BY <1>1, <1>3 DEF Posting
  <1>5. Cardinality({}) = 0
    BY FS_EmptySet
  <1> QED
    BY <1>1, <1>2, <1>3, <1>4, <1>5, PostingFinite DEF AchievementsInit, Shaped


LEMMA AcquireShaped ==
  ASSUME Shaped, NEW t \in Threads, UNCHANGED locks \/ Acquire(t)
  PROVE  locks' \in [Threads -> SUBSET (Rows \X Modes)]
  <1>1. Wants(t) \subseteq Rows \X Modes
    BY WantsType DEF Shaped, Course
  <1> QED
    BY <1>1 DEF Acquire, Shaped, Typed

(* A step of one request, which may be about to post another point.         *)
LEMMA OwnShaped ==
  ASSUME Shaped, NEW t \in Threads, NEW r \in Trip,
         trip' = [trip EXCEPT ![t] = r], UNCHANGED committed,
         UNCHANGED locks \/ Acquire(t), Course(r),
         \/ r.op # "post" \/ r.adds = 0
         \/ r.op = trip[t].op /\ r.child = trip[t].child /\ r.adds = trip[t].adds
         \/ r.child \in Children => earned[r.child] < MaxPoints
  PROVE  Shaped'
  <1>1. /\ trip' \in [Threads -> Trip] /\ trip'[t] = r
        /\ \A s \in Threads : s # t => trip'[s] = trip[s]
    BY DEF Shaped, Typed
  <1>2. Typed' /\ earned' = earned
    BY <1>1, AcquireShaped DEF Shaped, Typed, committed
  <1>3. \A s \in Threads : Course(trip[s])'
    BY <1>1 DEF Shaped, Course
  <1>4. ASSUME NEW c \in Children
        PROVE  earned'[c] + Cardinality(Posting(c)') <= MaxPoints + Cardinality(Threads) - 1
    <2>1. /\ earned[c] \in Nat
          /\ earned[c] + Cardinality(Posting(c)) <= MaxPoints + Cardinality(Threads) - 1
      BY DEF Shaped
    <2>2. Posting(c) \subseteq Threads /\ Posting(c)' \subseteq Threads
      BY DEF Posting
    <2>3. /\ Cardinality(Posting(c)) \in Nat /\ IsFiniteSet(Posting(c))
          /\ Cardinality(Posting(c)') \in Nat /\ Cardinality(Posting(c)') <= Cardinality(Threads)
          /\ MaxPoints \in Nat /\ Cardinality(Threads) \in Nat
      BY <2>2, PostingFinite
    <2>4. CASE earned[c] < MaxPoints
      <3>1. earned[c] + Cardinality(Posting(c)') <= MaxPoints + Cardinality(Threads) - 1
        BY ONLY <2>1, <2>3, <2>4
      <3> QED
        BY <1>2, <3>1
    <2>5. CASE ~(earned[c] < MaxPoints)
      <3>1. Posting(c)' \subseteq Posting(c)
        BY <1>1, <2>5 DEF Posting
      <3>2. Cardinality(Posting(c)') <= Cardinality(Posting(c))
        BY <2>3, <3>1, FS_Subset
      <3>3. earned[c] + Cardinality(Posting(c)') <= MaxPoints + Cardinality(Threads) - 1
        BY ONLY <2>1, <2>3, <3>2
      <3> QED
        BY <1>2, <3>3
    <2> QED
      BY <2>4, <2>5
  <1> QED
    BY <1>2, <1>3, <1>4 DEF Shaped

(* A request that ends has counted the points it posted, or none.           *)
LEMMA EndsShaped ==
  ASSUME Shaped, NEW t \in Threads, Ended(t),
         calibration' \in Statuses, progress' \in [Children -> ProgressRow],
         rewards' \in [Children -> [events: Nat, grants: Nat]],
         \/ earned' = earned
         \/ trip[t].op = "post" /\ earned' = [earned EXCEPT ![trip[t].child] = @ + trip[t].adds]
  PROVE  Shaped'
  <1>1. NoTrip \in Trip /\ Course(NoTrip) /\ NoTrip.op = "none"
    BY DEF NoTrip, Trip, Course, Statuses
  <1>2. /\ trip' \in [Threads -> Trip] /\ trip'[t] = NoTrip
        /\ locks' \in [Threads -> SUBSET (Rows \X Modes)]
        /\ \A s \in Threads : s # t => trip'[s] = trip[s]
    BY <1>1 DEF Shaped, Typed, Ended
  <1>3. Typed'
    BY <1>2 DEF Typed
  <1>4. \A s \in Threads : Course(trip[s])'
    BY <1>1, <1>2 DEF Shaped, Course
  <1>5. trip[t].adds \in 0..1 /\ earned \in [Children -> Nat]
    BY DEF Shaped, Typed, Trip
  <1>6. earned' \in [Children -> Nat]
    BY <1>5
  <1>7. ASSUME NEW c \in Children
        PROVE  earned'[c] + Cardinality(Posting(c)') <= MaxPoints + Cardinality(Threads) - 1
    <2>1. /\ earned[c] \in Nat /\ earned'[c] \in Nat
          /\ earned[c] + Cardinality(Posting(c)) <= MaxPoints + Cardinality(Threads) - 1
      BY <1>6 DEF Shaped
    <2>2. Posting(c)' = Posting(c) \ {t}
      BY <1>1, <1>2 DEF Posting
    <2>3. Posting(c) \subseteq Threads
      BY DEF Posting
    <2>4. /\ IsFiniteSet(Posting(c)) /\ Cardinality(Posting(c)) \in Nat
          /\ MaxPoints \in Nat /\ Cardinality(Threads) \in Nat
      BY <2>3, PostingFinite
    <2>5. CASE earned'[c] = earned[c]
      <3>1. Cardinality(Posting(c)') <= Cardinality(Posting(c)) /\ Cardinality(Posting(c)') \in Nat
        BY <2>2, <2>4, FS_Subset, FS_CardinalityType
      <3> QED
        BY ONLY <2>1, <2>4, <2>5, <3>1
    <2>6. CASE earned'[c] # earned[c]
      <3>1. t \in Posting(c) /\ earned'[c] = earned[c] + 1
        BY <1>5, <2>6 DEF Posting
      <3>2. Cardinality(Posting(c)') = Cardinality(Posting(c)) - 1
        BY <2>2, <2>4, <3>1, FS_RemoveElement
      <3> QED
        BY ONLY <2>1, <2>4, <3>1, <3>2
    <2> QED
      BY <2>5, <2>6
  <1> QED
    BY <1>3, <1>4, <1>6, <1>7 DEF Shaped

LEMMA AbortShaped ==
  ASSUME Shaped, NEW t \in Threads, Ended(t), UNCHANGED committed
  PROVE  Shaped'
  BY EndsShaped DEF Shaped, Typed, committed


LEMMA BeginShaped ==
  ASSUME Shaped, NEW t \in Threads, BeginTrip(t)
  PROVE  Shaped'
  <1>1. PICK op \in {"post", "overview", "profile", "reward", "recalibrate", "edit"},
             c \in Children :
               trip' = [trip EXCEPT ![t] = [NoTrip EXCEPT !.op = op, !.pc = First(op), !.child = c]]
    BY DEF BeginTrip
  <1> DEFINE pc == First(op)
             q == [NoTrip EXCEPT !.op = op]
             s == [q EXCEPT !.pc = pc]
             r == [s EXCEPT !.child = c]
  <1>2. pc \in {"insert", "lock", "read", "family"} /\ (pc = "family" => op = "edit")
    BY DEF First, Claims
  <1>3. trip' = [trip EXCEPT ![t] = r]
    BY <1>1
  <1> HIDE DEF pc
  <1>4. NoTrip \in Trip /\ NoTrip.adds = 0
    BY DEF NoTrip, Trip, Statuses
  <1>5. q \in Trip /\ q.adds = 0 /\ q.op = op
    BY <1>4 DEF Trip
  <1> HIDE DEF q
  <1>6. s \in Trip /\ s.adds = 0 /\ s.pc = pc /\ s.op = op
    BY <1>2, <1>5 DEF Trip
  <1> HIDE DEF s
  <1>7. r \in Trip /\ r.adds = 0 /\ r.pc = pc /\ r.child = c /\ r.op = op
    BY <1>6 DEF Trip
  <1> HIDE DEF r
  <1>8. Course(r)
    BY <1>2, <1>7 DEF Course
  <1>9. UNCHANGED <<committed, locks>>
    BY DEF BeginTrip
  <1> QED
    BY <1>3, <1>7, <1>8, <1>9, OwnShaped

LEMMA InsertShaped ==
  ASSUME Shaped, NEW t \in Threads, Insert(t)
  PROVE  Shaped'
  <1> DEFINE n == IF earned[trip[t].child] < MaxPoints THEN 1 ELSE 0
  <1>1. trip[t] \in Trip /\ Course(trip[t]) /\ trip[t].pc = "insert"
    BY DEF Reached, Shaped, Typed, Insert
  <1>8. PICK trims \in BOOLEAN :
          trip' = [trip EXCEPT ![t].pc = "lock", ![t].adds = n, ![t].trims = trims]
    BY DEF Insert
  <1> DEFINE q == [trip[t] EXCEPT !.pc = "lock", !.trims = trims]
             r == [q EXCEPT !.adds = n]
  <1>2. trip' = [trip EXCEPT ![t] = r]
    BY <1>1, <1>8 DEF Shaped, Typed, Trip
  <1>3. n \in 0..1 /\ (n # 0 => earned[trip[t].child] < MaxPoints)
    OBVIOUS
  <1> HIDE DEF n
  <1>4. q \in Trip /\ q.child = trip[t].child /\ q.pc = "lock"
    BY <1>1 DEF Trip
  <1> HIDE DEF q
  <1>5. r \in Trip /\ r.child = trip[t].child /\ r.pc = "lock" /\ r.adds = n
    BY <1>3, <1>4 DEF Trip
  <1> HIDE DEF r
  <1>6. Course(r)
    BY <1>1, <1>5 DEF Course
  <1>7. r.adds = 0 \/ earned[r.child] < MaxPoints
    BY <1>3, <1>5
  <1> QED
    BY <1>2, <1>5, <1>6, <1>7, OwnShaped DEF Reached, Insert

LEMMA EditShaped ==
  ASSUME Shaped, NEW t \in Threads, EditMember(t) \/ Award(t)
  PROVE  Shaped'
  <1> DEFINE pc == IF trip[t].pc = "family" THEN "write" ELSE "commit"
  <1>1. trip[t] \in Trip /\ Course(trip[t])
    BY DEF Shaped, Typed
  <1>9. PICK trims \in BOOLEAN : trip' = [trip EXCEPT ![t].pc = pc, ![t].trims = trims]
    BY DEF EditMember, Award, Reached
  <1> DEFINE r == [trip[t] EXCEPT !.pc = pc, !.trims = trims]
  <1>2. trip' = [trip EXCEPT ![t] = r]
    BY <1>1, <1>9 DEF Shaped, Typed, Trip
  <1>3. pc \in {"write", "commit"} /\ trip[t].pc # "idle"
    BY DEF Reached, EditMember, Award
  <1>4. r \in Trip
    <2> HIDE DEF pc
    <2> QED
      BY <1>1, <1>3 DEF Trip
  <1>5. r.op = trip[t].op /\ r.child = trip[t].child /\ r.row = trip[t].row /\ r.adds = trip[t].adds
        /\ r.pc = pc
    BY <1>1 DEF Trip
  <1>6. UNCHANGED committed /\ Acquire(t)
    BY DEF Reached, EditMember, Award
  <1>7. (pc = "commit" => r.op = "edit" \/ r.row # None) /\ (pc = "write" => r.op = "edit")
    <2>1. CASE Award(t)
      BY <1>1, <1>5, <2>1 DEF Reached, Award, Course
    <2>2. CASE EditMember(t)
      BY <1>1, <1>5, <2>2 DEF Reached, EditMember, Course
    <2> QED
      BY <2>1, <2>2
  <1> HIDE DEF r, pc
  <1>8. Course(r)
    BY <1>1, <1>3, <1>5, <1>7 DEF Course
  <1> QED
    BY <1>2, <1>4, <1>5, <1>6, <1>8, OwnShaped


LEMMA TrimShaped ==
  ASSUME Shaped, NEW t \in Threads, Trim(t)
  PROVE  Shaped'
  <1> DEFINE r == [trip[t] EXCEPT !.trims = FALSE]
  <1>1. trip[t] \in Trip /\ Course(trip[t])
    BY DEF Shaped, Typed
  <1>2. trip' = [trip EXCEPT ![t] = r] /\ r \in Trip
    BY <1>1 DEF Trim, Shaped, Typed, Trip
  <1>3. /\ r.op = trip[t].op /\ r.child = trip[t].child /\ r.row = trip[t].row
        /\ r.adds = trip[t].adds /\ r.pc = trip[t].pc
    BY <1>1 DEF Trip
  <1> HIDE DEF r
  <1>4. Course(r)
    BY <1>1, <1>3 DEF Course
  <1> QED
    BY <1>2, <1>3, <1>4, OwnShaped DEF Trim

LEMMA LockShaped ==
  ASSUME Shaped, NEW t \in Threads, LockChild(t) \/ LockEntry(t)
  PROVE  Shaped'
  <1> DEFINE row == progress[trip[t].child]
             q == [trip[t] EXCEPT !.pc = "read"]
             r == [q EXCEPT !.row = row]
  <1>1. /\ trip[t] \in Trip /\ Course(trip[t]) /\ trip[t].pc \in {"lock", "entry"}
        /\ UNCHANGED committed
    BY DEF Reached, Shaped, Typed, LockChild, LockEntry
  <1>2. trip[t].child \in Children /\ row \in ProgressRow
    BY <1>1 DEF Course, Shaped, Typed
  <1>3. CASE Acquire(t) /\ trip' = [trip EXCEPT ![t].pc = "read", ![t].row = row]
    <2>1. trip' = [trip EXCEPT ![t] = r]
      BY <1>1, <1>3 DEF Shaped, Typed, Trip
    <2> HIDE DEF row
    <2>2. q \in Trip /\ q.op = trip[t].op /\ q.child = trip[t].child /\ q.adds = trip[t].adds
          /\ q.pc = "read"
      BY <1>1 DEF Trip
    <2> HIDE DEF q
    <2>3. r \in Trip /\ r.op = trip[t].op /\ r.child = trip[t].child /\ r.adds = trip[t].adds
          /\ r.pc = "read"
      BY <1>2, <2>2 DEF Trip
    <2> HIDE DEF r
    <2>4. Course(r)
      BY <1>2, <2>3 DEF Course
    <2> QED
      BY <1>1, <1>3, <2>1, <2>3, <2>4, OwnShaped
  <1>4. CASE Ended(t)
    BY <1>1, <1>4, AbortShaped
  <1>5. CASE Acquire(t) /\ trip' = [trip EXCEPT ![t].pc = "entry"]
    <2> DEFINE p == [trip[t] EXCEPT !.pc = "entry"]
    <2>1. trip' = [trip EXCEPT ![t] = p]
      BY <1>1, <1>5 DEF Shaped, Typed, Trip
    <2>2. p \in Trip /\ p.op = trip[t].op /\ p.child = trip[t].child /\ p.adds = trip[t].adds
          /\ p.pc = "entry"
      BY <1>1 DEF Trip
    <2> HIDE DEF p
    <2>3. Course(p)
      BY <1>2, <2>2 DEF Course
    <2> QED
      BY <1>1, <1>5, <2>1, <2>2, <2>3, OwnShaped
  <1> QED
    BY <1>3, <1>4, <1>5 DEF LockChild, LockEntry

(* The statements on the calibration leave the progress alone.              *)
LEMMA OnCalibration ==
  ASSUME Shaped, NEW t \in Threads, trip[t].pc \in {"read", "calibrate"}, UNCHANGED committed,
         UNCHANGED locks \/ Acquire(t),
         NEW pc \in {"calibrate", "lock", "claim", "evaluate"},
         NEW seen \in Statuses \union {"unread"},
         NEW before \in Statuses \union {"unread"}, NEW sets \in Statuses \union {"same"},
         pc \in {"claim", "evaluate"} => trip[t].row # None,
         trip' = [trip EXCEPT ![t] =
                    [trip[t] EXCEPT !.pc = pc, !.seen = seen, !.before = before, !.sets = sets]]
  PROVE  Shaped'
  <1> DEFINE r == [trip[t] EXCEPT !.pc = pc, !.seen = seen, !.before = before, !.sets = sets]
  <1>1. trip[t] \in Trip /\ Course(trip[t])
    BY DEF Shaped, Typed
  <1>2. r \in Trip
    BY <1>1 DEF Trip
  <1>3. /\ r.pc = pc /\ r.op = trip[t].op /\ r.child = trip[t].child /\ r.row = trip[t].row
        /\ r.adds = trip[t].adds
    BY <1>1 DEF Trip
  <1>4. trip' = [trip EXCEPT ![t] = r]
    OBVIOUS
  <1> HIDE DEF r
  <1>5. Course(r)
    BY <1>1, <1>3 DEF Course
  <1> QED
    BY <1>2, <1>3, <1>4, <1>5, OwnShaped

LEMMA CalibrationShaped ==
  ASSUME Shaped, NEW t \in Threads,
         ReadCalibration(t) \/ ApplyCalibration(t) \/ WriteCalibration(t)
  PROVE  Shaped'
  <1>1. trip[t] \in Trip /\ calibration \in Statuses
    BY DEF Shaped, Typed
  <1>2. /\ AfterCalibration(t) \in {"lock", "claim", "evaluate"}
        /\ AfterCalibration(t) # "lock" => trip[t].row # None
    BY DEF AfterCalibration, Continue
  <1>3. CASE ReadCalibration(t)
    <2> DEFINE status == IF trip[t].seen = "unread" THEN calibration ELSE trip[t].seen
    <2>1. PICK mature \in BOOLEAN, writes \in BOOLEAN :
            LET new == Ensured(status, mature) IN
            /\ new # status => writes
            /\ writes => new # status \/ status # "applied"
            /\ trip' = [trip EXCEPT ![t].pc = IF writes THEN "calibrate" ELSE AfterCalibration(t),
                                    ![t].seen = new,
                                    ![t].before = IF @ = "unread" THEN calibration ELSE @,
                                    ![t].sets = IF new = status THEN @ ELSE new]
      BY <1>3 DEF Reached, ReadCalibration
    <2> DEFINE new == Ensured(status, mature)
               pc == IF writes THEN "calibrate" ELSE AfterCalibration(t)
               before == IF trip[t].before = "unread" THEN calibration ELSE trip[t].before
               sets == IF new = status THEN trip[t].sets ELSE new
    <2>2. trip' = [trip EXCEPT ![t] = [trip[t] EXCEPT !.pc = pc, !.seen = new, !.before = before,
                                                      !.sets = sets]]
      BY <1>1, <2>1 DEF Shaped, Typed, Trip
    <2>3. new \in Statuses
      BY DEF Ensured, Statuses
    <2>4. /\ pc \in {"calibrate", "lock", "claim", "evaluate"}
          /\ pc \in {"claim", "evaluate"} => trip[t].row # None
      BY <1>2
    <2>5. before \in Statuses \union {"unread"} /\ sets \in Statuses \union {"same"}
      BY <1>1, <2>3 DEF Trip
    <2>6. trip[t].pc = "read" /\ UNCHANGED <<committed, locks>>
      BY <1>3 DEF Reached, ReadCalibration
    <2> HIDE DEF new, pc, before, sets
    <2> QED
      BY <2>2, <2>3, <2>4, <2>5, <2>6, OnCalibration
  <1>4. CASE ApplyCalibration(t)
    <2> DEFINE sets == IF calibration = "applied" THEN "same" ELSE "applied"
    <2>1. trip' = [trip EXCEPT ![t] = [trip[t] EXCEPT !.pc = "calibrate", !.seen = "applied",
                                                      !.before = calibration, !.sets = sets]]
      BY <1>1, <1>4 DEF Reached, ApplyCalibration, Shaped, Typed, Trip
    <2>2. trip[t].pc = "read" /\ UNCHANGED <<committed, locks>>
      BY <1>4 DEF Reached, ApplyCalibration
    <2>3. sets \in Statuses \union {"same"} /\ "applied" \in Statuses
      BY DEF Statuses
    <2> HIDE DEF sets
    <2> QED
      BY <1>1, <2>1, <2>2, <2>3, OnCalibration
  <1>5. CASE WriteCalibration(t)
    <2>1. CASE Acquire(t) /\ trip' = [trip EXCEPT ![t].pc = AfterCalibration(t)]
      <3>1. PICK pc \in {"calibrate", "lock", "claim", "evaluate"},
                 seen \in Statuses \union {"unread"}, before \in Statuses \union {"unread"},
                 sets \in Statuses \union {"same"} :
              /\ pc = AfterCalibration(t)
              /\ seen = trip[t].seen /\ before = trip[t].before /\ sets = trip[t].sets
        BY <1>1, <1>2 DEF Trip
      <3>2. trip' = [trip EXCEPT ![t] = [trip[t] EXCEPT !.pc = pc, !.seen = seen,
                                                        !.before = before, !.sets = sets]]
        BY <1>1, <2>1, <3>1 DEF Shaped, Typed, Trip
      <3>3. trip[t].pc \in {"read", "calibrate"} /\ UNCHANGED committed
        BY <1>5 DEF Reached, WriteCalibration
      <3>4. pc \in {"claim", "evaluate"} => trip[t].row # None
        BY <1>2, <3>1
      <3>5. UNCHANGED locks \/ Acquire(t)
        BY <2>1
      <3> QED
        BY <3>2, <3>3, <3>4, <3>5, Zenon, OnCalibration
    <2>2. CASE Ended(t)
      BY <1>5, <2>2, AbortShaped DEF Reached, WriteCalibration
    <2> QED
      BY <1>5, <2>1, <2>2 DEF Reached, WriteCalibration
  <1> QED
    BY <1>3, <1>4, <1>5

LEMMA ClaimShaped ==
  ASSUME Shaped, NEW t \in Threads, Claim(t)
  PROVE  Shaped'
  <1> DEFINE q == trip[t]
             row == q.row
  <1>1. q \in Trip /\ Course(q) /\ q.pc = "claim" /\ UNCHANGED committed
    BY DEF Reached, Shaped, Typed, Claim
  <1>2. row # None /\ row \in ProgressRow /\ q.child \in Children
    BY <1>1 DEF Course, Trip
  <1>3. ASSUME NEW trims \in BOOLEAN, q.op = "profile", Acquire(t),
               trip' = [trip EXCEPT ![t].pc = "evaluate", ![t].trims = trims,
                                    ![t].row.claimed = TRUE]
        PROVE  Shaped'
    <2> DEFINE new == [row EXCEPT !.claimed = TRUE]
               r == [q EXCEPT !.pc = "evaluate", !.trims = trims, !.row = new]
    <2>1. trip' = [trip EXCEPT ![t] = r]
      BY <1>1, <1>3 DEF Shaped, Typed, Trip
    <2>2. new \in ProgressRow /\ new # None
      BY <1>2, ProgressAssumption DEF ProgressRow, ProgressAssumption
    <2> HIDE DEF new
    <2>3. r \in Trip
      BY <1>1, <2>2 DEF Trip
    <2>4. /\ r.pc = "evaluate" /\ r.row = new /\ r.op = q.op /\ r.child = q.child
          /\ r.adds = q.adds
      BY <1>1 DEF Trip
    <2> HIDE DEF r
    <2>5. Course(r)
      BY <1>2, <2>2, <2>4 DEF Course
    <2> QED
      BY <1>1, <1>3, <2>1, <2>3, <2>4, <2>5, OwnShaped
  <1>4. ASSUME NEW trims \in BOOLEAN, q.op = "reward", Acquire(t),
               trip' = [trip EXCEPT ![t].pc = "evaluate", ![t].trims = trims,
                                    ![t].row.granted = TRUE,
                                    ![t].adds = IF row.granted THEN 0 ELSE 1]
        PROVE  Shaped'
    <2> DEFINE new == [row EXCEPT !.granted = TRUE]
               n == IF row.granted THEN 0 ELSE 1
               r == [q EXCEPT !.pc = "evaluate", !.trims = trims, !.row = new, !.adds = n]
    <2>1. trip' = [trip EXCEPT ![t] = r]
      BY <1>1, <1>4 DEF Shaped, Typed, Trip
    <2>2. new \in ProgressRow /\ new # None
      BY <1>2, ProgressAssumption DEF ProgressRow, ProgressAssumption
    <2>3. n \in 0..1
      OBVIOUS
    <2> HIDE DEF new, n
    <2>4. r \in Trip
      BY <1>1, <2>2, <2>3 DEF Trip
    <2>5. r.pc = "evaluate" /\ r.row = new /\ r.op = "reward" /\ r.child = q.child
      BY <1>1, <1>4 DEF Trip
    <2> HIDE DEF r
    <2>6. Course(r)
      BY <1>2, <2>2, <2>5 DEF Course
    <2> QED
      BY <1>1, <1>4, <2>1, <2>4, <2>5, <2>6, OwnShaped
  <1>5. CASE Ended(t)
    BY <1>1, <1>5, AbortShaped
  <1> QED
    BY <1>3, <1>4, <1>5 DEF Claim

LEMMA EvaluateShaped ==
  ASSUME Shaped, NEW t \in Threads, Evaluate(t)
  PROVE  Shaped'
  <1> DEFINE q == trip[t]
             row == q.row
             own == IF q.op = "post" THEN q.adds ELSE 0
             new == /\ ~row.unlocked
                    /\ q.seen \in {"ready", "applied"}
                    /\ earned[q.child] + own >= MaxPoints
  <1>1. q \in Trip /\ Course(q) /\ q.pc = "evaluate" /\ UNCHANGED <<committed, locks>>
    BY DEF Reached, Shaped, Typed, Evaluate
  <1>2. row # None /\ row \in ProgressRow /\ q.child \in Children
    BY <1>1 DEF Course, Trip
  <1>3. PICK inserts \in BOOLEAN :
          trip' = [trip EXCEPT ![t].pc = IF inserts THEN "award" ELSE "commit",
                               ![t].row.unlocked = @ \/ new,
                               ![t].events = IF new THEN 1 ELSE 0,
                               ![t].seen = "unread",
                               ![t].before = IF q.sets = "same" THEN "unread" ELSE @]
    BY DEF Reached, Evaluate
  <1> DEFINE after == [row EXCEPT !.unlocked = @ \/ new]
             n == IF new THEN 1 ELSE 0
             pc == IF inserts THEN "award" ELSE "commit"
             before == IF q.sets = "same" THEN "unread" ELSE q.before
             r == [q EXCEPT !.pc = pc, !.row = after, !.events = n, !.seen = "unread",
                            !.before = before]
  <1>4. trip' = [trip EXCEPT ![t] = r]
    BY <1>1, <1>3 DEF Shaped, Typed, Trip
  <1>5. new \in BOOLEAN
    BY <1>2 DEF ProgressRow
  <1> HIDE DEF new
  <1>6. after \in ProgressRow /\ after # None
    BY <1>2, <1>5, ProgressAssumption DEF ProgressRow, ProgressAssumption
  <1>7. pc \in {"award", "commit"} /\ before \in Statuses \union {"unread"} /\ n \in 0..1
    BY <1>1 DEF Trip
  <1> HIDE DEF after, pc, before, n
  <1>8. r \in Trip
    BY <1>1, <1>6, <1>7 DEF Trip
  <1>9. r.pc = pc /\ r.row = after /\ r.op = q.op /\ r.child = q.child /\ r.adds = q.adds
    BY <1>1 DEF Trip
  <1> HIDE DEF r
  <1>10. Course(r)
    BY <1>2, <1>6, <1>7, <1>9 DEF Course
  <1> QED
    BY <1>1, <1>4, <1>8, <1>9, <1>10, OwnShaped

LEMMA CommitShaped ==
  ASSUME Shaped, NEW t \in Threads, CommitTrip(t)
  PROVE  Shaped'
  <1> DEFINE r == trip[t]
             c == r.child
             n == IF r.op = "reward" THEN r.adds ELSE 0
  <1>1. r \in Trip /\ Course(r) /\ r.pc = "commit" /\ Ended(t)
    BY DEF Reached, Shaped, Typed, CommitTrip
  <1>2. c \in Children /\ (r.op # "edit" => r.row \in ProgressRow)
    BY <1>1 DEF Course, Trip
  <1>3. calibration' \in Statuses
    BY <1>1 DEF Reached, CommitTrip, Shaped, Typed, Trip
  <1>4. progress' \in [Children -> ProgressRow]
    <2>1. CASE r.op = "edit"
      BY <2>1 DEF Reached, CommitTrip, Shaped, Typed
    <2>2. CASE r.op # "edit"
      <3>1. progress' = [progress EXCEPT ![c] = [unlocked |-> @.unlocked \/ r.row.unlocked,
                                                 claimed |-> @.claimed \/ r.row.claimed,
                                                 granted |-> @.granted \/ r.row.granted]]
        BY <2>2 DEF Reached, CommitTrip
      <3>2. progress[c] \in ProgressRow
        BY <1>2 DEF Shaped, Typed
      <3> QED
        BY <1>2, <2>2, <3>1, <3>2 DEF Shaped, Typed, ProgressRow
    <2> QED
      BY <2>1, <2>2
  <1>5. rewards' \in [Children -> [events: Nat, grants: Nat]]
    <2>1. CASE r.op = "edit"
      BY <2>1 DEF Reached, CommitTrip, Shaped, Typed
    <2>2. CASE r.op # "edit"
      <3>1. rewards' = [rewards EXCEPT ![c] = [events |-> @.events + r.events,
                                               grants |-> @.grants + n]]
        BY <2>2 DEF Reached, CommitTrip
      <3>2. r.events \in 0..1 /\ n \in 0..1 /\ rewards[c] \in [events: Nat, grants: Nat]
        BY <1>1, <1>2 DEF Shaped, Typed, Trip
      <3>3. rewards \in [Children -> [events: Nat, grants: Nat]]
        BY DEF Shaped, Typed
      <3>4. [events |-> rewards[c].events + r.events, grants |-> rewards[c].grants + n]
              \in [events: Nat, grants: Nat]
        BY <3>2
      <3> HIDE DEF n, c, r
      <3> QED
        BY <3>1, <3>3, <3>4
    <2> QED
      BY <2>1, <2>2
  <1>6. \/ earned' = earned
        \/ r.op = "post" /\ earned' = [earned EXCEPT ![c] = @ + r.adds]
    BY DEF Reached, CommitTrip
  <1> QED
    BY <1>1, <1>3, <1>4, <1>5, <1>6, EndsShaped

LEMMA NextShaped == Shaped /\ [AchievementsNext]_achievementVars => Shaped'
  <1> SUFFICES ASSUME Shaped, [AchievementsNext]_achievementVars PROVE Shaped'
    OBVIOUS
  <1>1. CASE AchievementsNext
    <2>1. PICK t \in Threads :
              \/ BeginTrip(t) \/ Insert(t) \/ EditMember(t) \/ Trim(t) \/ LockChild(t) \/ LockEntry(t)
              \/ ReadCalibration(t) \/ ApplyCalibration(t) \/ WriteCalibration(t)
              \/ Claim(t) \/ Evaluate(t) \/ Award(t) \/ CommitTrip(t) \/ AbortDeadlocked(t)
      BY <1>1 DEF AchievementsNext
    <2>2. CASE AbortDeadlocked(t)
      BY <2>2, AbortShaped DEF AbortDeadlocked
    <2> QED
      BY <2>1, <2>2, BeginShaped, InsertShaped, EditShaped, LockShaped, CalibrationShaped,
         TrimShaped, ClaimShaped, EvaluateShaped, CommitShaped
  <1>2. CASE UNCHANGED achievementVars
    BY <1>2 DEF achievementVars, Shaped, Typed, Course, Posting
  <1> QED
    BY <1>1, <1>2

(* On both databases the variables of the achievements keep their types; in *)
(* particular the points of a child pass the threshold by no more than the  *)
(* requests that were posting at the same time.                             *)
THEOREM AchievementsTypeCorrect == AchievementsSpec => []AchievementsTypeOK
  <1>1. Shaped => AchievementsTypeOK
    <2> SUFFICES ASSUME Shaped PROVE AchievementsTypeOK
      OBVIOUS
    <2>1. ASSUME NEW c \in Children
          PROVE  earned[c] \in 0..MaxPoints + Cardinality(Threads) - 1
      <3>1. Posting(c) \subseteq Threads
        BY DEF Posting
      <3>2. Cardinality(Posting(c)) \in Nat /\ MaxPoints \in Nat /\ Cardinality(Threads) \in Nat
        BY <3>1, PostingFinite
      <3>3. earned[c] \in Nat
            /\ earned[c] + Cardinality(Posting(c)) <= MaxPoints + Cardinality(Threads) - 1
        BY DEF Shaped
      <3> QED
        BY ONLY <3>2, <3>3
    <2> QED
      BY <2>1 DEF Shaped, Typed, AchievementsTypeOK
  <1> QED
    BY <1>1, InitShaped, NextShaped, PTL DEF AchievementsSpec

-----------------------------------------------------------------------------
(* Folds.  FoldLeft is a CHOOSE of a recursive function: the function is    *)
(* shown to exist, and the fold to be the last of its values.               *)

(* Induction over the natural numbers, for a set of numbers. *)
LEMMA NatSetInduction ==
  ASSUME NEW S, 0 \in S, \A n \in S \intersect Nat : n + 1 \in S
  PROVE  Nat \subseteq S
  <1> DEFINE R == {p \in Nat \X Nat : p[1] < p[2]}
             Bad == Nat \ S
  <1>1. IsWellFoundedOn(R, Nat)
    <2>1. R = OpToRel(<, Nat)
      BY DEF OpToRel
    <2> QED
      BY <2>1, NatLessThanWellFounded
  <1>2. SUFFICES ASSUME Bad # {} PROVE FALSE
    OBVIOUS
  <1>3. PICK m \in Bad : \A n \in Bad : ~(<<n, m>> \in R)
    <2> HIDE DEF R
    <2> QED
      BY <1>1, <1>2, WFMin
  <1>4. m \in Nat /\ m # 0
    OBVIOUS
  <1>5. m - 1 \in Nat /\ m - 1 < m
    BY <1>4
  <1>6. m - 1 \notin Bad
    BY <1>3, <1>5
  <1>7. m = (m - 1) + 1
    BY <1>4
  <1> QED
    BY <1>5, <1>6, <1>7


(* The recursion of a fold from the left over a sequence of length N: step  *)
(* has what each position makes of what was folded before it.              *)
Folding(g, N, base, step) ==
  g = [U \in SUBSET (1..N) |-> IF U = {} THEN base ELSE step[Max(U)][g[U \ {Max(U)}]]]

(* A finite set of numbers has a greatest one. *)
LEMMA MaxIsMember ==
  ASSUME NEW N \in Nat
  PROVE  \A U \in SUBSET (1..N) : U # {} => Max(U) \in U
  <1> DEFINE Below(n) == \A U \in SUBSET (1..n) : U # {} => \E x \in U : \A y \in U : x >= y
             Good == {n \in Nat : Below(n)}
  <1>1. 0 \in Good
    <2>1. 1..0 = {}
      OBVIOUS
    <2> QED
      BY <2>1
  <1>2. ASSUME NEW n \in Good \intersect Nat PROVE n + 1 \in Good
    <2>1. ASSUME NEW U \in SUBSET (1..n + 1), U # {} PROVE \E x \in U : \A y \in U : x >= y
      <3>1. CASE n + 1 \in U
        BY <2>1, <3>1
      <3>2. CASE n + 1 \notin U
        <4>1. U \in SUBSET (1..n)
          BY <2>1, <3>2
        <4> QED
          BY <1>2, <2>1, <4>1
      <3> QED
        BY <3>1, <3>2
    <2> QED
      BY <2>1
  <1>3. N \in Good
    <2> HIDE DEF Good
    <2> QED
      BY <1>1, <1>2, NatSetInduction
  <1>4. \A U \in SUBSET (1..N) : U # {} => \E x \in U : \A y \in U : x >= y
    BY <1>3
  <1> QED
    BY <1>4, Zenon DEF Max

(* The function that MapThenFoldSet chooses exists. *)
LEMMA FoldingExists ==
  ASSUME NEW N \in Nat, NEW A, NEW base \in A, NEW step \in [1..N -> [A -> A]]
  PROVE  \E g \in [SUBSET (1..N) -> A] : Folding(g, N, base, step)
  <1> DEFINE S == 1..N
             Body(g, U) == IF U = {} THEN base ELSE step[Max(U)][g[U \ {Max(U)}]]
             UpTo(n) == {U \in SUBSET S : Cardinality(U) <= n}
             Good == {n \in Nat : \E g \in [SUBSET S -> A] : \A U \in UpTo(n) : g[U] = Body(g, U)}
  <1>1. IsFiniteSet(S) /\ Cardinality(S) \in Nat
    BY FS_Interval, FS_CardinalityType
  <1>2. \A U \in SUBSET S : IsFiniteSet(U) /\ Cardinality(U) \in Nat /\ Cardinality(U) <= Cardinality(S)
    BY <1>1, FS_Subset, FS_CardinalityType
  <1>3. \A U \in SUBSET S : U # {} => Max(U) \in U
    BY MaxIsMember
  <1>4. 0 \in Good
    <2> DEFINE g == [U \in SUBSET S |-> base]
    <2>1. \A U \in UpTo(0) : U = {}
      BY <1>2, FS_EmptySet
    <2>2. \A U \in UpTo(0) : g[U] = Body(g, U)
      BY <2>1
    <2>3. g \in [SUBSET S -> A]
      OBVIOUS
    <2> HIDE DEF g
    <2> QED
      BY <2>2, <2>3
  <1>5. ASSUME NEW n \in Good \intersect Nat PROVE n + 1 \in Good
    <2>1. PICK g \in [SUBSET S -> A] : \A U \in UpTo(n) : g[U] = Body(g, U)
      OBVIOUS
    <2> DEFINE h == [U \in SUBSET S |-> Body(g, U)]
    <2>2. ASSUME NEW U \in UpTo(n + 1) PROVE h[U] = Body(h, U)
      <3>1. CASE U = {}
        BY <3>1
      <3>2. CASE U # {}
        <4> DEFINE V == U \ {Max(U)}
        <4>1. V \in UpTo(n)
          <5>1. Cardinality(V) = Cardinality(U) - 1
            BY <3>2, <1>2, <1>3, FS_RemoveElement
          <5>2. V \in SUBSET S /\ Cardinality(U) \in Nat /\ Cardinality(U) <= n + 1
            BY <1>2
          <5> QED
            BY <5>1, <5>2
        <4>2. h[V] = g[V]
          BY <2>1, <4>1
        <4> QED
          BY <3>2, <4>2
      <3> QED
        BY <3>1, <3>2
    <2>3. h \in [SUBSET S -> A]
      <3>1. ASSUME NEW U \in SUBSET S PROVE Body(g, U) \in A
        <4>1. U # {} => Max(U) \in S /\ U \ {Max(U)} \in SUBSET S
          BY <1>3
        <4> QED
          BY <4>1
      <3> QED
        BY <3>1
    <2>4. n + 1 \in Nat
      OBVIOUS
    <2> HIDE DEF h, Body, UpTo
    <2> QED
      BY <2>2, <2>3, <2>4
  <1>6. Cardinality(S) \in Good
    <2> HIDE DEF Good
    <2> QED
      BY <1>1, <1>4, <1>5, NatSetInduction
  <1>7. PICK g \in [SUBSET S -> A] : \A U \in UpTo(Cardinality(S)) : g[U] = Body(g, U)
    BY <1>6
  <1>8. \A U \in SUBSET S : g[U] = Body(g, U)
    BY <1>2, <1>7
  <1>9. g = [U \in SUBSET S |-> Body(g, U)]
    BY <1>8
  <1> QED
    BY <1>9 DEF Folding

(* A fold goes through the sequence from the first element to the last.    *)
LEMMA LastOfInterval ==
  ASSUME NEW N \in Nat, NEW m \in 0..N - 1
  PROVE  /\ 1..m + 1 \in SUBSET (1..N) /\ 1..m + 1 # {}
         /\ Max(1..m + 1) = m + 1
         /\ (1..m + 1) \ {Max(1..m + 1)} = 1..m
  <1> DEFINE U == 1..m + 1
  <1>1. U \in SUBSET (1..N) /\ U # {}
    <2>1. m + 1 \in U /\ m + 1 <= N
      OBVIOUS
    <2>2. \A i \in U : i \in 1..N
      BY <2>1
    <2> QED
      BY <2>1, <2>2
  <1>2. Max(U) \in U /\ \A y \in U : Max(U) >= y
    <2>1. \E x \in U : \A y \in U : x >= y
      <3>1. m + 1 \in U /\ \A y \in U : m + 1 >= y
        OBVIOUS
      <3> QED
        BY <3>1
    <2> QED
      BY <2>1, Zenon DEF Max
  <1>3. Max(U) = m + 1
    BY <1>2
  <1>4. U \ {Max(U)} = 1..m
    BY <1>3
  <1> QED
    BY <1>1, <1>3, <1>4

-----------------------------------------------------------------------------
(* Streaks                                                                 *)

Kinds == {"frozen", "uncounted", "success", "failure"}

LEMMA ResultsAreKinds == \A i \in 1..Scan : Results[i] \in Kinds
  BY DEF Results, Result, Kinds

LEMMA Sizes == Scan \in Nat /\ MaxPeriod \in Nat /\ Minimum \in Nat
  BY StreaksAssumption DEF StreaksAssumption

(* The loop of the current streak, as FoldLeft has it.                     *)
Counted(acc, r) ==
  IF acc.over \/ r \in {"frozen", "uncounted"} THEN acc
  ELSE IF r = "success" THEN [acc EXCEPT !.n = @ + 1]
  ELSE [acc EXCEPT !.over = TRUE]

Counting(g) ==
  g = [U \in SUBSET DOMAIN Results |->
         IF U = {} THEN [n |-> 0, over |-> FALSE]
         ELSE Counted(g[U \ {Max(U)}], Results[Max(U)])]

LEMMA CurrentIsCounted == CurrentStreak = (CHOOSE g : Counting(g))[DOMAIN Results].n
  BY Zenon DEF CurrentStreak, FoldLeft, MapThenFoldSet, Counting, Counted

(* The loop of the best streak.                                            *)
Rolled(acc, r) ==
  CASE r = "success" -> [rolling |-> acc.rolling + 1,
                         best |-> IF acc.rolling + 1 > acc.best THEN acc.rolling + 1 ELSE acc.best]
    [] r = "failure" -> [acc EXCEPT !.rolling = 0]
    [] OTHER -> acc

Rolling(g) ==
  g = [U \in SUBSET DOMAIN Results |->
         IF U = {} THEN [rolling |-> 0, best |-> 0]
         ELSE Rolled(g[U \ {Max(U)}], Results[Max(U)])]

LEMMA BestIsRolled == BestStreak = (CHOOSE g : Rolling(g))[DOMAIN Results].best
  BY Zenon DEF BestStreak, FoldLeft, MapThenFoldSet, Rolling, Rolled

CountType == [n: Nat, over: BOOLEAN]
RollType == [rolling: Nat, best: Nat]

LEMMA CountedType ==
  ASSUME NEW acc \in CountType, NEW r \in Kinds
  PROVE  /\ Counted(acc, r) \in CountType
         /\ acc.over \/ r \in {"frozen", "uncounted"} => Counted(acc, r) = acc
         /\ ~acc.over /\ r = "success" => Counted(acc, r).n = acc.n + 1 /\ ~Counted(acc, r).over
         /\ ~acc.over /\ r = "failure" => Counted(acc, r).n = acc.n /\ Counted(acc, r).over
  <1>1. PICK n \in Nat, over \in BOOLEAN : acc = [n |-> n, over |-> over]
    BY DEF CountType
  <1>2. CASE over \/ r \in {"frozen", "uncounted"}
    BY <1>1, <1>2 DEF Counted, CountType, Kinds
  <1>3. CASE ~over /\ r = "success"
    BY <1>1, <1>3 DEF Counted, CountType, Kinds
  <1>4. CASE ~over /\ r = "failure"
    BY <1>1, <1>4 DEF Counted, CountType, Kinds
  <1> QED
    BY <1>2, <1>3, <1>4 DEF Kinds

LEMMA RolledType ==
  ASSUME NEW acc \in RollType, NEW r \in Kinds
  PROVE  /\ Rolled(acc, r) \in RollType
         /\ r \in {"frozen", "uncounted"} => Rolled(acc, r) = acc
         /\ r = "failure" => Rolled(acc, r).rolling = 0 /\ Rolled(acc, r).best = acc.best
         /\ r = "success" => /\ Rolled(acc, r).rolling = acc.rolling + 1
                             /\ Rolled(acc, r).best = IF acc.rolling + 1 > acc.best
                                                      THEN acc.rolling + 1 ELSE acc.best
  BY DEF Rolled, RollType, Kinds

(* The states that the first loop goes through.                            *)
LEMMA CountingSteps ==
  \E h : /\ h[0] = [n |-> 0, over |-> FALSE]
         /\ \A m \in 0..Scan - 1 : h[m + 1] = Counted(h[m], Results[m + 1])
         /\ CurrentStreak = h[Scan].n
  <1> DEFINE base == [n |-> 0, over |-> FALSE]
             step == [i \in 1..Scan |-> [acc \in CountType |-> Counted(acc, Results[i])]]
  <1>1. base \in CountType
    BY DEF CountType
  <1>2. step \in [1..Scan -> [CountType -> CountType]]
    BY ResultsAreKinds, CountedType
  <1>3. \A i \in 1..Scan, acc \in CountType : step[i][acc] = Counted(acc, Results[i])
    OBVIOUS
  <1>4. DOMAIN Results = 1..Scan /\ Scan \in Nat
    BY Sizes DEF Results
  <1> HIDE DEF base, step
  <1>5. ASSUME NEW g \in [SUBSET (1..Scan) -> CountType], Folding(g, Scan, base, step)
        PROVE  Counting(g)
    <2>1. ASSUME NEW U \in SUBSET (1..Scan), U # {}
          PROVE  step[Max(U)][g[U \ {Max(U)}]] = Counted(g[U \ {Max(U)}], Results[Max(U)])
      <3>1. Max(U) \in 1..Scan
        BY <1>4, <2>1, MaxIsMember
      <3>2. g[U \ {Max(U)}] \in CountType
        OBVIOUS
      <3> QED
        BY <1>3, <3>1, <3>2
    <2> QED
      BY <1>4, <1>5, <2>1 DEF Folding, Counting, base
  <1>6. \E g : Counting(g)
    BY <1>1, <1>2, <1>4, <1>5, FoldingExists
  <1>7. PICK g : g = (CHOOSE f : Counting(f)) /\ Counting(g)
    BY <1>6
  <1> DEFINE h == [m \in 0..Scan |-> g[1..m]]
  <1>8. ASSUME NEW m \in 0..Scan - 1 PROVE h[m + 1] = Counted(h[m], Results[m + 1])
    <2>1. /\ 1..m + 1 \in SUBSET DOMAIN Results /\ 1..m + 1 # {}
          /\ Max(1..m + 1) = m + 1 /\ (1..m + 1) \ {Max(1..m + 1)} = 1..m
      BY <1>4, LastOfInterval
    <2>2. g[1..m + 1] = Counted(g[1..m], Results[m + 1])
      BY <1>7, <2>1 DEF Counting
    <2>3. m \in 0..Scan /\ m + 1 \in 0..Scan
      BY <1>4
    <2> QED
      BY <2>2, <2>3
  <1>9. h[0] = base /\ CurrentStreak = h[Scan].n
    <2>1. 1..0 = {} /\ {} \in SUBSET DOMAIN Results /\ 0 \in 0..Scan /\ Scan \in 0..Scan
      BY <1>4
    <2>2. g[{}] = base
      BY <1>7, <2>1 DEF Counting, base
    <2>3. CurrentStreak = g[1..Scan].n
      BY <1>4, <1>7, CurrentIsCounted
    <2> QED
      BY <2>1, <2>2, <2>3
  <1> HIDE DEF h
  <1> QED
    BY <1>8, <1>9 DEF base

(* The states that the second loop goes through.                           *)
LEMMA RollingSteps ==
  \E h : /\ h[0] = [rolling |-> 0, best |-> 0]
         /\ \A m \in 0..Scan - 1 : h[m + 1] = Rolled(h[m], Results[m + 1])
         /\ BestStreak = h[Scan].best
  <1> DEFINE base == [rolling |-> 0, best |-> 0]
             step == [i \in 1..Scan |-> [acc \in RollType |-> Rolled(acc, Results[i])]]
  <1>1. base \in RollType
    BY DEF RollType
  <1>2. step \in [1..Scan -> [RollType -> RollType]]
    BY ResultsAreKinds, RolledType
  <1>3. \A i \in 1..Scan, acc \in RollType : step[i][acc] = Rolled(acc, Results[i])
    OBVIOUS
  <1>4. DOMAIN Results = 1..Scan /\ Scan \in Nat
    BY Sizes DEF Results
  <1> HIDE DEF base, step
  <1>5. ASSUME NEW g \in [SUBSET (1..Scan) -> RollType], Folding(g, Scan, base, step)
        PROVE  Rolling(g)
    <2>1. ASSUME NEW U \in SUBSET (1..Scan), U # {}
          PROVE  step[Max(U)][g[U \ {Max(U)}]] = Rolled(g[U \ {Max(U)}], Results[Max(U)])
      <3>1. Max(U) \in 1..Scan
        BY <1>4, <2>1, MaxIsMember
      <3>2. g[U \ {Max(U)}] \in RollType
        OBVIOUS
      <3> QED
        BY <1>3, <3>1, <3>2
    <2> QED
      BY <1>4, <1>5, <2>1 DEF Folding, Rolling, base
  <1>6. \E g : Rolling(g)
    BY <1>1, <1>2, <1>4, <1>5, FoldingExists
  <1>7. PICK g : g = (CHOOSE f : Rolling(f)) /\ Rolling(g)
    BY <1>6
  <1> DEFINE h == [m \in 0..Scan |-> g[1..m]]
  <1>8. ASSUME NEW m \in 0..Scan - 1 PROVE h[m + 1] = Rolled(h[m], Results[m + 1])
    <2>1. /\ 1..m + 1 \in SUBSET DOMAIN Results /\ 1..m + 1 # {}
          /\ Max(1..m + 1) = m + 1 /\ (1..m + 1) \ {Max(1..m + 1)} = 1..m
      BY <1>4, LastOfInterval
    <2>2. g[1..m + 1] = Rolled(g[1..m], Results[m + 1])
      BY <1>7, <2>1 DEF Rolling
    <2>3. m \in 0..Scan /\ m + 1 \in 0..Scan
      BY <1>4
    <2> QED
      BY <2>2, <2>3
  <1>9. h[0] = base /\ BestStreak = h[Scan].best
    <2>1. 1..0 = {} /\ {} \in SUBSET DOMAIN Results /\ 0 \in 0..Scan /\ Scan \in 0..Scan
      BY <1>4
    <2>2. g[{}] = base
      BY <1>7, <2>1 DEF Rolling, base
    <2>3. BestStreak = g[1..Scan].best
      BY <1>4, <1>7, BestIsRolled
    <2> QED
      BY <2>1, <2>2, <2>3
  <1> HIDE DEF h
  <1> QED
    BY <1>8, <1>9 DEF base

LEMMA ScannedFinite ==
  /\ Won \subseteq Scanned /\ Lost \subseteq Scanned /\ Won \intersect Lost = {}
  /\ \A p \in Scanned : p \in Nat
  /\ \A U : U \subseteq Won => IsFiniteSet(U) /\ Cardinality(U) \in Nat
  <1>1. Won \subseteq Scanned /\ Lost \subseteq Scanned /\ Won \intersect Lost = {}
    BY DEF Won, Lost
  <1>2. Scanned \subseteq 0..MaxPeriod /\ IsFiniteSet(0..MaxPeriod)
    BY Sizes, FS_Interval DEF Scanned, Periods
  <1>3. \A U : U \subseteq Won => IsFiniteSet(U)
    BY <1>1, <1>2, FS_Subset
  <1> QED
    BY <1>1, <1>2, <1>3, FS_CardinalityType, Sizes

(* What the next result says of the period it stands for.                  *)
LEMMA NextResult ==
  ASSUME period \in Periods, NEW m \in 0..Scan - 1
  PROVE  /\ Results[m + 1] = "success" <=> period - m \in Won
         /\ Results[m + 1] = "failure" <=> period - m \in Lost
         /\ period \in Nat
  <1>1. period \in Nat /\ m \in Nat /\ m < Scan /\ Scan \in Nat
    BY Sizes DEF Periods
  <1>2. m + 1 \in 1..Scan /\ period - (m + 1) + 1 = period - m
    BY <1>1
  <1>3. Results[m + 1] = IF period - m \in Periods THEN Result(period - m) ELSE "uncounted"
    BY <1>2 DEF Results
  <1>4. period - m \in Scanned <=> period - m \in Periods
    BY <1>1 DEF Scanned
  <1> QED
    BY <1>1, <1>3, <1>4 DEF Won, Lost

(* The periods won among the last m, since the last one lost.              *)
Winning(m) == {p \in Won : p > period - m /\ \A q \in Lost : q > period - m => q < p}

(* The first loop, by induction over the periods it has looked at.          *)
LEMMA CurrentIsReference ==
  ASSUME period \in Periods
  PROVE  CurrentStreak = Cardinality({p \in Won : \A q \in Lost : q < p})
  <1>1. PICK h : /\ h[0] = [n |-> 0, over |-> FALSE]
                 /\ \A m \in 0..Scan - 1 : h[m + 1] = Counted(h[m], Results[m + 1])
                 /\ CurrentStreak = h[Scan].n
    BY CountingSteps
  <1> DEFINE Right(m) == /\ h[m] \in CountType /\ h[m].n = Cardinality(Winning(m))
                         /\ h[m].over <=> \E q \in Lost : q > period - m
             Good == {m \in Nat : m <= Scan => Right(m)}
  <1>2. period \in Nat /\ Scan \in Nat /\ \A p \in Won \union Lost : p \in Nat /\ p <= period
                                                                   /\ p > period - Scan
    BY Sizes, ScannedFinite DEF Periods, Won, Lost, Scanned
  <1>3. 0 \in Good
    <2>1. Winning(0) = {} /\ ~\E q \in Lost : q > period - 0
      BY <1>2 DEF Winning
    <2>2. h[0] \in CountType /\ h[0].n = 0 /\ ~h[0].over
      BY <1>1 DEF CountType
    <2> QED
      BY <2>1, <2>2, FS_EmptySet
  <1>4. ASSUME NEW m \in Good \intersect Nat PROVE m + 1 \in Good
    <2> SUFFICES ASSUME m + 1 <= Scan PROVE Right(m + 1)
      OBVIOUS
    <2> DEFINE x == period - m
               r == Results[m + 1]
    <2>1. m \in 0..Scan - 1 /\ m + 1 \in 1..Scan /\ Right(m)
      BY <1>2
    <2>2. h[m + 1] = Counted(h[m], r) /\ r \in Kinds
      BY <1>1, <2>1, ResultsAreKinds
    <2>3. (r = "success" <=> x \in Won) /\ (r = "failure" <=> x \in Lost)
      BY <2>1, NextResult
    <2>4. period - (m + 1) = x - 1 /\ x \in Int
      BY <1>2
    <2>5. \A p \in Int : p > x - 1 <=> p > x \/ p = x
      BY <2>4
    <2>6. /\ IsFiniteSet(Winning(m)) /\ Cardinality(Winning(m)) \in Nat
      BY ScannedFinite DEF Winning
    <2> HIDE DEF r
    <2>7. CASE h[m].over
      <3>1. PICK q \in Lost : q > x
        BY <2>1, <2>7
      <3>2. Winning(m + 1) = Winning(m)
        BY <1>2, <2>4, <2>5, <3>1, ScannedFinite DEF Winning
      <3>3. h[m + 1] = h[m]
        BY <2>1, <2>2, <2>7, CountedType
      <3>4. \E p \in Lost : p > period - (m + 1)
        BY <1>2, <2>4, <3>1
      <3> QED
        BY <2>1, <2>7, <3>2, <3>3, <3>4
    <2>8. CASE ~h[m].over
      <3>1. \A q \in Lost : ~(q > x)
        BY <2>1, <2>8
      <3>2. CASE r = "success"
        <4>1. x \in Won /\ x \notin Lost
          BY <2>3, <3>2, ScannedFinite
        <4>2. Winning(m + 1) = Winning(m) \union {x} /\ x \notin Winning(m)
          BY <1>2, <2>4, <2>5, <3>1, <4>1 DEF Winning
        <4>3. Cardinality(Winning(m + 1)) = Cardinality(Winning(m)) + 1
          BY <2>6, <4>2, FS_AddElement
        <4>4. ~\E q \in Lost : q > period - (m + 1)
          BY <1>2, <2>4, <2>5, <3>1, <4>1
        <4> QED
          BY <2>1, <2>2, <2>8, <3>2, <4>3, <4>4, CountedType
      <3>3. CASE r = "failure"
        <4>1. x \in Lost /\ x \notin Won
          BY <2>3, <3>3, ScannedFinite
        <4>2. Winning(m + 1) = Winning(m)
          BY <1>2, <2>4, <2>5, <3>1, <4>1 DEF Winning
        <4>3. \E q \in Lost : q > period - (m + 1)
          BY <1>2, <2>4, <4>1
        <4> QED
          BY <2>1, <2>2, <2>8, <3>3, <4>2, <4>3, CountedType
      <3>4. CASE r \in {"frozen", "uncounted"}
        <4>1. x \notin Lost /\ x \notin Won
          BY <2>3, <3>4
        <4>2. Winning(m + 1) = Winning(m)
          BY <1>2, <2>4, <2>5, <3>1, <4>1 DEF Winning
        <4>3. ~\E q \in Lost : q > period - (m + 1)
          BY <1>2, <2>4, <2>5, <3>1, <4>1
        <4> QED
          BY <2>1, <2>2, <2>8, <3>4, <4>2, <4>3, CountedType
      <3> QED
        BY <2>2, <3>2, <3>3, <3>4 DEF Kinds
    <2> QED
      BY <2>7, <2>8
  <1>5. Right(Scan)
    <2>1. Nat \subseteq Good
      <3> HIDE DEF Good
      <3> QED
        BY <1>3, <1>4, NatSetInduction
    <2> QED
      BY <1>2, <2>1
  <1>6. Winning(Scan) = {p \in Won : \A q \in Lost : q < p}
    BY <1>2 DEF Winning
  <1> QED
    BY <1>1, <1>5, <1>6


(* A row of periods none of which is lost, and the periods won in it.      *)
Unbroken(a, b) == Lost \intersect a..b = {}
WonIn(a, b) == Cardinality(Won \intersect a..b)

LEMMA WonInRow ==
  ASSUME period \in Periods
  PROVE  /\ \A a, b \in Int : WonIn(a, b) \in Nat /\ IsFiniteSet(Won \intersect a..b)
         /\ \A a, b, c \in Int : c <= b => WonIn(a, c) <= WonIn(a, b)
         /\ \A a, b \in Int : a \in Won /\ a <= b => WonIn(a, b) = WonIn(a + 1, b) + 1
         /\ \A a, b \in Int : a \notin Won => WonIn(a, b) = WonIn(a + 1, b)
         /\ \A a, b \in Int : b < a => WonIn(a, b) = 0 /\ Unbroken(a, b)
         /\ \A a, b \in Int : a \notin Lost => (Unbroken(a, b) <=> Unbroken(a + 1, b))
  <1>1. \A a, b \in Int : WonIn(a, b) \in Nat /\ IsFiniteSet(Won \intersect a..b)
    BY ScannedFinite DEF WonIn
  <1>2. ASSUME NEW a \in Int, NEW b \in Int, NEW c \in Int, c <= b
        PROVE  WonIn(a, c) <= WonIn(a, b)
    <2>1. Won \intersect a..c \subseteq Won \intersect a..b
      BY <1>2
    <2> QED
      BY <1>1, <2>1, FS_Subset DEF WonIn
  <1>3. ASSUME NEW a \in Int, NEW b \in Int, a \in Won, a <= b
        PROVE  WonIn(a, b) = WonIn(a + 1, b) + 1
    <2> DEFINE V == Won \intersect (a + 1)..b
    <2>1. Won \intersect a..b = V \union {a} /\ a \notin V
      BY <1>3
    <2>2. IsFiniteSet(V)
      BY ScannedFinite
    <2>3. Cardinality(V \union {a}) = Cardinality(V) + 1
      BY <2>1, <2>2, FS_AddElement
    <2> QED
      BY <2>1, <2>3 DEF WonIn
  <1>4. ASSUME NEW a \in Int, NEW b \in Int, a \notin Won
        PROVE  WonIn(a, b) = WonIn(a + 1, b)
    <2>1. Won \intersect a..b = Won \intersect (a + 1)..b
      BY <1>4, ScannedFinite
    <2> QED
      BY <2>1 DEF WonIn
  <1>5. ASSUME NEW a \in Int, NEW b \in Int, b < a
        PROVE  WonIn(a, b) = 0 /\ Unbroken(a, b)
    <2>1. a..b = {}
      BY <1>5
    <2>2. Won \intersect a..b = {} /\ Lost \intersect a..b = {}
      BY <2>1
    <2> QED
      BY <2>2, FS_EmptySet DEF WonIn, Unbroken
  <1>6. ASSUME NEW a \in Int, NEW b \in Int, a \notin Lost
        PROVE  Unbroken(a, b) <=> Unbroken(a + 1, b)
    <2>1. Lost \intersect a..b = Lost \intersect (a + 1)..b
      BY <1>6, ScannedFinite
    <2> QED
      BY <2>1 DEF Unbroken
  <1> QED
    BY <1>1, <1>2, <1>3, <1>4, <1>5, <1>6

(* What the loop of the best streak has found when the periods after x are  *)
(* done: the best row among them, and the row that is still open at x.      *)
Best(acc, x) ==
  /\ acc \in RollType /\ acc.rolling <= acc.best
  /\ \A a, b \in Scanned : a > x /\ Unbroken(a, b) => WonIn(a, b) <= acc.best
  /\ acc.best > 0 => \E a, b \in Scanned : Unbroken(a, b) /\ WonIn(a, b) = acc.best
  /\ \E b \in x..period : /\ acc.rolling = WonIn(x + 1, b) /\ Unbroken(x + 1, b)
                          /\ b = period \/ b + 1 \in Lost

(* One more period: it lengthens the open row, ends it, or is passed over.  *)
LEMMA BestKept ==
  ASSUME period \in Periods, NEW m \in 0..Scan - 1, NEW acc, Best(acc, period - m)
  PROVE  Best(Rolled(acc, Results[m + 1]), period - (m + 1))
  <1> DEFINE x == period - m
             r == Results[m + 1]
             new == Rolled(acc, r)
  <1>1. /\ period \in Nat /\ m \in Nat /\ m < Scan /\ x \in Int /\ period - (m + 1) = x - 1
        /\ x <= period /\ x > period - Scan /\ (x - 1) + 1 = x
    BY Sizes DEF Periods
  <1>2. (r = "success" <=> x \in Won) /\ (r = "failure" <=> x \in Lost) /\ r \in Kinds
    <2>1. m + 1 \in 1..Scan
      BY <1>1, Sizes
    <2> QED
      BY <2>1, NextResult, ResultsAreKinds
  <1>3. acc \in RollType /\ acc.rolling \in Nat /\ acc.best \in Nat /\ acc.rolling <= acc.best
    BY DEF Best, RollType
  <1>4. PICK b \in x..period : /\ acc.rolling = WonIn(x + 1, b) /\ Unbroken(x + 1, b)
                               /\ b = period \/ b + 1 \in Lost
    BY DEF Best
  <1>5. b \in Int /\ x <= b /\ b <= period
    BY <1>1
  <1>6. /\ new \in RollType
        /\ r \in {"frozen", "uncounted"} => new = acc
        /\ r = "failure" => new.rolling = 0 /\ new.best = acc.best
        /\ r = "success" => /\ new.rolling = acc.rolling + 1
                            /\ new.best = IF acc.rolling + 1 > acc.best
                                          THEN acc.rolling + 1 ELSE acc.best
    BY <1>2, <1>3, RolledType
  <1>7. \A p \in Scanned : p \in Int /\ p <= period
    BY <1>1, ScannedFinite DEF Scanned
  <1>8. \A c, d \in Scanned : c > x /\ Unbroken(c, d) => WonIn(c, d) <= acc.best
    BY DEF Best
  <1>9. acc.best > 0 => \E c, d \in Scanned : Unbroken(c, d) /\ WonIn(c, d) = acc.best
    BY DEF Best
  <1>10. ASSUME NEW c \in Scanned, NEW d \in Scanned, c > x - 1 PROVE c = x \/ c > x
    BY <1>1, <1>7, <1>10
  <1> HIDE DEF x, r, new
  (* A row without a loss that begins at x ends where the open row does. *)
  <1>11. ASSUME NEW d \in Scanned, Unbroken(x, d), x \notin Lost
         PROVE  WonIn(x, d) <= WonIn(x, b)
    <2>1. d <= b
      <3>1. SUFFICES ASSUME d > b PROVE FALSE
        BY <1>5, <1>7
      <3>2. b + 1 \in Lost /\ b + 1 \in x..d
        BY <1>1, <1>4, <1>5, <1>7, <3>1
      <3> QED
        BY <1>11, <3>2 DEF Unbroken
    <2> QED
      BY <1>1, <1>5, <1>7, <2>1, WonInRow
  <1>12. ASSUME r = "success" PROVE Best(new, x - 1)
    <2>1. x \in Won /\ x \notin Lost /\ x \in Scanned
      BY <1>2, <1>12, ScannedFinite
    <2>2. WonIn(x, b) = acc.rolling + 1 /\ Unbroken(x, b)
      BY <1>1, <1>4, <1>5, <2>1, WonInRow
    <2>3. new.rolling = acc.rolling + 1 /\ new.rolling <= new.best /\ acc.best <= new.best
          /\ new.best \in {acc.rolling + 1, acc.best} /\ new.best \in Nat
      BY <1>3, <1>6, <1>12
    <2>4. b \in Scanned
      BY <1>1, <1>5, <2>1, Sizes DEF Scanned, Periods
    <2>5. \A c, d \in Scanned : c > x - 1 /\ Unbroken(c, d) => WonIn(c, d) <= new.best
      <3>1. SUFFICES ASSUME NEW c \in Scanned, NEW d \in Scanned, c > x - 1, Unbroken(c, d)
                     PROVE  WonIn(c, d) <= new.best
        OBVIOUS
      <3>2. WonIn(c, d) \in Nat
        BY <1>7, WonInRow
      <3>3. CASE c = x
        <4>1. WonIn(x, d) <= WonIn(x, b)
          BY <1>11, <2>1, <3>1, <3>3
        <4> QED
          BY <1>3, <2>2, <2>3, <3>2, <3>3, <4>1
      <3>4. CASE c > x
        <4>1. WonIn(c, d) <= acc.best
          BY <1>8, <3>1, <3>4
        <4> QED
          BY <1>3, <2>3, <3>2, <4>1
      <3> QED
        BY <1>10, <3>1, <3>3, <3>4
    <2>6. new.best > 0 => \E c, d \in Scanned : Unbroken(c, d) /\ WonIn(c, d) = new.best
      BY <1>9, <2>1, <2>2, <2>3, <2>4
    <2>7. b \in x - 1..period
      BY <1>1, <1>5
    <2> QED
      BY <1>1, <1>4, <1>6, <2>2, <2>3, <2>5, <2>6, <2>7 DEF Best
  <1>13. ASSUME r = "failure" PROVE Best(new, x - 1)
    <2>1. x \in Lost /\ x \in Scanned
      BY <1>2, <1>13, ScannedFinite
    <2>2. new.rolling = 0 /\ new.best = acc.best
      BY <1>6, <1>13
    <2>3. \A c, d \in Scanned : c > x - 1 /\ Unbroken(c, d) => WonIn(c, d) <= new.best
      <3>1. SUFFICES ASSUME NEW c \in Scanned, NEW d \in Scanned, c > x - 1, Unbroken(c, d)
                     PROVE  WonIn(c, d) <= new.best
        OBVIOUS
      <3>2. CASE c = x
        <4>1. d < x
          <5>1. x \in x..d => FALSE
            BY <2>1, <3>1, <3>2 DEF Unbroken
          <5> QED
            BY <1>1, <1>7, <5>1
        <4>2. WonIn(x, d) = 0
          BY <1>1, <1>7, <4>1, WonInRow
        <4> QED
          BY <1>3, <2>2, <3>2, <4>2
      <3>3. CASE c > x
        BY <1>8, <2>2, <3>1, <3>3
      <3> QED
        BY <1>10, <3>1, <3>2, <3>3
    <2>4. WonIn(x, x - 1) = 0 /\ Unbroken(x, x - 1)
      BY <1>1, WonInRow
    <2>5. x - 1 \in x - 1..period /\ (x - 1) + 1 \in Lost
      BY <1>1, <2>1
    <2> QED
      BY <1>1, <1>3, <1>6, <1>9, <2>2, <2>3, <2>4, <2>5 DEF Best
  <1>14. ASSUME r \in {"frozen", "uncounted"} PROVE Best(new, x - 1)
    <2>1. x \notin Won /\ x \notin Lost
      BY <1>2, <1>14
    <2>2. new = acc
      BY <1>6, <1>14
    <2>3. WonIn(x, b) = acc.rolling /\ Unbroken(x, b)
      BY <1>1, <1>4, <1>5, <2>1, WonInRow
    <2>4. \A c, d \in Scanned : c > x - 1 /\ Unbroken(c, d) => WonIn(c, d) <= new.best
      <3>1. SUFFICES ASSUME NEW c \in Scanned, NEW d \in Scanned, c > x - 1, Unbroken(c, d)
                     PROVE  WonIn(c, d) <= new.best
        OBVIOUS
      <3>2. CASE c = x
        <4>1. WonIn(x, d) <= WonIn(x, b) /\ WonIn(x, d) \in Nat
          BY <1>1, <1>7, <1>11, <2>1, <3>1, <3>2, WonInRow
        <4> QED
          BY <1>3, <2>2, <2>3, <3>2, <4>1
      <3>3. CASE c > x
        BY <1>8, <2>2, <3>1, <3>3
      <3> QED
        BY <1>10, <3>1, <3>2, <3>3
    <2>5. b \in x - 1..period
      BY <1>1, <1>5
    <2> QED
      BY <1>1, <1>3, <1>4, <1>6, <1>9, <2>2, <2>3, <2>4, <2>5 DEF Best
  <1>15. Best(new, x - 1)
    BY <1>2, <1>12, <1>13, <1>14 DEF Kinds
  <1> QED
    BY <1>1, <1>15 DEF x, r, new

(* The second loop, by induction over the periods it has looked at.         *)
LEMMA BestIsReference ==
  ASSUME period \in Periods
  PROVE  /\ BestStreak \in Nat
         /\ \A a, b \in Scanned :
              Lost \intersect a..b = {} => Cardinality(Won \intersect a..b) <= BestStreak
         /\ BestStreak > 0 =>
              \E a, b \in Scanned : /\ Lost \intersect a..b = {}
                                    /\ Cardinality(Won \intersect a..b) = BestStreak
  <1>1. PICK h : /\ h[0] = [rolling |-> 0, best |-> 0]
                 /\ \A m \in 0..Scan - 1 : h[m + 1] = Rolled(h[m], Results[m + 1])
                 /\ BestStreak = h[Scan].best
    BY RollingSteps
  <1> DEFINE Good == {m \in Nat : m <= Scan => Best(h[m], period - m)}
  <1>2. period \in Nat /\ Scan \in Nat
    BY Sizes DEF Periods
  <1>3. 0 \in Good
    <2>1. h[0] \in RollType /\ h[0].rolling = 0 /\ h[0].best = 0
      BY <1>1 DEF RollType
    <2>2. period - 0 = period /\ period \in period..period
      BY <1>2
    <2>3. WonIn(period + 1, period) = 0 /\ Unbroken(period + 1, period)
      BY <1>2, WonInRow
    <2>4. \A a \in Scanned : ~(a > period)
      BY <1>2, ScannedFinite DEF Scanned
    <2>5. Best(h[0], period)
      BY <1>2, <2>1, <2>2, <2>3, <2>4 DEF Best
    <2> QED
      BY <2>2, <2>5
  <1>4. ASSUME NEW m \in Good \intersect Nat PROVE m + 1 \in Good
    <2> SUFFICES ASSUME m + 1 <= Scan PROVE Best(h[m + 1], period - (m + 1))
      OBVIOUS
    <2>1. m \in 0..Scan - 1 /\ Best(h[m], period - m)
      BY <1>2
    <2> QED
      BY <1>1, <2>1, BestKept
  <1>5. Best(h[Scan], period - Scan)
    <2>1. Nat \subseteq Good
      <3> HIDE DEF Good
      <3> QED
        BY <1>3, <1>4, NatSetInduction
    <2> QED
      BY <1>2, <2>1
  <1>6. \A a \in Scanned : a > period - Scan
    BY DEF Scanned
  <1> QED
    BY <1>1, <1>5, <1>6 DEF Best, RollType, WonIn, Unbroken


-----------------------------------------------------------------------------
(* What the reference of a streak rests on is kept by every step.           *)

(* An approved task has its record, and the record is that of the task.     *)
Mirrored ==
  /\ IsFiniteSet(DOMAIN work) /\ IsFiniteSet(DOMAIN outcome)
  /\ \A i \in DOMAIN work : work[i].status = "approved" <=> i \in DOMAIN outcome
  /\ \A i \in DOMAIN work \intersect DOMAIN outcome : outcome[i].due = work[i].due

StreaksKept == StreaksTypeOK /\ Mirrored

(* The rows without one of them. *)
LEMMA WithoutRow ==
  ASSUME NEW rows, NEW i, NEW new, new = Without(rows, i), IsFiniteSet(DOMAIN rows)
  PROVE  /\ DOMAIN new = DOMAIN rows \ {i} /\ IsFiniteSet(DOMAIN new)
         /\ \A j \in DOMAIN rows \ {i} : new[j] = rows[j]
  <1>1. DOMAIN new = DOMAIN rows \ {i}
    BY DEF Without
  <1>2. IsFiniteSet(DOMAIN rows \ {i})
    BY FS_Subset
  <1> QED
    BY <1>1, <1>2 DEF Without

LEMMA StreaksStart == StreaksInit => StreaksKept
  <1> SUFFICES ASSUME StreaksInit PROVE StreaksKept
    OBVIOUS
  <1>1. DOMAIN work = {} /\ DOMAIN outcome = {} /\ period \in Periods
    BY Sizes DEF StreaksInit, Periods
  <1>2. IsFiniteSet({})
    BY FS_EmptySet
  <1> QED
    BY <1>1, <1>2 DEF StreaksInit, StreaksKept, StreaksTypeOK, Mirrored

LEMMA AssignKept ==
  ASSUME RowLocks, StreaksKept, Assign
  PROVE  StreaksKept'
  <1> USE DEF StreaksKept, StreaksTypeOK, Mirrored
  <1>1. PICK i \in NewIds, due \in Periods, s \in Templates \union {None} :
          work' = With(work, i, [due |-> due, template |-> s, status |-> "open", early |-> FALSE])
    BY DEF Assign
  <1> DEFINE row == [due |-> due, template |-> s, status |-> "open", early |-> FALSE]
  <1>2. row \in WorkRow /\ row.status = "open"
    BY DEF WorkRow
  <1>3. i \in TaskIds /\ i \notin DOMAIN work /\ i \notin DOMAIN outcome
    BY DEF NewIds
  <1> HIDE DEF row
  <1>4. /\ DOMAIN work' = DOMAIN work \union {i} /\ work'[i] = row
        /\ \A j \in DOMAIN work : work'[j] = work[j]
        /\ IsFiniteSet(DOMAIN work')
    <2>1. work' = With(work, i, row)
      BY <1>1 DEF row
    <2>2. IsFiniteSet(DOMAIN work)
      OBVIOUS
    <2>3. /\ DOMAIN work' = DOMAIN work \union {i} /\ IsFiniteSet(DOMAIN work')
          /\ work'[i] = row
          /\ \A j \in DOMAIN work \ {i} : work'[j] = work[j]
      <3>1. DOMAIN work' = DOMAIN work \union {i}
        BY <2>1 DEF With
      <3>2. IsFiniteSet(DOMAIN work \union {i})
        BY <2>2, FS_AddElement
      <3>3. work'[i] = row
        BY <2>1 DEF With
      <3>4. \A j \in DOMAIN work \ {i} : work'[j] = work[j]
        BY <2>1 DEF With
      <3> QED
        BY <3>1, <3>2, <3>3, <3>4
    <2> QED
      BY <1>3, <2>3
  <1> QED
    BY <1>2, <1>3, <1>4 DEF Assign

(* An open task with another due date has no record, before and after.      *)
LEMMA RescheduleKept == StreaksKept /\ Reschedule => StreaksKept'
  <1> SUFFICES ASSUME StreaksKept, Reschedule PROVE StreaksKept'
    OBVIOUS
  <1> USE DEF StreaksKept, StreaksTypeOK, Mirrored
  <1>1. PICK i \in DOMAIN work, due \in Periods :
          /\ work[i].status = "open"
          /\ work' = [work EXCEPT ![i].due = due]
    BY DEF Reschedule
  <1>2. /\ DOMAIN work' = DOMAIN work
        /\ \A j \in DOMAIN work \ {i} : work'[j] = work[j]
        /\ work'[i] \in WorkRow /\ work'[i].status = work[i].status
    BY <1>1 DEF WorkRow
  <1>3. i \notin DOMAIN outcome
    BY <1>1
  <1> QED
    BY <1>2, <1>3 DEF Reschedule

LEMMA ApproveTaskKept == StreaksKept /\ ApproveTask => StreaksKept'
  <1> SUFFICES ASSUME StreaksKept, ApproveTask PROVE StreaksKept'
    OBVIOUS
  <1> USE DEF StreaksKept, StreaksTypeOK, Mirrored
  <1>1. PICK i \in DOMAIN work, early \in BOOLEAN :
          /\ work[i].status = "open"
          /\ work' = [work EXCEPT ![i].status = "approved", ![i].early = early]
          /\ outcome' = With(outcome, i, [due |-> work[i].due, template |-> work[i].template,
                                          result |-> "approved", early |-> early])
    BY DEF ApproveTask
  <1> DEFINE row == [due |-> work[i].due, template |-> work[i].template,
                     result |-> "approved", early |-> early]
  <1>2. row \in OutcomeRow /\ row.due = work[i].due
    BY DEF OutcomeRow, WorkRow
  <1> HIDE DEF row
  <1>3. /\ DOMAIN outcome' = DOMAIN outcome \union {i} /\ outcome'[i] = row
        /\ \A j \in DOMAIN outcome \ {i} : outcome'[j] = outcome[j]
        /\ IsFiniteSet(DOMAIN outcome')
    <2>1. outcome' = With(outcome, i, row)
      BY <1>1 DEF row
    <2>2. IsFiniteSet(DOMAIN outcome)
      OBVIOUS
    <2>3. DOMAIN outcome' = DOMAIN outcome \union {i}
      BY <2>1 DEF With
    <2>4. IsFiniteSet(DOMAIN outcome \union {i})
      BY <2>2, FS_AddElement
    <2>5. outcome'[i] = row
      BY <2>1 DEF With
    <2>6. \A j \in DOMAIN outcome \ {i} : outcome'[j] = outcome[j]
      BY <2>1 DEF With
    <2> QED
      BY <2>3, <2>4, <2>5, <2>6
  <1>4. /\ DOMAIN work' = DOMAIN work
        /\ \A j \in DOMAIN work \ {i} : work'[j] = work[j]
        /\ work'[i] \in WorkRow /\ work'[i].due = work[i].due /\ work'[i].status = "approved"
    BY <1>1 DEF WorkRow
  <1>5. i \in TaskIds
    OBVIOUS
  <1>6. /\ period' \in Periods /\ metric' \in Metrics
        /\ frozen' \subseteq Periods /\ offered' \subseteq Templates
    BY DEF ApproveTask
  <1>7. DOMAIN work' \subseteq TaskIds /\ \A j \in DOMAIN work' : work'[j] \in WorkRow
    BY <1>4
  <1>8. DOMAIN outcome' \subseteq TaskIds /\ \A j \in DOMAIN outcome' : outcome'[j] \in OutcomeRow
    BY <1>2, <1>3, <1>5
  <1>9. /\ \A j \in DOMAIN work' : work'[j].status = "approved" <=> j \in DOMAIN outcome'
        /\ \A j \in DOMAIN work' \intersect DOMAIN outcome' : outcome'[j].due = work'[j].due
    BY <1>2, <1>3, <1>4
  <1>10. IsFiniteSet(DOMAIN work') /\ IsFiniteSet(DOMAIN outcome')
    BY <1>3, <1>4
  <1> QED
    BY <1>6, <1>7, <1>8, <1>9, <1>10

LEMMA MissTaskKept == StreaksKept /\ MissTask => StreaksKept'
  <1> SUFFICES ASSUME StreaksKept, MissTask PROVE StreaksKept'
    OBVIOUS
  <1> USE DEF StreaksKept, StreaksTypeOK, Mirrored
  <1>1. PICK i \in DOMAIN work :
          /\ work[i].status = "open"
          /\ work' = Without(work, i)
          /\ outcome' = With(outcome, i, [due |-> work[i].due, template |-> work[i].template,
                                          result |-> "missed", early |-> FALSE])
    BY DEF MissTask
  <1> DEFINE row == [due |-> work[i].due, template |-> work[i].template,
                     result |-> "missed", early |-> FALSE]
  <1>2. row \in OutcomeRow
    BY DEF OutcomeRow, WorkRow
  <1> HIDE DEF row
  <1>3. /\ DOMAIN outcome' = DOMAIN outcome \union {i} /\ outcome'[i] = row
        /\ \A j \in DOMAIN outcome \ {i} : outcome'[j] = outcome[j]
        /\ IsFiniteSet(DOMAIN outcome')
    <2>1. outcome' = With(outcome, i, row)
      BY <1>1 DEF row
    <2>2. IsFiniteSet(DOMAIN outcome)
      OBVIOUS
    <2>3. DOMAIN outcome' = DOMAIN outcome \union {i}
      BY <2>1 DEF With
    <2>4. IsFiniteSet(DOMAIN outcome \union {i})
      BY <2>2, FS_AddElement
    <2>5. outcome'[i] = row
      BY <2>1 DEF With
    <2>6. \A j \in DOMAIN outcome \ {i} : outcome'[j] = outcome[j]
      BY <2>1 DEF With
    <2> QED
      BY <2>3, <2>4, <2>5, <2>6
  <1>4. /\ DOMAIN work' = DOMAIN work \ {i} /\ IsFiniteSet(DOMAIN work')
        /\ \A j \in DOMAIN work \ {i} : work'[j] = work[j]
    <2>1. work' = Without(work, i)
      BY <1>1
    <2>2. IsFiniteSet(DOMAIN work)
      OBVIOUS
    <2> QED
      BY ONLY <2>1, <2>2, WithoutRow
  <1> QED
    BY <1>2, <1>3, <1>4 DEF MissTask

LEMMA DeleteTaskKept == StreaksKept /\ DeleteTask => StreaksKept'
  <1> SUFFICES ASSUME StreaksKept, DeleteTask PROVE StreaksKept'
    OBVIOUS
  <1> USE DEF StreaksKept, StreaksTypeOK, Mirrored
  <1>1. PICK i \in DOMAIN work : work' = Without(work, i)
    BY DEF DeleteTask
  <1>2. /\ DOMAIN work' = DOMAIN work \ {i} /\ IsFiniteSet(DOMAIN work')
        /\ \A j \in DOMAIN work \ {i} : work'[j] = work[j]
    <2>1. work' = Without(work, i)
      BY <1>1
    <2>2. IsFiniteSet(DOMAIN work)
      OBVIOUS
    <2> QED
      BY ONLY <2>1, <2>2, WithoutRow
  <1> QED
    BY <1>2 DEF DeleteTask

LEMMA StreaksStep ==
  ASSUME RowLocks, StreaksKept, [StreaksNext]_streakVars
  PROVE  StreaksKept'
  <1>1. CASE Freeze
    BY <1>1 DEF Freeze, StreaksKept, StreaksTypeOK, Mirrored
  <1>2. CASE Offer
    BY <1>2 DEF Offer, StreaksKept, StreaksTypeOK, Mirrored
  <1>3. CASE NextPeriod
    <2>1. period' \in Periods
      BY <1>3, Sizes DEF NextPeriod, StreaksKept, StreaksTypeOK, Periods
    <2> QED
      BY <1>3, <2>1 DEF NextPeriod, StreaksKept, StreaksTypeOK, Mirrored
  <1>4. CASE UNCHANGED streakVars
    BY <1>4 DEF streakVars, StreaksKept, StreaksTypeOK, Mirrored
  <1> QED
    BY <1>1, <1>2, <1>3, <1>4, AssignKept, RescheduleKept, ApproveTaskKept, MissTaskKept,
       DeleteTaskKept
    DEF StreaksNext

LEMMA StreaksAlwaysKept ==
  ASSUME RowLocks
  PROVE  StreaksSpec => []StreaksKept
  <1>1. StreaksKept /\ [StreaksNext]_streakVars => StreaksKept'
    BY StreaksStep
  <1> QED
    BY <1>1, StreaksStart, PTL DEF StreaksSpec

(* Rows with one more of their type, or one less. *)
LEMMA RowsTyped ==
  ASSUME NEW Row, NEW rows, DOMAIN rows \subseteq TaskIds, \A j \in DOMAIN rows : rows[j] \in Row,
         NEW i \in TaskIds, NEW row \in Row, NEW new,
         new = With(rows, i, row) \/ new = Without(rows, i)
  PROVE  DOMAIN new \subseteq TaskIds /\ \A j \in DOMAIN new : new[j] \in Row
  <1>1. CASE new = With(rows, i, row)
    <2>1. DOMAIN new = DOMAIN rows \union {i}
      BY <1>1 DEF With
    <2>2. \A j \in DOMAIN new : new[j] = IF j = i THEN row ELSE rows[j]
      BY <1>1 DEF With
    <2> QED
      BY <2>1, <2>2
  <1>2. CASE new = Without(rows, i)
    <2>1. DOMAIN new = DOMAIN rows \ {i}
      BY <1>2 DEF Without
    <2>2. \A j \in DOMAIN new : new[j] = rows[j]
      BY <1>2 DEF Without
    <2> QED
      BY <2>1, <2>2
  <1> QED
    BY <1>1, <1>2

(* The tasks, the records and the periods keep their types on either        *)
(* database, also where ids are given out again.                            *)
LEMMA StreaksTypedStep ==
  ASSUME StreaksTypeOK, [StreaksNext]_streakVars
  PROVE  StreaksTypeOK'
  <1>1. DOMAIN work \subseteq TaskIds /\ \A j \in DOMAIN work : work[j] \in WorkRow
    BY DEF StreaksTypeOK
  <1>2. DOMAIN outcome \subseteq TaskIds /\ \A j \in DOMAIN outcome : outcome[j] \in OutcomeRow
    BY DEF StreaksTypeOK
  <1>3. /\ period \in Periods /\ metric \in Metrics
        /\ frozen \subseteq Periods /\ offered \subseteq Templates
    BY DEF StreaksTypeOK
  <1> DEFINE WorkTyped == DOMAIN work \subseteq TaskIds /\ \A j \in DOMAIN work : work[j] \in WorkRow
             OutcomeTyped == /\ DOMAIN outcome \subseteq TaskIds
                             /\ \A j \in DOMAIN outcome : outcome[j] \in OutcomeRow
  <1>4. CASE Assign
    <2>1. PICK i \in NewIds, due \in Periods, s \in Templates \union {None} :
            work' = With(work, i, [due |-> due, template |-> s, status |-> "open", early |-> FALSE])
      BY <1>3, <1>4 DEF Assign
    <2> DEFINE row == [due |-> due, template |-> s, status |-> "open", early |-> FALSE]
    <2>2. row \in WorkRow /\ i \in TaskIds
      BY DEF WorkRow, NewIds
    <2>3. work' = With(work, i, row)
      BY <2>1
    <2> HIDE DEF row
    <2>4. WorkTyped'
      BY ONLY <1>1, <2>2, <2>3, RowsTyped
    <2> QED
      BY <1>2, <1>3, <1>4, <2>4 DEF Assign, StreaksTypeOK
  <1>5. CASE Reschedule
    <2>1. PICK i \in DOMAIN work, due \in Periods : work' = [work EXCEPT ![i].due = due]
      BY <1>5 DEF Reschedule
    <2>2. WorkTyped'
      BY <1>1, <2>1 DEF WorkRow
    <2> QED
      BY <1>2, <1>3, <1>5, <2>2 DEF Reschedule, StreaksTypeOK
  <1>6. CASE ApproveTask
    <2>1. PICK i \in DOMAIN work, early \in BOOLEAN :
            /\ work' = [work EXCEPT ![i].status = "approved", ![i].early = early]
            /\ outcome' = With(outcome, i, [due |-> work[i].due, template |-> work[i].template,
                                            result |-> "approved", early |-> early])
      BY <1>6 DEF ApproveTask
    <2> DEFINE row == [due |-> work[i].due, template |-> work[i].template,
                       result |-> "approved", early |-> early]
    <2>2. row \in OutcomeRow /\ i \in TaskIds
      BY <1>1 DEF OutcomeRow, WorkRow
    <2>3. outcome' = With(outcome, i, row)
      BY <2>1
    <2>4. WorkTyped'
      BY <1>1, <2>1 DEF WorkRow
    <2> HIDE DEF row
    <2>5. OutcomeTyped'
      BY ONLY <1>2, <2>2, <2>3, RowsTyped
    <2> QED
      BY <1>3, <1>6, <2>4, <2>5 DEF ApproveTask, StreaksTypeOK
  <1>7. CASE MissTask
    <2>1. PICK i \in DOMAIN work :
            /\ work' = Without(work, i)
            /\ outcome' = With(outcome, i, [due |-> work[i].due, template |-> work[i].template,
                                            result |-> "missed", early |-> FALSE])
      BY <1>7 DEF MissTask
    <2> DEFINE row == [due |-> work[i].due, template |-> work[i].template,
                       result |-> "missed", early |-> FALSE]
    <2>2. row \in OutcomeRow /\ i \in TaskIds /\ work[i] \in WorkRow
      BY <1>1 DEF OutcomeRow, WorkRow
    <2>3. work' = Without(work, i) /\ outcome' = With(outcome, i, row)
      BY <2>1
    <2> HIDE DEF row
    <2>4. WorkTyped'
      BY ONLY <1>1, <2>2, <2>3, RowsTyped
    <2>5. OutcomeTyped'
      BY ONLY <1>2, <2>2, <2>3, RowsTyped
    <2> QED
      BY <1>3, <1>7, <2>4, <2>5 DEF MissTask, StreaksTypeOK
  <1>8. CASE DeleteTask
    <2>1. PICK i \in DOMAIN work : work' = Without(work, i)
      BY <1>8 DEF DeleteTask
    <2>2. i \in TaskIds /\ work[i] \in WorkRow
      BY <1>1
    <2>3. WorkTyped'
      BY ONLY <1>1, <2>1, <2>2, RowsTyped
    <2> QED
      BY <1>2, <1>3, <1>8, <2>3 DEF DeleteTask, StreaksTypeOK
  <1>9. CASE Freeze
    BY <1>1, <1>2, <1>3, <1>9 DEF Freeze, StreaksTypeOK
  <1>10. CASE Offer
    BY <1>1, <1>2, <1>3, <1>10 DEF Offer, StreaksTypeOK
  <1>11. CASE NextPeriod
    <2>1. period' \in Periods
      BY <1>3, <1>11, Sizes DEF NextPeriod, Periods
    <2> QED
      BY <1>1, <1>2, <1>3, <1>11, <2>1 DEF NextPeriod, StreaksTypeOK
  <1>12. CASE UNCHANGED streakVars
    BY <1>1, <1>2, <1>3, <1>12 DEF streakVars, StreaksTypeOK
  <1> QED
    BY <1>4, <1>5, <1>6, <1>7, <1>8, <1>9, <1>10, <1>11, <1>12 DEF StreaksNext

(* The variables of Streaks have their types in every reachable state.      *)
THEOREM StreaksTypeCorrect == StreaksSpec => []StreaksTypeOK
  <1>1. StreaksInit => StreaksTypeOK
    BY StreaksStart DEF StreaksKept
  <1>2. StreaksTypeOK /\ [StreaksNext]_streakVars => StreaksTypeOK'
    BY StreaksTypedStep
  <1> QED
    BY <1>1, <1>2, PTL DEF StreaksSpec

(* Both loops of _compute_streak_progress look at the periods one by one,   *)
(* newest first, and remember little: that gives the periods won since the  *)
(* last one lost, and the longest row of periods won with none lost between *)
(* them, for every history of tasks, freezes and templates, on PostgreSQL   *)
(* and on SQLite.                                                           *)
THEOREM StreaksAlwaysReference == StreaksSpec => []StreakIsReference
  <1>1. StreaksTypeOK => StreakIsReference
    BY CurrentIsReference, BestIsReference DEF StreakIsReference, StreaksTypeOK
  <1> QED
    BY <1>1, StreaksTypeCorrect, PTL

-----------------------------------------------------------------------------
(* A streak does not shrink without one of the reasons.                     *)

(* The periods that the current streak counts.                              *)
Standing == {p \in Won : \A q \in Lost : q < p}

LEMMA CurrentNow == period \in Periods => CurrentStreak = Cardinality(Standing)
  BY CurrentIsReference DEF Standing

LEMMA CurrentNext == (period \in Periods => CurrentStreak = Cardinality(Standing))'
  BY CurrentNow, PTL

LEMMA StandingFinite == (IsFiniteSet(Standing) /\ Cardinality(Standing) \in Nat)'
  <1>1. IsFiniteSet(Standing) /\ Cardinality(Standing) \in Nat
    BY ScannedFinite DEF Standing
  <1> QED
    BY <1>1, PTL

(* A current streak does not fall when what it counted still counts.        *)
LEMMA StreakGrows ==
  ASSUME period \in Periods, period' \in Periods, Standing \subseteq Standing'
  PROVE  ~(CurrentStreak' < CurrentStreak)
  <1>1. CurrentStreak = Cardinality(Standing)
    BY CurrentNow
  <1>2. CurrentStreak' = Cardinality(Standing')
    BY CurrentNext
  <1>3. IsFiniteSet(Standing') /\ Cardinality(Standing') \in Nat
    BY StandingFinite
  <1>4. Cardinality(Standing) \in Nat /\ Cardinality(Standing) <= Cardinality(Standing')
    BY <1>3, FS_Subset, FS_CardinalityType
  <1> QED
    BY <1>1, <1>2, <1>3, <1>4


(* Where no more tasks are counted, and not fewer are done, a period is not *)
(* lost and what was won stays won.                                         *)
LEMMA ResultKept ==
  ASSUME frozen' = frozen, offered' = offered, metric' = metric, NEW p,
         All(p)' = All(p), Done(p) \subseteq Done(p)', Covered(p) \subseteq Covered(p)'
  PROVE  /\ Result(p) = "success" => Result(p)' = "success"
         /\ Result(p)' = "failure" => Result(p) = "failure"
  <1>1. Done(p)' \subseteq All(p)'
    BY DEF Done, All
  <1>2. Done(p) = All(p) => Done(p)' = All(p)'
    BY <1>1
  <1>3. offered \subseteq Covered(p) => offered' \subseteq Covered(p)'
    OBVIOUS
  <1> QED
    BY <1>2, <1>3 DEF Result

LEMMA StandingKept ==
  ASSUME period' = period,
         \A p \in Scanned : /\ Result(p) = "success" => Result(p)' = "success"
                            /\ Result(p)' = "failure" => Result(p) = "failure"
  PROVE  Standing \subseteq Standing'
  <1>1. Scanned' = Scanned
    BY DEF Scanned
  <1>2. Won \subseteq Won'
    BY <1>1 DEF Won
  <1>3. Lost' \subseteq Lost
    BY <1>1 DEF Lost
  <1> QED
    BY <1>2, <1>3 DEF Standing

(* Another approval, in time where the rule asks for that.                  *)
LEMMA ApprovalStands ==
  ASSUME StreaksKept, ApproveTask,
         \A i \in DOMAIN outcome' \ DOMAIN outcome :
           metric = "all_due_tasks_completed_early" => outcome'[i].early
  PROVE  Standing \subseteq Standing'
  <1>1. PICK i \in DOMAIN work, early \in BOOLEAN :
          /\ work[i].status = "open"
          /\ work' = [work EXCEPT ![i].status = "approved", ![i].early = early]
          /\ outcome' = With(outcome, i, [due |-> work[i].due, template |-> work[i].template,
                                          result |-> "approved", early |-> early])
    BY DEF ApproveTask
  <1>2. i \notin DOMAIN outcome
    BY <1>1 DEF StreaksKept, Mirrored
  <1> DEFINE row == [due |-> work[i].due, template |-> work[i].template,
                     result |-> "approved", early |-> early]
  <1>3. row.due = work[i].due /\ row.result = "approved" /\ row.early = early
    OBVIOUS
  <1>4. outcome' = With(outcome, i, row)
    BY <1>1
  <1> HIDE DEF row
  <1>5. /\ DOMAIN outcome' = DOMAIN outcome \union {i} /\ outcome'[i] = row
        /\ \A j \in DOMAIN outcome : outcome'[j] = outcome[j]
    BY <1>2, <1>4 DEF With
  <1>6. /\ DOMAIN work' = DOMAIN work /\ work'[i].due = work[i].due
        /\ \A j \in DOMAIN work \ {i} : work'[j] = work[j]
    <2>1. work[i] \in WorkRow
      BY DEF StreaksKept, StreaksTypeOK
    <2> QED
      BY <1>1, <2>1 DEF WorkRow
  <1>7. period' = period /\ metric' = metric /\ frozen' = frozen /\ offered' = offered
    BY DEF ApproveTask
  <1>8. metric = "all_due_tasks_completed_early" => outcome'[i].early
    BY <1>2, <1>5
  <1>9. ASSUME NEW p \in Scanned
        PROVE  /\ Result(p) = "success" => Result(p)' = "success"
               /\ Result(p)' = "failure" => Result(p) = "failure"
    <2>1. Recorded(p)' = IF work[i].due = p THEN Recorded(p) \union {i} ELSE Recorded(p)
      BY <1>2, <1>3, <1>5 DEF Recorded
    <2>2. Unrecorded(p)' = Unrecorded(p) \ {i}
      BY <1>2, <1>3, <1>5, <1>6, <2>1 DEF Unrecorded, Recorded
    <2>3. i \in Unrecorded(p) <=> work[i].due = p
      BY <1>2 DEF Unrecorded, Recorded
    <2>4. All(p)' = All(p)
      BY <2>1, <2>2, <2>3 DEF All
    <2>5. Done(p) \subseteq Done(p)'
      <3>1. ASSUME NEW j \in Recorded(p), outcome[j].result = "approved" /\ OnTime(outcome[j])
            PROVE  j \in Done(p)'
        <4>1. j \in DOMAIN outcome /\ j \in Recorded(p)' /\ outcome'[j] = outcome[j]
          BY <1>5, <2>1 DEF Recorded
        <4>2. OnTime(outcome[j])'
          BY <1>7, <3>1, <4>1 DEF OnTime
        <4> QED
          BY <3>1, <4>1, <4>2 DEF Done
      <3>2. ASSUME NEW j \in Unrecorded(p), work[j].status = "approved" /\ OnTime(work[j])
            PROVE  j \in Done(p)'
        <4>1. j # i /\ j \in DOMAIN work
          BY <1>1, <3>2 DEF Unrecorded
        <4>2. j \in Unrecorded(p)' /\ work'[j] = work[j]
          BY <1>6, <2>2, <4>1
        <4>3. OnTime(work[j])'
          BY <1>7, <3>2, <4>2 DEF OnTime
        <4> QED
          BY <3>2, <4>2, <4>3 DEF Done
      <3> QED
        BY <3>1, <3>2 DEF Done
    <2>6. Covered(p) \subseteq Covered(p)'
      <3>1. \A j \in Recorded(p) : j \in Recorded(p)' /\ outcome'[j] = outcome[j]
        BY <1>5, <2>1 DEF Recorded
      <3> QED
        BY <3>1 DEF Covered
    <2> QED
      BY <1>7, <2>4, <2>5, <2>6, ResultKept
  <1> QED
    BY <1>7, <1>9, StandingKept

(* A task that was deleted had its record, or was not done.                 *)
LEMMA DeletionStands ==
  ASSUME StreaksKept, DeleteTask
  PROVE  Standing \subseteq Standing'
  <1>1. PICK i \in DOMAIN work : work' = Without(work, i)
    BY DEF DeleteTask
  <1>2. /\ DOMAIN work' = DOMAIN work \ {i}
        /\ \A j \in DOMAIN work \ {i} : work'[j] = work[j]
    BY <1>1 DEF Without
  <1>3. /\ period' = period /\ metric' = metric /\ frozen' = frozen /\ offered' = offered
        /\ outcome' = outcome
    BY DEF DeleteTask
  <1>4. ASSUME NEW p \in Scanned
        PROVE  /\ Result(p) = "success" => Result(p)' = "success"
               /\ Result(p)' = "failure" => Result(p) = "failure"
    <2>1. Recorded(p)' = Recorded(p) /\ Covered(p)' = Covered(p)
      BY <1>3 DEF Recorded, Covered
    <2>2. Unrecorded(p)' = Unrecorded(p) \ {i}
      BY <1>2, <2>1 DEF Unrecorded
    <2>3. Done(p)' = Done(p) \ {j \in {i} : j \in Unrecorded(p)}
      <3>1. \A j \in Recorded(p) : OnTime(outcome[j])' <=> OnTime(outcome[j])
        BY <1>3 DEF OnTime
      <3>2. \A j \in Unrecorded(p) \ {i} : work'[j] = work[j] /\ (OnTime(work[j])' <=> OnTime(work[j]))
        BY <1>2, <1>3 DEF OnTime, Unrecorded
      <3>3. Recorded(p) \intersect Unrecorded(p) = {}
        BY DEF Unrecorded
      <3> QED
        BY <1>3, <2>1, <2>2, <3>1, <3>2, <3>3 DEF Done
    <2>4. i \in Unrecorded(p) => i \notin Done(p)
      BY DEF StreaksKept, Mirrored, Unrecorded, Recorded, Done
    <2>5. Done(p)' = Done(p)
      BY <2>3, <2>4
    <2>6. All(p)' = IF i \in Unrecorded(p) THEN All(p) \ {i} ELSE All(p)
      BY <2>1, <2>2 DEF All, Unrecorded
    <2>7. CASE i \notin Unrecorded(p)
      BY <1>3, <2>1, <2>5, <2>6, <2>7, ResultKept
    <2>8. CASE i \in Unrecorded(p)
      <3>1. i \in All(p) /\ Done(p) # All(p)
        BY <2>4, <2>8 DEF All
      <3>2. IsFiniteSet(All(p)) /\ Cardinality(All(p)') <= Cardinality(All(p))
            /\ Cardinality(All(p)') \in Nat /\ Cardinality(All(p)) \in Nat
        <4>1. IsFiniteSet(DOMAIN work \union DOMAIN outcome)
          BY FS_Union DEF StreaksKept, Mirrored
        <4>2. All(p) \subseteq DOMAIN work \union DOMAIN outcome
          BY DEF All, Unrecorded, Recorded
        <4>3. All(p)' \subseteq All(p)
          BY <2>6
        <4> QED
          BY <4>1, <4>2, <4>3, FS_Subset, FS_CardinalityType
      <3>3. Cardinality(All(p)) < Minimum => Cardinality(All(p)') < Minimum
        BY <3>2, Sizes
      <3>4. All(p) # {}
        BY <3>1
      <3> QED
        BY <1>3, <2>1, <3>1, <3>3, <3>4 DEF Result
    <2> QED
      BY <2>7, <2>8
  <1> QED
    BY <1>3, <1>4, StandingKept

(* A task not done yet lowers the streak only by the period it is moved to. *)
LEMMA RescheduleStands ==
  ASSUME StreaksKept, Reschedule,
         \A i \in DOMAIN work' \intersect DOMAIN work :
           work'[i].due # work[i].due => work'[i].due \notin Lost' \ Lost
  PROVE  Standing \subseteq Standing'
  <1>1. PICK i \in DOMAIN work, due \in Periods :
          /\ work[i].status = "open"
          /\ work' = [work EXCEPT ![i].due = due]
    BY DEF Reschedule
  <1>2. /\ DOMAIN work' = DOMAIN work /\ work'[i].due = due /\ work'[i].status = "open"
        /\ \A j \in DOMAIN work \ {i} : work'[j] = work[j]
    <2>1. work[i] \in WorkRow
      BY DEF StreaksKept, StreaksTypeOK
    <2> QED
      BY <1>1, <2>1 DEF WorkRow
  <1>3. /\ period' = period /\ metric' = metric /\ frozen' = frozen /\ offered' = offered
        /\ outcome' = outcome
    BY DEF Reschedule
  <1>4. i \notin DOMAIN outcome
    BY <1>1 DEF StreaksKept, Mirrored
  <1>5. ASSUME NEW p
        PROVE  /\ Recorded(p)' = Recorded(p) /\ Covered(p)' = Covered(p)
               /\ i \in Unrecorded(p) <=> work[i].due = p
               /\ i \in Unrecorded(p)' <=> due = p
               /\ Unrecorded(p)' \ {i} = Unrecorded(p) \ {i}
               /\ Done(p)' = Done(p) /\ i \notin Done(p)
    <2>1. Recorded(p)' = Recorded(p) /\ Covered(p)' = Covered(p) /\ i \notin Recorded(p)
      BY <1>3, <1>4 DEF Recorded, Covered
    <2>2. /\ i \in Unrecorded(p) <=> work[i].due = p
          /\ i \in Unrecorded(p)' <=> due = p
          /\ Unrecorded(p)' \ {i} = Unrecorded(p) \ {i}
      BY <1>2, <2>1 DEF Unrecorded
    <2>3. i \notin Done(p) /\ i \notin Done(p)'
      BY <1>1, <1>2, <2>1 DEF Done
    <2>4. \A j : j # i => (j \in Done(p)' <=> j \in Done(p))
      <3>1. \A j \in Recorded(p) : OnTime(outcome[j])' <=> OnTime(outcome[j])
        BY <1>3 DEF OnTime
      <3>2. \A j \in Unrecorded(p) \ {i} :
              work'[j] = work[j] /\ (OnTime(work[j])' <=> OnTime(work[j]))
        BY <1>2, <1>3 DEF OnTime, Unrecorded
      <3> QED
        BY <1>3, <2>1, <2>2, <3>1, <3>2 DEF Done
    <2> QED
      BY <2>1, <2>2, <2>3, <2>4 DEF Done
  <1>6. ASSUME NEW p
        PROVE  /\ IsFiniteSet(All(p)) /\ Cardinality(All(p)) \in Nat
               /\ IsFiniteSet(All(p)') /\ Cardinality(All(p)') \in Nat
    <2>1. IsFiniteSet(DOMAIN work \union DOMAIN outcome)
      BY FS_Union DEF StreaksKept, Mirrored
    <2>2. All(p) \subseteq DOMAIN work \union DOMAIN outcome
      BY DEF All, Unrecorded, Recorded
    <2>3. All(p)' \subseteq DOMAIN work \union DOMAIN outcome
      BY <1>2, <1>3 DEF All, Unrecorded, Recorded
    <2> QED
      BY <2>1, <2>2, <2>3, FS_Subset, FS_CardinalityType
  <1>7. ASSUME NEW p \in Scanned
        PROVE  /\ Result(p) = "success" => Result(p)' = "success"
               /\ Result(p)' = "failure" => Result(p) = "failure"
    <2>1. CASE i \in Unrecorded(p) <=> i \in Unrecorded(p)'
      <3>1. Unrecorded(p)' = Unrecorded(p)
        BY <1>5, <2>1
      <3>2. All(p)' = All(p)
        BY <1>5, <3>1 DEF All
      <3> QED
        BY <1>3, <1>5, <3>2, ResultKept
    <2>2. CASE i \in Unrecorded(p) /\ i \notin Unrecorded(p)'
      <3>1. i \in All(p) /\ Done(p) # All(p) /\ All(p)' \subseteq All(p) /\ All(p) # {}
        BY <1>5, <2>2 DEF All
      <3>2. Cardinality(All(p)') <= Cardinality(All(p))
        BY <1>6, <3>1, FS_Subset
      <3>3. Cardinality(All(p)) < Minimum => Cardinality(All(p)') < Minimum
        BY <1>6, <3>2, Sizes
      <3> QED
        BY <1>3, <1>5, <3>1, <3>3 DEF Result
    <2>3. CASE i \notin Unrecorded(p) /\ i \in Unrecorded(p)'
      <3>1. due = p /\ work[i].due # p
        BY <1>5, <2>3
      <3>2. p \in Lost' => p \in Lost
        BY <1>2, <3>1
      <3>3. p \in Scanned'
        BY <1>3 DEF Scanned
      <3>4. Result(p)' = "failure" => Result(p) = "failure"
        BY <3>2, <3>3 DEF Lost
      <3>5. All(p) \subseteq All(p)' /\ All(p)' # {}
        BY <1>5, <2>3 DEF All
      <3>6. Cardinality(All(p)) <= Cardinality(All(p)')
        BY <1>6, <3>5, FS_Subset
      <3>7. Cardinality(All(p)') < Minimum => Cardinality(All(p)) < Minimum
        BY <1>6, <3>6, Sizes
      <3>8. Result(p) = "success" => Result(p)' \in {"success", "failure"}
        BY <1>3, <1>5, <3>5, <3>7 DEF Result
      <3> QED
        BY <3>4, <3>8
    <2> QED
      BY <2>1, <2>2, <2>3
  <1> QED
    BY <1>3, <1>7, StandingKept

(* The next period, where nothing is due in it yet.                         *)
LEMMA PeriodStands ==
  ASSUME StreaksKept, NextPeriod, period' \notin Lost', period - Scan + 1 \notin Won
  PROVE  Standing \subseteq Standing'
  <1>1. period \in Nat /\ period' = period + 1 /\ period' \in Periods
    BY Sizes DEF NextPeriod, StreaksKept, StreaksTypeOK, Periods
  <1>2. ASSUME NEW p PROVE Result(p)' = Result(p)
    <2>1. metric' = metric /\ work' = work /\ outcome' = outcome /\ frozen' = frozen /\ offered' = offered
      BY DEF NextPeriod
    <2>2. Recorded(p)' = Recorded(p) /\ Unrecorded(p)' = Unrecorded(p)
      BY <2>1 DEF Recorded, Unrecorded
    <2>3. All(p)' = All(p) /\ Covered(p)' = Covered(p) /\ Done(p)' = Done(p)
      BY <2>1, <2>2 DEF All, Covered, Done, OnTime
    <2> QED
      BY <2>1, <2>3 DEF Result
  <1>3. Scan \in Nat /\ \A p \in Periods : p \in Int
    BY Sizes DEF Periods
  <1>4. \A p \in Scanned : p # period - Scan + 1 => p \in Scanned'
    BY <1>1, <1>3 DEF Scanned
  <1>5. \A p \in Scanned' : p # period' => p \in Scanned
    BY <1>1, <1>3 DEF Scanned
  <1>6. Won \subseteq Won'
    BY <1>2, <1>4 DEF Won
  <1>7. Lost' \subseteq Lost
    BY <1>2, <1>5 DEF Lost
  <1> QED
    BY <1>6, <1>7 DEF Standing

(* On PostgreSQL, whose ids are not given out twice, the record of an       *)
(* outcome outlives the task (record_task_outcome), so approvals, deletions *)
(* and time take nothing from a current streak: it falls only for the       *)
(* reasons that StreakFallsExplained lists.                                 *)
THEOREM StreakFallsAlwaysExplained ==
  ASSUME RowLocks
  PROVE  StreaksSpec => StreakFallsExplained
  <1> DEFINE Reason ==
        \/ DOMAIN work' \ DOMAIN work # {}
        \/ \E i \in DOMAIN work' \intersect DOMAIN work :
             work'[i].due # work[i].due /\ work'[i].due \in Lost' \ Lost
        \/ \E i \in DOMAIN outcome' \ DOMAIN outcome :
             \/ outcome'[i].result = "missed"
             \/ metric = "all_due_tasks_completed_early" /\ ~outcome'[i].early
        \/ frozen' # frozen
        \/ offered' # offered
        \/ period' > period /\ (period' \in Lost' \/ period - Scan + 1 \in Won)
  <1>1. ASSUME StreaksKept, StreaksNext, StreaksKept', CurrentStreak' < CurrentStreak
        PROVE  Reason
    <2> SUFFICES ASSUME ~Reason PROVE FALSE
      OBVIOUS
    <2>1. period \in Periods /\ period' \in Periods
      BY <1>1 DEF StreaksKept, StreaksTypeOK
    <2>2. ~(Standing \subseteq Standing')
      BY <1>1, <2>1, StreakGrows
    <2>3. CASE Assign
      <3>1. PICK i \in NewIds, due \in Periods, s \in Templates \union {None} :
              work' = With(work, i, [due |-> due, template |-> s, status |-> "open", early |-> FALSE])
        BY <1>1, <2>3 DEF Assign, StreaksKept, StreaksTypeOK
      <3> QED
        BY <3>1 DEF With, NewIds
    <2>4. CASE ApproveTask
      BY <1>1, <2>2, <2>4, ApprovalStands
    <2>10. CASE Reschedule
      BY <1>1, <2>2, <2>10, RescheduleStands
    <2>5. CASE MissTask
      <3>1. PICK i \in DOMAIN work :
              /\ work[i].status = "open"
              /\ outcome' = With(outcome, i, [due |-> work[i].due, template |-> work[i].template,
                                              result |-> "missed", early |-> FALSE])
        BY <2>5 DEF MissTask
      <3>2. i \in DOMAIN outcome' \ DOMAIN outcome /\ outcome'[i].result = "missed"
        BY <1>1, <3>1 DEF With, StreaksKept, Mirrored
      <3> QED
        BY <3>2
    <2>6. CASE DeleteTask
      BY <1>1, <2>2, <2>6, DeletionStands
    <2>7. CASE Freeze
      <3>1. UNCHANGED <<period, metric, work, outcome, offered, frozen>>
        BY <2>7 DEF Freeze
      <3>2. Standing' = Standing
        BY <3>1 DEF Standing, Won, Lost, Scanned, Result, All, Done, Covered, Recorded,
                    Unrecorded, OnTime
      <3> QED
        BY <2>2, <3>2
    <2>8. CASE Offer
      BY <2>8 DEF Offer
    <2>9. CASE NextPeriod
      <3>1. period' > period
        BY <2>1, <2>9, Sizes DEF NextPeriod, Periods
      <3> QED
        BY <1>1, <2>2, <2>9, <3>1, PeriodStands
    <2> QED
      BY <1>1, <2>3, <2>4, <2>5, <2>6, <2>7, <2>8, <2>9, <2>10 DEF StreaksNext
  <1>2. StreaksKept /\ StreaksKept' /\ [StreaksNext]_streakVars
        => [CurrentStreak' < CurrentStreak => Reason]_streakVars
    BY <1>1
  <1> QED
    BY <1>2, StreaksAlwaysKept, PTL DEF StreaksSpec, StreakFallsExplained

=============================================================================

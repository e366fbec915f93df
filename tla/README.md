# HomeQuests backend: a verification project

TLA+ modules, TLC runs and TLAPS proofs for HomeQuests, a FastAPI server (with a
JavaScript front-end and an SQLite or PostgreSQL database) with which a family keeps
tasks, points and rewards. Every definition is translated from the source under
`src/homequests_backend/app`; `README.md`, `CHANGELOG.md` and the comments of the
repository are quoted only where they say what the code ought to do. The repository
at this commit has no tests.

Paths below are relative to `src/homequests_backend/app`.

## 1. The system

### 1.1 How it runs

One uvicorn process. Endpoints are synchronous functions, so each request runs in a
thread of a pool with a database session of its own; the live stream and the workers
(penalty sweep, reminder sweep, outbox dispatcher) are asyncio tasks, most of which
call blocking code in threads. The database decides how requests interleave:

- **PostgreSQL**: READ COMMITTED. `SELECT ... FOR UPDATE` locks rows until the commit; a
  query of other rows sees what is committed at that moment; a cycle of waits is broken
  by aborting one transaction; advisory locks are bound to the transaction.
- **SQLite** (the default): `FOR UPDATE` is compiled away, reads before the first flush
  belong to no transaction, the first flush takes the only write lock and the commit
  releases it. Locks of maintenance and claims are locks of the process.

Sessions are `autoflush=False` and are rolled back when a handler raises.

### 1.2 Components

| Component | State | Operations | Interacts through |
|---|---|---|---|
| Rewards (`routers/rewards.py`) | `rewards`, `reward_redemptions`, `reward_contributions` | create, update, delete, contribute, redeem, review | reserves and refunds in the ledger, locks `users` |
| Points (`routers/points.py`, `services.py`) | `points_ledger` (append-only) | adjust, balance, listings | written by rewards, tasks, penalties, achievements |
| Tasks (`routers/tasks.py`) | `tasks`, `task_submissions`, `task_approvals` | create, edit, activate, submit, report, review, delete | ledger, achievements, live events |
| Recurrence and maintenance (`routers/tasks.py`, `maintenance.py`) | due dates, series, generation blocks | realign, roll over, advance weekly tasks, deduplicate, penalise | run by every listing of tasks and by the penalty worker |
| Special tasks (`routers/tasks.py`) | templates, claims | claim under a quota, withdraw | creates tasks |
| Live updates (`live_bus.py`, `routers/live.py`, `services.py`) | `live_update_events`, versions and waiters of the bus | emit, publish after commit, stream, trim | every endpoint emits; browsers read |
| Front-end refresh (`web/static/app.js`) | cursor, queued and running refreshes | connect, queue, debounce, refresh | the stream, `localStorage` shared by tabs |
| Remote notifications (`notification_dispatcher.py`, `push_notifications.py`) | `remote_notification_outbox`, delivery logs, devices | store, claim, send, log, retry, give up | stored with the live event, sent to APNs and Home Assistant |
| Reminders (`push_notifications.py`, `maintenance.py`) | `push_delivery_logs`, an advisory lock | sweep, once per interval and process | reads tasks and devices, sends to APNs and Home Assistant |
| Achievements (`achievement_engine.py`, `routers/achievements.py`) | outcomes, progress, unlock events | record, evaluate, claim, freeze | called by reviews and points, grants points |
| Calibration (`achievement_calibration.py`) | one row per family | created, matured and refreshed by every evaluation, applied by a parent | gates the unlocking |
| Families (`routers/families.py`, `rbac.py`) | users, members and roles | add, change, remove | roles gate every endpoint; changes lock the family row |
| Bootstrap, login (`routers/auth.py`, `login_limiter.py`) | first user; failed attempts, in memory | bootstrap, restore, login | founds the family |
| Calendar, system, migrations, configuration | rows, files, schema | reads and single writes | |

### 1.3 What is hard, and what makes each part correct

`PROJECT.json` lists the hazards with their lines; five of the forty have no property, and their
notes and section 6 say why. In short:

- **Rewards.** A request is a chain of locked reads, checks and one commit, over three
  tables and the ledger. Correct means: a reservation never exceeds the balance or the
  price, a reward has one open request, the request is decided once, every point taken is
  spent or given back exactly once, an edited price never changes what was paid for.
- **Tasks.** Parents, children and the maintenance act on one row and look at the other
  rows of the series, which nobody has locked. Correct means: approved tasks are paid for
  once, minus points are taken once per due date, a submission is not turned into a miss,
  overdue tasks roll over, a series goes on and has one current occurrence.
- **Outbox.** At-least-once delivery with a lease, to several recipients. Correct means: a
  row leaves the outbox only when everybody has the event, a resend has a reason, and no
  row stays in `processing`.
- **Live stream.** Ids are assigned before the commit and read with a cursor; the bus must
  not lose a wakeup; rows are trimmed. Correct means: a browser receives everything but what
  was trimmed or overtaken, and a revoked stream ends.
- **Front-end refresh.** Callbacks, timers, open editors and running fetches overlap.
  Correct means: what a stream has passed is shown, being loaded, known to have failed, or
  set back by a load that goes beside the refreshes.
- **Families.** The last administrator is counted before the role changes, and what a
  request may do is decided when it begins. Correct means: one household, which keeps an
  administrator.
- **Login.** The password is tried between the check and the record of a failure, outside
  every lock. Correct means: the number of guesses in a window is bounded all the same.
- **Achievements.** Every evaluation may unlock, every request of points evaluates, claims
  run beside them, and a calibration row is shared by the family. Correct means: unlocked
  and granted once; deadlocks only where the order of locks is known to be wrong; what the
  parents applied stays; both streaks count what a streak is.
- **Special tasks.** Count, then insert. Correct means: the quota holds beside other claims
  and beside edits of the template.
- **Reminders.** Sent one by one, recorded in one commit at the end, looked for in a window
  that slides. Correct means: once per device unless an alert went unrecorded, and no reminder
  falls between two windows.

## 2. The modules

| Module | Models | Checked by |
|---|---|---|
| `Rewards` | the six writing endpoints of `rewards.py`, statement by statement, and the ledger | `MCRewards`, proofs |
| `PointsEscrow` | the abstract specification: points on hold, bundled, spent or returned | implemented by `Rewards` |
| `RewardsInvariant` | the inductive invariant | `rewards_two`, proofs |
| `RewardsProofs`, `RewardsFunding` | theorems: types, safety and refinement; the sums of what is paid | TLAPS |
| `Tasks` | the task endpoints and the maintenance of one family | `MCTasks`, `TasksProofs` |
| `Outbox` | the life of outbox rows, dispatchers, provider, devices | `MCOutbox`, `OutboxProofs` |
| `LiveStream` | emitting sessions, bus, streams, trimming | `MCLiveStream`, `LiveStreamProofs` |
| `LiveClient` | the refresh logic of the tabs of one browser | `MCLiveClient`, `LiveClientProofs` |
| `Handlers` | what the next six share: finitely many threads, and whether the database has row locks | |
| `Families` | bootstrap, members and roles | `MCHousehold`, `HouseholdProofs` |
| `LoginLimiter` | the login and its limiter | `MCHousehold`, `HouseholdProofs` |
| `Achievements` | the transactions that evaluate, claim, grant and calibrate | `MCHousehold`, `AchievementsProofs` |
| `Streaks` | the rules that count periods, over the life of tasks | `MCHousehold`, `AchievementsProofs` |
| `SpecialTasks` | templates, claims and their quota | `MCHousehold`, `HouseholdProofs` |
| `Reminders` | the reminder sweep of the push workers | `MCHousehold`, `HouseholdProofs` |

The `MC` modules give values to constants; `MCHousehold` also puts six components side by
side (2.5).

### 2.1 Rewards

Tables are functions from identities to rows; an identity that is not used yet has a
blank row, a deleted one keeps a mark. `charged[x]` is what the ledger rows of one source
(contribution or redemption) took so far, `granted[u]` the sum of every other ledger row
of a child. `pc[t]`, `request[t]` and `seen[t]` are the request of thread `t`: the
statement it issues next, its parameters, and what its session has read.

One step is one SQL statement. `Start...` is the unlocked read with which a handler
begins, `Select...` are the locked reads in the order of the code (`owner` is who has the
row lock), `Refuse` is every `HTTPException` on the way, and the commits (`Contribute`,
`ContributeAndRequest`, `Redeem`, `Approve`, `Reject`, `Update`, `Delete`) write
everything from the first flush to the commit. `CanRun` makes a statement wait for a lock
on PostgreSQL and not on SQLite. `AbortDeadlocked` is the deadlock detector. `Create` and
`Adjust` have one statement and are one step. `Legacy` redemptions are those from before
points were reserved, which the review charges when it approves.

`PointsEscrow` has none of this: a hold is opened when the available points cover it,
holds are bundled into a request, a bundle is spent or returned as a whole. `Rewards`
instantiates it with `hold <- HoldView`, which reads a hold off the status and the
charged points of its source.

### 2.2 Tasks

Three steps per request: `Begin` reads and locks its rows and passes the checks
(`Permits`); `Query` takes the snapshot in which the handler searches for other rows of
the series; `Write` applies what the handler computes and commits it. What a handler
computes is an operator on a *session* (its own rows, the rows its queries find, the
ledger rows it adds), composed as the code composes it: `Approve` ends in `CreateNext`,
`Maintain` is `Penalise(Deduplicate(Rollover(Realign(s))))`. `Merged` commits column by
column, as an UPDATE does, and `Set`, `SetEach` and `With` say which columns a part of the code
assigns (a column that keeps the value that was read is not written). `Fail` is SQLAlchemy's error when a row to be updated is gone;
`AbortDeadlocked` when two sessions deactivate each other's rows. On SQLite `Query` is the
moment at which the maintenance takes the write lock: at the first row it changes, or else
with the DELETE of expired generation blocks (`routers/tasks.py:560`), which every
maintenance reaches. What it decides before that rests on the rows it read when it began;
`Reload` is the next SELECT after it, which finds what is committed. So the realignment
works on old rows, the rollover too if nothing had to be realigned, deduplication and
penalties never.

`credited` and `charged` are history variables. `charged` counts the rows of source
`task_penalty` for one due date; `Forgotten` is the edit that switches the penalty off and
sets `penalty_last_applied_at` to NULL, from which the count begins again (section 5).

Time is a counter of ticks, `TicksPerDay` to a day; `Period` gives the days between two
occurrences. Left out: flexible weekly tasks (without due date), special tasks, weekdays
on which a daily task rests, and rows without a series. The maintenance selects its rows
anew for each of its parts; with row locks `Tasks` takes them once, because what it holds
nobody else changes, and a row that somebody adds between two parts waits for the next round.

### 2.3 Outbox

A dispatcher claims the oldest due row (one step: `SKIP LOCKED`, or the claim lock), asks
for the recipients, and for each of them sends and adds a log row; the attempt ends with
removal, retry or giving up. Between any two of these steps the process may die (`Crash`;
its uncommitted log rows are gone), the database may refuse a statement, a device may be
ununregistered, and the lease may run out, upon which another process may claim the row.
The provider may also accept a push whose answer never comes (`answer`): the code cannot tell
it from a failure, logs it as one and sends again., upon which another process may claim the row.
`sends`, `lost` and `overrun` are history variables of what the provider has seen and why
a record of it may be missing (`lost` names the cause). `Faults` selects the causes a run allows.

### 2.4 LiveStream and LiveClient

`LiveStream`: a session gets an id at its flush and becomes visible at its commit, then
tells the bus. A stream checks the membership once a minute, queries beyond its cursor,
sends, and waits for the next version of the bus; a step is one critical section of the
bus or one turn of the stream between two awaits. A connection may break (`Break`) and
the browser reconnects with the last id it received. `engine` is chosen initially: on SQLite
ids are committed in their order, on PostgreSQL not necessarily.

`LiveClient`: one record per tab with the variables of `app.js` (session, EventSource,
queued request, debounce timer, running refresh). A step is one callback up to its next
await. The server is the one `LiveStream` describes for SQLite, reduced to a sequence of
changes. The cursor in `localStorage` is one variable for all tabs. Most loads go through
`refreshFamilyData`, which drops an answer that a newer request has overtaken. Some do not:
the ticker of the special tasks (`app.js:2315`), the achievements when they are opened or
claimed (5448, 5562, 5571), the balances after a gift (5584). For the domains in `Unguarded`
the model has them too: `AskDirectly` and `AnswerDirectly`, with `direct` the loads under way.
Such an answer is shown whatever was shown before; `behind` has the domains that it set back, and
those whose last refresh failed. Views that are no domain of the live stream (the
settings pages of a manager, the points history) are left out.

### 2.5 The household: six components side by side

`Families`, `LoginLimiter`, `Achievements`, `Streaks`, `SpecialTasks` and `Reminders` share
no row that one of them reads and another writes in a way their properties depend on, so
each is a specification of its own. `MCHousehold` checks them in one run: the variable
`part` names the component that moves in a behaviour, the others rest in their initial
state, and the state space is the sum of theirs. `HouseholdImplementsParts` says that such a
behaviour is one of each component.

- `Families`. A request is `BeginBootstrap`, `FindNoUser`, `Bootstrap`, or `BeginChange`
  (the unlocked reads on which its permission rests), `LockFamily`, `ExamineMember`,
  `UpdateMember` or `DeleteMember`; `create_member` takes no lock (`FindNewMember`,
  `InsertMember`). The identity map of SQLAlchemy is `own` and `seen`: who changes his
  own membership judges it as it was when the request began, and only attributes that
  differ from what was read are written.
- `LoginLimiter`. `AskRetryAfter` reads the clock, `RetryAfter` is the critical section,
  `VerifyPassword` decides and reads the clock again, `RecordFailure` or `Clear` is the
  second critical section. The clock may go on between the two halves of a call, at most
  `MaxLag`. `Evictions` is what may be evicted when there are more than `MaxKeys` keys. The
  history `guesses` has the moments of all wrong guesses for a key since it was last evicted or
  cleared. `Reach` is how far back the limit reaches: a block deletes the attempts that led to
  it, so it is the window when a block lasts a window and a lag, and less when it is shorter,
  as `config.py:161` allows.
- `Achievements`. A request (`trip`) passes through the statements that take locks:
  inserts (which lock the rows they refer to, FOR KEY SHARE), the `FOR UPDATE` of the child
  (`LockChild`) and then, in a claim, of the joined catalog entry (`LockEntry`), the write of the
  calibration, the inserted progress or event, the commit. A request that emits a live event
  may have old ones to delete (`Trim`, `services.py:109`), whose row locks it keeps as well. `Wants` says what the statement must lock, `Conflict` which modes exclude
  each other, `AbortDeadlocked` aborts one of a cycle. `seen` and `before` are the
  calibration as this session has it and as it was when it was read.
- `Streaks`. `Result(p)` is `_evaluate_period`, `CurrentStreak` and `BestStreak` are the two
  loops of `_compute_streak_progress` as folds. Tasks are assigned, moved
  to another due date (`Reschedule`: an edit, or the realignment of tomorrow's daily task),
  approved, missed and deleted around them, periods frozen, templates switched. `NewIds` gives
  out ids as the database does: on SQLite that of a deleted task again, even if it left a record.
- `SpecialTasks`. A claim is the advisory lock, the template FOR UPDATE, the count, the
  insert. The local clock runs `Offset` ticks ahead of UTC: `created_at` is stored in UTC
  and compared with local midnight, as the code does it.
- `Reminders`. Time is counted in half minutes. A sweep takes the try-lock, the devices that
  have a reminder in the window, sends to them one by one, and commits all rows at its
  end; a failure, or a device that was unregistered meanwhile, rolls all of them back.
  An alert that is shown may still be logged as failed, when the provider's answer is lost.
  `alerts`, `forgotten` and `excused` are history variables: what the devices have shown,
  how many of these alerts are not on record, whom a reminder may miss.

## 3. The runs

All runs finish within five minutes. "Violated" runs are the findings of section 5.

| Run | Question | Bounds | Expected |
|---|---|---|---|
| `rewards_locks` | Do two threads on PostgreSQL keep requests, reservations, ledger and price consistent, and implement the escrow? | 2 children, 1 shared reward, 2 redemptions, 3 contributions, 2 threads, payments of 1 or 2 points, grants of 2 or 3 | pass |
| `rewards_two` | Is the invariant of the proofs true, is nothing reserved or approved beyond the balance, with two rewards and a legacy request, and does every request end although review and contribute lock in different orders? | 1 child, 2 rewards, 2 redemptions (1 legacy), 1 contribution, 2 threads | pass |
| `rewards_sqlite` | Does the immediate reservation prevent double spending without row locks? | as `rewards_two`, `RowLocks = FALSE` | violated |
| `tasks_locks` | Are tasks paid and charged once, submissions kept, overdue tasks rolled over and duplicates removed, on PostgreSQL? | 1 daily task with penalty, 3 rows, 3 requests besides the maintenance, 2 threads, 2 days of 2 ticks, 3 edits (corrected, approved by hand, penalty of a missed task switched off) | pass |
| `tasks_series` | Does a series survive delete-instance beside an approval? | as before, 5 requests, no edits | violated |
| `tasks_sqlite` | Is a task paid once on SQLite, where the row lock of `_get_task_for_update` does nothing? | 2 rows, 4 requests, `RowLocks = FALSE` | violated |
| `outbox_faults` | Is delivery at least once, are resends explained, does every row settle, with crashes, database errors, lost answers, unregistered devices and leases that run out? | 1 row, 2 devices, 1 service, 2 process lifetimes, 2 attempts | pass |
| `outbox_withdrawn` | Is a duplicate possible only after a crash? | 1 row, 3 devices, 1 service, 1 process | violated |
| `live_stream` | Does a browser receive everything but trimmed and overtaken events, is no wakeup lost, does a revoked stream end, on both databases? | 2 sessions, 1 stream, 3 ids, batch and retention 1, 1 broken connection | pass |
| `live_client` | Does a tab show every change in the end, unless a refresh failed or an own load set it back? | 1 tab, 2 domains of which 1 is loaded on its own too, 2 changes, 2 faults, 3 visits (own loads included) | pass |
| `live_tabs` | And with a second tab? | 2 tabs, 1 domain, 1 change, no fault, no own load | violated |
| `household` | Do the six components of 2.5 keep what they promise, on PostgreSQL? | 2 threads; 3 users; 2 login keys, of which 1 is tracked, 2 attempts in a window of 2, blocked for 3; 2 children and 1 point to earn; 3 tasks, 3 periods of which 2 are scanned and 1 frozen; 3 claims, a quota of 2 at most, 2 days of 3 ticks, 1 tick of offset; 2 devices, 2 workers every half minute, 4 minutes | pass |

**Why the bounds are enough.** Interference needs two actors and one row they share, or two
rows one of them relates: two threads, two rewards, three contributions (one more than a
request needs) show every pair of handlers on the same and on different rows, in every
order of their statements. `MaxTasks = 3` is an occurrence, its successor, and one that is
created too much; three requests are enough to submit late, reject and edit. Batches,
retention and attempts are set to the smallest values at which a query is cut off, a row
trimmed, an attempt repeated. In `household` two threads meet at every statement; three users
let two administrators act on a third and on each other; one tracked key lets the other be
evicted; two scanned periods of three let one leave the scan; two days show the midnight
between a claim and its count; eight half minutes reach past the window (three) and its
reserve (two) of a reminder due at the second. The theorems of section 4 do not depend on any bound.

`rewards_locks`, `tasks_series`, `tasks_sqlite` and `household` check no liveness and use
symmetry in the identities that no constant names; in `household` the same model values
serve as the users, children, keys, rows and devices of components that never move in one
behaviour.

**Deadlock** is checked in the rewards runs and switched off in the others, where the bounded
clock, ids, changes or rows run out and the system really has nothing left to do.

**Fairness.**
- `Rewards`: strong fairness of the statements of each thread, as row locks are granted in
  the order of the requests; weak fairness of the detector, which runs after a second.
- `Outbox`: each dispatcher goes on unless it crashes (one of the processes survives), and
  time passes, so leases and delays run out.
- `LiveStream`: sessions that flushed commit or roll back; streams take their turns; time
  passes. Nothing is assumed of who breaks connections or revokes a membership.
- `LiveClient`: the browser runs its timers, its network callbacks come, an editor is
  closed in the end. A change, an action or a fault never has to happen.
- `Tasks`: stated on states, which says the same at a fraction of the cost: every thread is
  idle again and again, and the maintenance runs again and again (the worker calls it
  every `penalty_worker_interval_seconds`, and every listing does). Behaviours in which a
  session needs more rows than `MaxTasks` are left out; the liveness properties therefore
  allow for `last = MaxTasks`.

Every property of a passing run has a mutant in `PROJECT.json`: an operator in the module
that changes a modelled definition as a plausible bug would, and under which TLC finds the
property violated (row locks not taken, a refund forgotten, a cursor moved too far, a
rejected task not rolled over).

## 4. The proofs

TLC checks one small instance, the theorems hold for every one: any number of children,
rewards, tasks, series, rows, threads, sessions, streams, tabs, devices, dispatchers, keys,
periods and events, any prices, edits and bounds. Every invariant and every action property
that a passing run checks is the conclusion of a theorem. They assume what the modules assume
of their constants (types and disjointness; for the sums, that a table has finitely many rows;
for what requests add up to, that the server has finitely many threads) and what the last
column says. "Row locks" is `RowLocks`, that is, PostgreSQL: on SQLite the properties that need
them are false (`rewards_sqlite`, `tasks_sqlite`) or not claimed.

| Theorem | Says | Assumes |
|---|---|---|
| `RewardsProofs!TypeCorrect` | `Spec => []TypeOK`, on both databases | |
| `RewardsProofs!SafeAlways` | the inductive invariant `Safe` | row locks |
| `RewardsProofs!OnePending` | one open request per reward | row locks |
| `RewardsProofs!LedgerAlwaysSettled` | the ledger agrees with every status | row locks |
| `RewardsProofs!ReviewedOnceAlways` | a decision is final | row locks |
| `RewardsProofs!PriceFrozenAlways` | price, kind and existence are frozen while points are reserved | row locks |
| `RewardsProofs!ReservationsCoveredAlways` | no commit reserves more than the balance | row locks |
| `RewardsProofs!Refines` | `Spec => Escrow!Spec` | row locks |
| `RewardsFunding!SolventAlways` | the inductive invariant of the sums | row locks |
| `RewardsFunding!NeverOverReservedAlways` | contributions never exceed the price | row locks |
| `RewardsFunding!SubmittedAlwaysFunded` | behind an open request the contributions are the price, exactly | row locks |
| `RewardsFunding!ApprovedAlwaysPaid` | what is approved has been paid in full | row locks |
| `TasksProofs!TypeCorrect` | ids are handed out without gaps, recurring rows have a series and a due date | row locks |
| `TasksProofs!PaidOnceAlways` | a task is paid for when it is approved, and once | row locks |
| `TasksProofs!ChargedOnceAlways` | the minus points of one due date are taken once | row locks |
| `TasksProofs!SubmissionAlwaysKept` | only an edit makes a submission a miss | row locks |
| `OutboxProofs!TypeCorrect` | `Spec => []TypeOK` | |
| `OutboxProofs!RemovedIsAlwaysDelivered` | a row that is removed has reached everybody it was for | |
| `OutboxProofs!ResendsAreExplained` | a resend is the price of a sending that went unrecorded or of a lease that ran out | |
| `LiveStreamProofs!TypeCorrect` | `Spec => []TypeOK`, on both databases | |
| `LiveStreamProofs!NothingSkipped` | on both databases, what a browser has passed it received, or it was trimmed or overtaken | |
| `LiveStreamProofs!NeverOversleeps` | on both databases, no stream sleeps over an announced event | |
| `LiveClientProofs!TypeCorrect` | `Spec => []TypeOK`, any number of tabs | |
| `LiveClientProofs!QueuedAlwaysServed` | a queued refresh has somebody who will serve it, any number of tabs | |
| `LiveClientProofs!PassedAlwaysShown` | what the stream has passed is shown, being loaded, failed, or set back by an own load | one tab (`live_tabs` shows why) |
| `AchievementsProofs!AwardedOnceAlways` | achievements are unlocked once and granted once | row locks |
| `AchievementsProofs!DeadlocksAlwaysExplained` | every deadlock, of any size, has a request that asks for locks in the order known to be wrong, or that trims live events beside another that has | |
| `AchievementsProofs!ApplicationLostAlwaysExplained` | what the parents applied is lost only to a session that read the calibration before | row locks |
| `AchievementsProofs!AchievementsTypeCorrect` | `AchievementsSpec => []AchievementsTypeOK`, on both databases | |
| `AchievementsProofs!StreaksAlwaysReference` | on both databases, the two loops over the periods count what the current and the best streak are | |
| `AchievementsProofs!StreaksTypeCorrect` | `StreaksSpec => []StreaksTypeOK`, on both databases | |
| `AchievementsProofs!StreakFallsAlwaysExplained` | a current streak falls only for a reason | row locks (PostgreSQL, where ids are not given out again) |
| `HouseholdProofs!FamiliesTypeCorrect` | `FamiliesSpec => []FamiliesTypeOK`, on both databases | |
| `HouseholdProofs!GovernedAlways` | one household, which keeps an administrator | row locks |
| `HouseholdProofs!QuotaAlwaysKept` | no claim beyond the quota, none from an inactive template | row locks |
| `HouseholdProofs!SpecialTypeCorrect` | `SpecialSpec => []SpecialTypeOK`, on both databases | |
| `HouseholdProofs!GuessesAlwaysBounded` | the wrong guesses for a key since it was last evicted or cleared are bounded, within `Reach` | |
| `HouseholdProofs!RemindedOnceAlways` | on both databases, a second reminder is the price of an alert that is not on record | |
| `HouseholdProofs!RemindersTypeCorrect` | `RemindersSpec => []RemindersTypeOK` | |
| `HouseholdProofs!MissedAlwaysExplained` | no reminder falls between two sweeps | a worker runs (`Threads # {}`) |
| `HouseholdProofs!HouseholdImplementsParts` | `HouseholdSpec` implies the specifications of its six components | |
| `HouseholdProofs!HouseholdTypeCorrect` | `HouseholdSpec => []HouseholdTypeOK`, on both databases | |

**The argument for `Rewards`.** None of these properties is inductive: a session commits on the strength
of what it read several statements ago. `Safe` (in `RewardsInvariant`) adds the reason why
that is still true:

- `WellFormed`: types, rows refer to existing rows, and each `pc` says what a thread has
  read (`Local`). Inductive by itself, without row locks; `TypeCorrect` follows from it.
- `Born`: whatever refers to a reward refers to one that was created.
- `Held`: at each `pc`, which row locks a thread has: the redemption from the first statement
  of a review on, the reward from the second, the child before a commit that spends.
- `Current`: what the thread has found out still holds: no request is pending, the
  contributions it read are those linked now, the balance covers what it needs. A step of
  another thread cannot change this without a lock that `Held` gives to this one.
- `LedgerSettled` and `AtMostOnePending`, which need the rest when a session commits.

`NextSafe` has a lemma per commit; statements that only read are covered together
(`SelectSafe`), because they change nothing but their own thread. The action properties
follow from `Safe` and from `Writers`, which says which commits touch a redemption.
`Refines` maps each commit to one escrow step (`Contribute` to `Open`,
`ContributeAndRequest` and `Redeem` to `OpenBundle`, `Approve` to `Spend`, `Reject` to
`Return`, `Adjust` to `Grant`) and every other step to a stutter; `Current` supplies the
guards, and `AvailableIsBalance` identifies the available points with the balance.

**The sums** (`RewardsFunding`). `Solvent` adds to `Safe`: the active contributions to a reward do
not exceed its price; those that are submitted are all the active ones, belong to one open
request, and add up to the price (`OpenOrSubmitted`); and a session that has locked a reward
knows its price and, before it contributes, the rows that are active now (`Informed`). The
commits add one summand (`Contribute`), move all of them to another status
(`ContributeAndRequest`, `Reject`, `Approve`), or compare a new price with the sum
(`Update`). What a sum over a finite set is, and what happens to it when one summand
changes, is proved first, from the definition of the fold in the community modules, by
induction over the natural numbers (`NatSetInduction`).

**The argument for `Tasks`** (`Inv`). `Locking`: a request that has begun holds its rows, they
still permit it (`Fits`), and they are as it read them. `ChargesKept`: a charge is remembered
in the row until its due date changes. What a commit writes is computed by composed operators,
so the proof follows them: `GoodAt(s, O, i)` says what must hold of the row `i` of a session
`s` when it commits (paid if and only if it becomes approved, charged only for a due date
after the last one), `GoodBut(s, O, E)` that all rows but those in `E` are good, and there is
a lemma for each function of the code (`CreateNextGood`, `ApproveGood`, `DeleteGood`,
`ReviewMissedGood`, `DeactivateGood`, `UpdateGood`; `RealignQuiet`, `RolloverQuiet`, `DeduplicateQuiet`,
`PenaliseGood`). Rollover and the review of all missed tasks are folds; their proofs go by
induction over the finite set of rows. `OutcomeGood` puts them together for every request, and
`WriteRows` says what of it reaches the tables: the rows that were locked as they were
computed, other rows only with `is_active` switched off.

**The argument for `Outbox`.** `WellFormed`: what an attempt holds at each statement. `Thorough`: an
attempt that has not failed has, for everybody the event is for, either sent it, or has him
still to serve or under way, so that removing the row loses nobody. `Careful`: a row whose
lease never ran out has one worker, and the provider has accepted an event for a device at
most once more than is on record, the difference being what that worker has not yet recorded.
A sending whose answer is lost leaves this account at once, as `lost`.

**The argument for `LiveClient`.** `Tidy`: a queued refresh has a timer, a running refresh or
an open editor behind it. `Loyal`, for one tab: every change up to the last event that was
passed is in the view, in the running refresh, queued, or its domain is `behind`. A load beside the
refreshes keeps this, because what it takes out of the view it puts there; a refresh that
succeeds removes its domains, and brings everything that was passed before it began. A second
tab breaks it by moving the shared cursor.

**The argument for `LiveStream`** (`Followed`). `Numbered`: an id that will be committed was
never committed before, and on SQLite it is above all that were; this needs that the newest
row is never trimmed. `Attentive`: a stream that sends, whose version is still the current
one and whose query was not cut off, has everything announced beyond its cursor in its
batch, because whatever is announced moves the version; a stream that waits without a
signal is among the waiters and has nothing left. `Gapless`: up to the last id received
everything committed is explained, and before a row of the batch nothing is missing that is
not in the batch; a query keeps this because it takes the lowest ids, a commit because its
id is new and therefore either the highest or `late`.

**The arguments for the household.**
- `Families` (`GovernedSafely`): who is about to take an admin role away has found another
  administrator and holds the family row, which every such request locks first; the
  bootstrap holds its advisory lock from the search for a user to its commit.
- `Achievements` (`Promised`): each request's copy of the progress was read under the lock of
  the child, which it still has, so nobody committed another one since; locks of different
  threads are compatible; copy, events and grants of the request add up to what its commit
  makes of the row. `Orderly` is the order in which requests take locks; a set of requests
  that wait for each other, and of which none breaks it, would have to climb that order
  in a circle, whatever its size. `AllInformed`: who writes the calibration has it as it is
  committed, or read it before the parents applied theirs.
- `SpecialTasks` (`Guarded`): a claim that has counted holds the window of template and child
  and the template's row, so the row is as it was and the child got no task since; what
  happens to claimed tasks, and the clock passing midnight, can only free places.
- `Reminders` (`Accounted`): one worker has the lock; the devices it has yet to serve have no
  record; for each device the reminders shown are those on record and those whose record
  was lost. Neither row locks nor the clock matter. `Punctual` adds the clock: a device that
  is still to be reminded is ahead of a sweep that began in the window, or no sweep has begun
  in it and every worker wakes before it ends.
- `LoginLimiter` (`LimitKept`). The guesses of the last window are bounded neither by what the
  limiter remembers of a key (nothing, once it is blocked) nor by the requests under way, but
  by both together: `Limited(k)` has the guesses in the window and the requests past the check
  (`Guessing(k)`) at most `Attempts + Cardinality(Threads) - 1`. A request passes the check only
  when the key is not blocked, and then `Remembered(k)` says that the state of the key has
  every guess of the window, fewer than `Attempts`. This holds because pruning with an old
  clock removes only what has left the window, the account of a key that is evicted or cleared
  begins anew with its state, and a block that is over began longer ago than `Reach`, however
  block and window are set; `Prompt(t)` bounds how old the clock of a call is.
- `Streaks`. The loops are folds over sequences; `CountingSteps` and `RollingSteps` turn a
  fold into a function `h` on `0..Scan`, where `h[m + 1]` follows from `h[m]` and the result of
  one more period. Induction along `h` shows that the first loop has counted `Winning(m)`, the
  periods won since the last one lost among the `m` latest, and that `Best` holds of the
  second: `rolling` is the row that is still open at the oldest period seen, and no unbroken
  row among those seen is longer than `best`. This needs only that the period is in range.
  `StreakFallsExplained` also needs `Mirrored`: a task is approved exactly if its outcome is
  recorded, under the same due date. So deleting a task takes nothing from the results of the
  periods, an approval loses none unless it is not early where that counts, and moving an open
  task can only spoil the period it is moved into; `Standing`, the
  periods that the streak counts, can then shrink only for one of the reasons.
- Types. Those of `Families`, `Achievements`, `Streaks` and `SpecialTasks` hold on SQLite too, where the
  inductive invariants of their properties do not: they have proofs of their own, without row
  locks. `Shaped`, for `Achievements`, adds that what a child has earned and the posts under way
  (`Posting`) stay within the bound.
- The household. `HouseholdImplementsParts` is a refinement: a step that moves one component
  is a stutter of the others. `HouseholdTypeCorrect` collects the types through it.

**Only model-checked**:
- Liveness everywhere (`RequestsEnd`, `RolledOver`, `DuplicatesVanish`, and the settling of rows,
  streams and views): liveness under fairness and `ENABLED` are out of this prover's reach.
- The runs in which a property is violated. Of what is proved, only the types and the theorems
  about `Outbox`, `LiveStream`, `LoginLimiter`, `Reminders`, `StreaksAlwaysReference` and the deadlocks
  of `Achievements` cover SQLite; about `Tasks` on SQLite nothing is proved.

## 5. Findings

1. `rewards_sqlite`: on SQLite two requests of one child on two rewards both pass the
   balance check before either reserves (`routers/rewards.py:458`, against its comment).
2. `outbox_withdrawn`: a device that unregisters between the recipients' query and its log
   row makes the insert fail and takes the records of the other devices with it, so that
   they are notified again, although no process and no commit failed as the comment in
   `notification_dispatcher.py` has it.
3. `live_tabs`: a tab that is still loading adopts the cursor another tab has stored and
   stays stale until the next event of the domain (`web/static/app.js:2279`).
4. `tasks_series`: deleting an instance while its successor is approved ends the series:
   each session takes the other's row for the next occurrence (`routers/tasks.py:719`).
5. `tasks_sqlite`: on SQLite `_get_task_for_update` (`routers/tasks.py:259`) serialises nothing. A
   submission that read the open task before a parent submitted and approved it sets the
   paid task back to submitted, from where it can be approved and paid again, against
   `CHANGELOG.md:17`, which calls mutations of tasks serialised.

Observed while modelling, without a sentence of the repository that says otherwise:

- `routers/tasks.py:1355`: an edit that switches the penalty of a task off also forgets for which due
  date it was taken. If the due date stays and the task is missed (it was edited as a missed,
  inactive one, or is reported as missed later), a parent can take the minus points of that due
  date again. Without `Forgotten` TLC finds this in `tasks_locks`.
- `login_limiter.py` forgets the attempts that led to a block when the block begins. The default
  block outlasts the window (600 and 300 seconds); `config.py:161` allows a shorter one, after
  which the key has its full number of attempts again although the window of the old ones is
  not over. `GuessesBounded` then reaches back to the beginning of the block only (`Reach`).
- `push_notifications.py:177` and `:295`: a provider that accepts a push and whose answer is lost is
  taken for one that failed, so the retry, or the next sweep, shows the notification again.
  `ResendsExplained` and `RemindedOnce` allow for it.
- `web/static/app.js:2315`, `:5448`, `:5562`, `:5571`, `:5584`: loads beside `refreshFamilyData` are not
  compared with newer ones. A slow answer overwrites a newer view, which stays so until the next
  event of the domain. `PassedIsShown` and `EventuallyShown` allow for it in these domains.
- `services.py:109`: requests that trim live events lock the same old rows, in transactions that
  wait for other rows as well: one more way into the deadlocks of `DeadlocksExplained`.
- `achievement_engine.py:100` on SQLite: the id of a deleted task is given out again, and the outcome of
  the new task overwrites the record of the old one. `StreakFallsExplained` is therefore stated
  for PostgreSQL only.
- `routers/tasks.py:328` compares `created_at` (UTC) with local midnight, so that what a child
  claims in the first hours of a day east of Greenwich counts for the day before. `QuotaKept`
  states the quota as the code counts it.
- `routers/families.py:247` lets the only administrator deactivate himself; `Admins` counts
  roles, as the code does.

## 6. Not modelled, and why

- **Read-only endpoints** (listings, statistics): they change nothing. The listing of tasks,
  which runs the maintenance, is modelled.
- **Calendar events, configuration**: single-row writes without a rule that spans steps.
  Devices that register and unregister are modelled as far as `Outbox` and `Reminders`
  meet them.
- **Database tools, backup, restore, migrations, provider protocols**: other programs, files and
  the network. That event ids may begin below the browsers' cursors after a restore
  (`db_tools.py:381`) is therefore seen nowhere.
- **Calibration arithmetic and the rules that compare one number** (`achievement_calibration.py`,
  most of `achievement_engine.py`): functions of aggregates; `Achievements` has their
  transactions, `Streaks` the two rules that look back.
- **Flexible weekly tasks** and month arithmetic (`routers/tasks.py:179`, where adding months
  moves the due day for good).
- **Modelled, but without a property of their own**: an edit that sends a status which is out
  of date (`routers/tasks.py:1357`; `Tasks` lets an edit send any status, what the form was
  opened with is not in the model), a series that is deactivated beside an insert
  (`routers/tasks.py:812`), a reward that SQLite deletes between the statements of a request
  on it (`routers/rewards.py:275`).
- **The maintenance sweep over several families** (`maintenance.py:121`): `Tasks` has one family.
- **Names and preferences** of members (`routers/families.py:143`); an administrator who
  deactivates himself without changing his role (`routers/families.py:247`) is in `Families`
  as an inactive administrator, whom the property counts.
- **Authorisation** per endpoint: a guard on a role read once at the start. What a stream
  does when the role is taken away is in `LiveStream`.
- **Durations**: where time matters it is counted in ticks or half minutes; how long SQLite's
  write lock is held while a provider is called appears nowhere.
- Not yet: the parts in the plan below.

## 7. Plan

Done: `Rewards`, `Outbox`, `LiveStream`, `LiveClient` and `Tasks` (one family; daily, weekly and
monthly tasks with a due date) with their proofs; the six components of the household with
theirs, and their composition. What is left, in the order of importance:

1. `WeeklyTasks`: flexible weekly tasks, generation blocks, the week boundary; an abstract
   `Series` (one current occurrence, each settled once) that `Tasks` should implement when
   the rows of a series are locked together.
2. Pure functions against a reference: `_add_months`, `_next_due` with weekdays, calibration.
3. The household on SQLite, where the advisory locks and row locks of 2.5 do not exist.

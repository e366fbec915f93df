------------------------------- MODULE Outbox -------------------------------
(***************************************************************************)
(* The outbox of remote notifications and the dispatchers that empty it.   *)
(*                                                                         *)
(* An endpoint stores an outbox row in the transaction of its live event.  *)
(* A dispatcher claims the oldest row that is due, sends the event to each *)
(* recipient, logs every answer, and removes the row or puts it back for a *)
(* later attempt.  One step is one statement of a dispatcher's session or  *)
(* one call to the push provider; the rows a session wrote become visible  *)
(* when it commits.  Crashes, failing statements, devices that unregister  *)
(* and leases that run out happen between any two steps.                   *)
(*                                                                         *)
(* The wakeup that a commit sends to the dispatcher is left out: the loop  *)
(* polls every second anyway.  The trimmed live event is left out too: the *)
(* row has a copy of it.  SKIP LOCKED makes a claim one step; on SQLite a  *)
(* single dispatcher runs, under the claim lock.                           *)
(***************************************************************************)
EXTENDS Integers, FiniteSets, FiniteSetsExt

CONSTANTS Events,       \* ids of outbox rows, in the order of their creation
          Devices,      \* push_devices rows
          Services,     \* Home Assistant notify services of users
          Fresh,        \* devices seen in the last 45 days
          Processes,    \* lifetimes of dispatcher processes, in the order they begin
          MaxAttempts,  \* _MAX_ATTEMPTS
          Faults,       \* what goes wrong
          None

Causes == {"crash", "database", "withdrawn", "lease", "answer"}

ASSUME OutboxAssumption ==
  /\ Events \subseteq Nat
  /\ Processes \subseteq Nat
  /\ Fresh \subseteq Devices
  /\ Devices \intersect Services = {}
  /\ MaxAttempts \in Nat \ {0}
  /\ Faults \subseteq Causes
  /\ None \notin Events \union Devices \union Services \union Processes

VARIABLES outbox,      \* the remote_notification_outbox table
          log,         \* the delivery logs of devices and services
          registered,  \* devices and services that want notifications
          channel,     \* the notification channel of the family
          pc,          \* where a dispatcher is
          attempt,     \* its job and its session
          sends,       \* history: notifications the provider accepted, at most 2
          lost,        \* history: why an accepted notification first went unrecorded
          overrun      \* history: rows whose lease ran out under a working dispatcher

session == <<pc, attempt>>
vars == <<outbox, log, registered, channel, pc, attempt, sends, lost, overrun>>

-----------------------------------------------------------------------------
(* Types *)

Targets == Devices \union Services

Row == [status: {"none", "pending", "processing", "retry", "dead", "deleted"},
        attempts: 0..MaxAttempts, by: Processes \union {None},
        due: BOOLEAN, stale: BOOLEAN]

NoRow == [status |-> "none", attempts |-> 0, by |-> None, due |-> FALSE, stale |-> FALSE]

(* left: recipients still to be served; delivered, refused: log rows that  *)
(* are not committed yet; unknown: devices the provider no longer knows;   *)
(* failed: failed_count is not zero.                                       *)
Attempt == [event: Events \union {None}, left: SUBSET Targets,
            target: Targets \union {None}, answer: {"none", "accepted", "refused", "unknown"},
            delivered: SUBSET Targets, refused: SUBSET Targets, unknown: SUBSET Devices,
            failed: BOOLEAN]

NoAttempt == [event |-> None, left |-> {}, target |-> None, answer |-> "none",
              delivered |-> {}, refused |-> {}, unknown |-> {}, failed |-> FALSE]

(* "apns_unset": APNs without credentials.  "ha_inactive": Home Assistant, *)
(* and one recipient is a user who is no longer active in the family.      *)
Channels == {"sse", "apns", "apns_unset", "home_assistant", "ha_inactive"}

PCs == {"down", "polling", "loading", "dispatching", "sending", "recording", "marking", "crashed"}

TypeOK ==
  /\ outbox \in [Events -> Row]
  /\ log \in [Targets \X Events -> {"none", "sent", "failed"}]
  /\ registered \subseteq Targets
  /\ channel \in Channels
  /\ pc \in [Processes -> PCs]
  /\ attempt \in [Processes -> Attempt]
  /\ sends \in [Targets \X Events -> 0..2]
  /\ lost \in [Targets \X Events -> {"none"} \union Causes]
  /\ overrun \subseteq Events

-----------------------------------------------------------------------------
(* Recipients of an event, by channel.  Old devices count only when no     *)
(* recipient has a fresh one.                                              *)
EligibleDevices ==
  IF registered \intersect Fresh # {} THEN registered \intersect Fresh
  ELSE registered \intersect Devices

Recipients ==
  CASE channel = "apns" -> EligibleDevices
    [] channel \in {"home_assistant", "ha_inactive"} -> registered \intersect Services
    [] OTHER -> {}

(* Mutant: a lease that ran out is never taken over. *)
EligibleNeverStale(e) == outbox[e].status \in {"pending", "retry"} /\ outbox[e].due

(* The rows a dispatcher may claim. *)
Eligible(e) ==
  \/ outbox[e].status \in {"pending", "retry"} /\ outbox[e].due
  \/ outbox[e].status = "processing" /\ outbox[e].stale

Oldest(e) == Eligible(e) /\ \A f \in Events : Eligible(f) => e <= f

(* Log rows that p's session has written and not committed. *)
Uncommitted(p) == attempt[p].delivered \union attempt[p].refused

(* Notifications of p that were accepted and are not on record yet. *)
Unrecorded(p) ==
  attempt[p].delivered
  \union (IF attempt[p].answer = "accepted" THEN {attempt[p].target} ELSE {})

Working(p) == pc[p] \in {"loading", "dispatching", "sending", "recording", "marking"}

-----------------------------------------------------------------------------
(* emit_live_event: the row is committed with the business change. *)
Emit(e) ==
  /\ outbox[e].status = "none"
  /\ \A f \in Events : f < e => outbox[f].status # "none"
  /\ outbox' = [outbox EXCEPT ![e] = [NoRow EXCEPT !.status = "pending", !.due = TRUE]]
  /\ UNCHANGED <<log, registered, channel, session, sends, lost, overrun>>

(* start_remote_dispatcher *)
StartDispatcher(p) ==
  /\ pc[p] = "down"
  /\ \A q \in Processes : q < p => pc[q] # "down"
  /\ pc' = [pc EXCEPT ![p] = "polling"]
  /\ UNCHANGED <<outbox, log, registered, channel, attempt, sends, lost, overrun>>

(* Mutant: a row that used up its attempts is claimed once more. *)
ClaimUnbounded(p) ==
  /\ pc[p] = "polling"
  /\ \E e \in Events :
       /\ Oldest(e)
       /\ outbox' = [outbox EXCEPT ![e] = [status |-> "processing", attempts |-> @.attempts + 1,
                                           by |-> p, due |-> FALSE, stale |-> FALSE]]
       /\ attempt' = [attempt EXCEPT ![p] = [NoAttempt EXCEPT !.event = e]]
  /\ pc' = [pc EXCEPT ![p] = "loading"]
  /\ UNCHANGED <<log, registered, channel, sends, lost, overrun>>

(* _claim_next_outbox_job_in_session *)
Claim(p) ==
  /\ pc[p] = "polling"
  /\ \E e \in Events :
       /\ Oldest(e)
       /\ outbox[e].attempts < MaxAttempts
       /\ outbox' = [outbox EXCEPT ![e] = [status |-> "processing", attempts |-> @.attempts + 1,
                                           by |-> p, due |-> FALSE, stale |-> FALSE]]
       /\ attempt' = [attempt EXCEPT ![p] = [NoAttempt EXCEPT !.event = e]]
  /\ pc' = [pc EXCEPT ![p] = "loading"]
  /\ UNCHANGED <<log, registered, channel, sends, lost, overrun>>

(* ... and a row whose last attempt never reported back. *)
GiveUp(p) ==
  /\ pc[p] = "polling"
  /\ \E e \in Events :
       /\ Oldest(e)
       /\ outbox[e].attempts >= MaxAttempts
       /\ outbox' = [outbox EXCEPT ![e] = [@ EXCEPT !.status = "dead", !.by = None, !.stale = FALSE]]
  /\ UNCHANGED <<log, registered, channel, session, sends, lost, overrun>>

Leave(p) ==
  /\ pc' = [pc EXCEPT ![p] = "polling"]
  /\ attempt' = [attempt EXCEPT ![p] = NoAttempt]

Owns(p) == /\ outbox[attempt[p].event].status = "processing"
           /\ outbox[attempt[p].event].by = p

(* _process_job: the row must still be leased to p; then the recipients    *)
(* are read.                                                               *)
Load(p) ==
  /\ pc[p] = "loading"
  /\ \/ /\ Owns(p)
        /\ pc' = [pc EXCEPT ![p] = "dispatching"]
        /\ attempt' = [attempt EXCEPT ![p].left = Recipients,
                                      ![p].failed = channel \in {"apns_unset", "ha_inactive"}]
     \/ ~Owns(p) /\ Leave(p)
  /\ UNCHANGED <<outbox, log, registered, channel, sends, lost, overrun>>

(* The next recipient: skipped when a delivery is on record.               *)
NextRecipient(p) ==
  /\ pc[p] = "dispatching"
  /\ \E t \in attempt[p].left :
       IF log[<<t, attempt[p].event>>] = "sent"
       THEN /\ attempt' = [attempt EXCEPT ![p].left = @ \ {t}]
            /\ UNCHANGED pc
       ELSE /\ attempt' = [attempt EXCEPT ![p].left = @ \ {t}, ![p].target = t]
            /\ pc' = [pc EXCEPT ![p] = "sending"]
  /\ UNCHANGED <<outbox, log, registered, channel, sends, lost, overrun>>

(* send_alert, send_notify: what the provider does, and what the           *)
(* dispatcher makes of it.  When the answer of a provider that took the    *)
(* notification is lost, a timeout say, the exception counts as a refusal. *)
Send(p) ==
  LET t == attempt[p].target  pair == <<t, attempt[p].event>> IN
  /\ pc[p] = "sending"
  /\ \E answer \in {"accepted", "refused", "unknown"}, taken \in BOOLEAN :
       /\ answer = "unknown" => t \in Devices
       /\ CASE answer = "accepted" -> taken
            [] answer = "refused" -> taken => "answer" \in Faults
            [] answer = "unknown" -> ~taken
       /\ attempt' = [attempt EXCEPT ![p].answer = answer]
       /\ sends' = IF taken /\ sends[pair] < 2 THEN [sends EXCEPT ![pair] = @ + 1] ELSE sends
       /\ lost' = IF taken /\ answer # "accepted" /\ lost[pair] = "none"
                  THEN [lost EXCEPT ![pair] = "answer"] ELSE lost
  /\ pc' = [pc EXCEPT ![p] = "recording"]
  /\ UNCHANGED <<outbox, log, registered, channel, overrun>>

(* Sessions whose locks p's next statement waits for: an insert waits for  *)
(* an uncommitted row of the same key, the delete of a device for          *)
(* uncommitted rows that refer to it.  The deletes are flushed by the next *)
(* query of the session; here they follow the last recipient.              *)
WaitsFor(p) ==
  {q \in Processes \ {p} :
     \/ /\ pc[p] = "recording" /\ attempt[q].event = attempt[p].event
        /\ attempt[p].target \in Uncommitted(q)
     \/ /\ pc[p] = "dispatching" /\ attempt[p].left = {}
        /\ attempt[p].unknown \intersect Uncommitted(q) # {}}

(* The session is rolled back: what it recorded is forgotten.              *)
RollBack(p, cause) ==
  /\ lost' = [pair \in Targets \X Events |->
                IF pair[1] \in Unrecorded(p) /\ pair[2] = attempt[p].event
                   /\ lost[pair] = "none"
                THEN cause ELSE lost[pair]]
  /\ attempt' = [attempt EXCEPT ![p] = [NoAttempt EXCEPT !.event = attempt[p].event]]

(* _record_delivery, _record_ha_delivery *)
Record(p) ==
  LET a == attempt[p]  t == attempt[p].target IN
  /\ pc[p] = "recording" /\ WaitsFor(p) = {}
  /\ ~(t \in Devices /\ t \notin registered)
  /\ attempt' = [attempt EXCEPT ![p] =
       [a EXCEPT !.target = None, !.answer = "none",
                 !.delivered = IF a.answer = "accepted" THEN @ \union {t} ELSE @,
                 !.refused = IF a.answer = "accepted" THEN @ ELSE @ \union {t},
                 !.unknown = IF a.answer = "unknown" THEN @ \union {t} ELSE @,
                 !.failed = @ \/ a.answer # "accepted"]]
  /\ pc' = [pc EXCEPT ![p] = "dispatching"]
  /\ UNCHANGED <<outbox, log, registered, channel, sends, lost, overrun>>

(* The device is gone: the log row violates its foreign key and the        *)
(* exception ends the attempt.                                             *)
RecordFails(p) ==
  /\ pc[p] = "recording" /\ WaitsFor(p) = {}
  /\ attempt[p].target \in Devices \ registered
  /\ RollBack(p, "withdrawn")
  /\ pc' = [pc EXCEPT ![p] = "marking"]
  /\ UNCHANGED <<outbox, log, registered, channel, sends, overrun>>

LogOf(p) ==
  [pair \in Targets \X Events |->
     IF pair[2] # attempt[p].event THEN log[pair]
     ELSE IF pair[1] \in attempt[p].delivered THEN "sent"
     ELSE IF pair[1] \in attempt[p].refused THEN "failed"
     ELSE log[pair]]

Served(p) == pc[p] = "dispatching" /\ attempt[p].left = {} /\ WaitsFor(p) = {}

(* Every recipient was served: the row is deleted with the log rows. *)
Complete(p) ==
  /\ Served(p)
  /\ ~attempt[p].failed
  /\ log' = LogOf(p)
  /\ outbox' = [outbox EXCEPT ![attempt[p].event] = [NoRow EXCEPT !.status = "deleted"]]
  /\ Leave(p)
  /\ UNCHANGED <<registered, channel, sends, lost, overrun>>

(* Mutant: the exception is raised before the log rows are committed. *)
FailWithoutLog(p) ==
  /\ Served(p)
  /\ attempt[p].failed
  /\ pc' = [pc EXCEPT ![p] = "marking"]
  /\ attempt' = [attempt EXCEPT ![p] = [NoAttempt EXCEPT !.event = attempt[p].event]]
  /\ UNCHANGED <<outbox, log, registered, channel, sends, lost, overrun>>

(* Mutant: the row is deleted although a recipient was not reached. *)
FailAndDelete(p) ==
  /\ Served(p)
  /\ attempt[p].failed
  /\ log' = LogOf(p)
  /\ registered' = registered \ attempt[p].unknown
  /\ outbox' = [outbox EXCEPT ![attempt[p].event] = [NoRow EXCEPT !.status = "deleted"]]
  /\ Leave(p)
  /\ UNCHANGED <<channel, sends, lost, overrun>>

(* Some recipient was not reached: the log rows are kept, devices unknown  *)
(* to the provider are deleted, the attempt has failed.                    *)
Fail(p) ==
  /\ Served(p)
  /\ attempt[p].failed
  /\ log' = LogOf(p)
  /\ registered' = registered \ attempt[p].unknown
  /\ pc' = [pc EXCEPT ![p] = "marking"]
  /\ attempt' = [attempt EXCEPT ![p] = [NoAttempt EXCEPT !.event = attempt[p].event]]
  /\ UNCHANGED <<outbox, channel, sends, lost, overrun>>

(* _mark_job_failed, in a session of its own. *)
MarkFailed(p) ==
  LET e == attempt[p].event
      exhausted == outbox[e].attempts >= MaxAttempts
  IN
  /\ pc[p] = "marking"
  /\ outbox' = IF ~Owns(p) THEN outbox
               ELSE [outbox EXCEPT ![e] =
                       [@ EXCEPT !.status = IF exhausted THEN "dead" ELSE "retry",
                                 !.by = None, !.stale = FALSE]]
  /\ Leave(p)
  /\ UNCHANGED <<log, registered, channel, sends, lost, overrun>>

-----------------------------------------------------------------------------
(* Time and faults *)

(* available_at is reached. *)
RetryDue(e) ==
  /\ outbox[e].status = "retry" /\ ~outbox[e].due
  /\ outbox' = [outbox EXCEPT ![e].due = TRUE]
  /\ UNCHANGED <<log, registered, channel, session, sends, lost, overrun>>

(* locked_at is _LEASE_SECONDS ago.  A dispatcher that is still at work on *)
(* the row is that slow only as a fault.                                   *)
AtWork(e) == {p \in Processes : Working(p) /\ attempt[p].event = e}

LeaseRunsOut(e) ==
  /\ outbox[e].status = "processing" /\ ~outbox[e].stale
  /\ outbox[e].by \in AtWork(e) => "lease" \in Faults
  /\ outbox' = [outbox EXCEPT ![e].stale = TRUE]
  /\ overrun' = IF outbox[e].by \in AtWork(e) THEN overrun \union {e} ELSE overrun
  /\ UNCHANGED <<log, registered, channel, session, sends, lost>>

(* unregister_push_device, the deletion of stale devices in                *)
(* register_push_device, a user without notify service: a device row is    *)
(* locked while uncommitted log rows refer to it.                          *)
Withdraw(t) ==
  /\ "withdrawn" \in Faults
  /\ t \in registered
  /\ t \in Devices => \A p \in Processes : t \notin Uncommitted(p)
  /\ registered' = registered \ {t}
  /\ UNCHANGED <<outbox, log, channel, session, sends, lost, overrun>>

(* A statement fails.  A failing _mark_job_failed leaves the lease. *)
StatementFails(p) ==
  /\ "database" \in Faults
  /\ \/ /\ pc[p] \in {"loading", "dispatching", "recording"}
        /\ RollBack(p, "database")
        /\ pc' = [pc EXCEPT ![p] = "marking"]
     \/ pc[p] = "marking" /\ Leave(p) /\ UNCHANGED lost
  /\ UNCHANGED <<outbox, log, registered, channel, sends, overrun>>

(* The server breaks a cycle of waiting sessions. *)
AbortDeadlocked(p) ==
  /\ \E q \in WaitsFor(p) : p \in WaitsFor(q)
  /\ RollBack(p, "database")
  /\ pc' = [pc EXCEPT ![p] = "marking"]
  /\ UNCHANGED <<outbox, log, registered, channel, sends, overrun>>

(* The process dies; its worker id is never used again.  Bound: one        *)
(* process survives.                                                       *)
Crash(p) ==
  /\ "crash" \in Faults
  /\ pc[p] \notin {"down", "crashed"}
  /\ \E q \in Processes \ {p} : pc[q] # "crashed"
  /\ RollBack(p, "crash")
  /\ pc' = [pc EXCEPT ![p] = "crashed"]
  /\ UNCHANGED <<outbox, log, registered, channel, sends, overrun>>

-----------------------------------------------------------------------------

Init ==
  /\ outbox = [e \in Events |-> NoRow]
  /\ log = [pair \in Targets \X Events |-> "none"]
  /\ registered = Targets
  /\ channel \in Channels
  /\ pc = [p \in Processes |-> "down"]
  /\ attempt = [p \in Processes |-> NoAttempt]
  /\ sends = [pair \in Targets \X Events |-> 0]
  /\ lost = [pair \in Targets \X Events |-> "none"]
  /\ overrun = {}

Dispatch(p) == \/ StartDispatcher(p) \/ Claim(p) \/ GiveUp(p) \/ Load(p) \/ NextRecipient(p)
               \/ Send(p) \/ Record(p) \/ RecordFails(p) \/ Complete(p) \/ Fail(p)
               \/ MarkFailed(p) \/ AbortDeadlocked(p)

Time(e) == RetryDue(e) \/ LeaseRunsOut(e)

Next == \/ \E e \in Events : Emit(e) \/ Time(e)
        \/ \E p \in Processes : Dispatch(p) \/ StatementFails(p) \/ Crash(p)
        \/ \E t \in Targets : Withdraw(t)

Spec == Init /\ [][Next]_vars

(* The threads run, the supervisor starts the add-on again, time passes;   *)
(* nothing is assumed about the provider or about faults.                  *)
Fairness == /\ \A p \in Processes : WF_vars(Dispatch(p))
            /\ \A e \in Events : WF_vars(Time(e))

LiveSpec == Spec /\ Fairness

-----------------------------------------------------------------------------
(* Properties *)

(* A row is removed only when everyone who wants the event has it: no      *)
(* device or service that is still registered was passed over, whatever    *)
(* attempts failed, crashed or lost their lease on the way.                *)
RemovedIsDelivered ==
  \A e \in Events : outbox[e].status = "deleted" =>
    \A t \in registered :
      \/ channel = "apns" /\ t \in Fresh
      \/ channel \in {"home_assistant", "ha_inactive"} /\ t \in Services
      => sends[<<t, e>>] > 0

(* Nobody is notified twice unless an earlier notification went            *)
(* unrecorded, because its answer never came or its record was rolled      *)
(* back, or a lease ran out while an attempt was under way: a failed       *)
(* attempt keeps what it delivered.                                        *)
ResendsExplained ==
  \A pair \in Targets \X Events :
    sends[pair] > 1 => lost[pair] # "none" \/ pair[2] \in overrun

(* What the comment in _process_job says: a duplicate is possible only     *)
(* when the process or the commit fails between the send and the log.      *)
ResendsOnlyAfterCrash ==
  \A pair \in Targets \X Events : sends[pair] > 1 => lost[pair] \in {"crash", "database"}

(* Every notification is delivered or given up in the end, however often   *)
(* the provider, the database or the processes fail.                       *)
EventuallySettled ==
  \A e \in Events : outbox[e].status # "none" ~> outbox[e].status \in {"deleted", "dead"}

=============================================================================

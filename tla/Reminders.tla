----------------------------- MODULE Reminders ------------------------------
(***************************************************************************)
(* The push worker (maintenance.push_worker, push_notifications): every    *)
(* process sweeps for due reminders, sends them one by one and records     *)
(* each delivery, all in one transaction under an advisory try-lock.       *)
(*                                                                         *)
(* Time is counted in half minutes.  A device stands for a row of          *)
(* push_devices, or for a user's notify service on the other channel,      *)
(* which differs only in that it is never deleted.  The order in which a   *)
(* sweep visits the devices is left open.                                  *)
(*                                                                         *)
(* Left out: tasks and offsets other than one, whose reminder is due at    *)
(* ReminderAt, the switches of families and users, the texts.              *)
(***************************************************************************)
EXTENDS Handlers

CONSTANTS Devices,     \* of the child the task is assigned to
          Interval,    \* push_worker_interval_seconds
          ReminderAt,  \* due_at minus the offset
          MaxAlerts,   \* bound: alerts per device
          LastMoment   \* bound: the last moment

ASSUME RemindersAssumption ==
  /\ Interval \in Nat \ {0} /\ {ReminderAt, MaxAlerts, LastMoment} \subseteq Nat

VARIABLES moment,     \* the clock
          remindable, \* the task is open and active
          registered, \* the rows of push_devices
          delivered,  \* committed rows of push_delivery_logs with status sent
          sweepLock,  \* who holds the advisory lock
          sweep,      \* the workers
          alerts,     \* history: alerts device d has shown
          forgotten,  \* history: alerts of device d that have no row any more, or never had
          excused     \* history: devices a reminder may miss

remindersVars ==
  <<moment, remindable, registered, delivered, sweepLock, sweep, alerts, forgotten, excused>>

-----------------------------------------------------------------------------
(* Mutant: no reserve for the time a sweep takes.                          *)
WindowInterval == Interval

(* window_seconds = max(interval + 30, 90)                                 *)
ReminderWindow == IF Interval + 1 > 3 THEN Interval + 1 ELSE 3

(* How long a sweep may take: half a minute, and more if it runs often.    *)
Reserve == IF Interval = 1 THEN 2 ELSE 1

Answers == {"sent", "failed", "rejected"}

(* rows: the delivery rows of this sweep, by what the provider answered.   *)
Asleep(until) == [pc |-> "asleep", wake |-> until, todo |-> {},
                  rows |-> [d \in Devices |-> "none"]]

Answered(w, answer) == {d \in Devices : sweep[w].rows[d] = answer}

RemindersInit ==
  /\ moment = 0
  /\ remindable = TRUE
  /\ registered = Devices
  /\ delivered = {}
  /\ sweepLock = None
  /\ \E phase \in [Threads -> 0..Interval] : sweep = [w \in Threads |-> Asleep(phase[w])]
  /\ alerts = [d \in Devices |-> 0]
  /\ forgotten = [d \in Devices |-> 0]
  /\ excused = {}

-----------------------------------------------------------------------------
ReminderDue == remindable /\ ReminderAt <= moment /\ moment - ReminderAt <= ReminderWindow

(* Mutant: nobody asks whether another process is sweeping.                *)
SweepLockFree == TRUE

(* _acquire_push_lock                                                      *)
LockIsFree == sweepLock = None

(* The worker wakes; a sweep under way elsewhere sends it back to sleep.   *)
BeginSweep(w) ==
  /\ sweep[w].pc = "asleep" /\ sweep[w].wake <= moment
  /\ \/ /\ LockIsFree
        /\ sweepLock' = w
        /\ sweep' = [sweep EXCEPT ![w].pc = "sweeping", ![w].wake = moment,
                                  ![w].todo = IF ReminderDue THEN registered ELSE {}]
     \/ /\ ~LockIsFree
        /\ sweep' = [sweep EXCEPT ![w] = Asleep(moment + Interval)]
        /\ UNCHANGED sweepLock
  /\ UNCHANGED <<moment, remindable, registered, delivered, alerts, forgotten, excused>>

EndsSweep(w, wake) ==
  /\ sweepLock' = IF sweepLock = w THEN None ELSE sweepLock
  /\ sweep' = [sweep EXCEPT ![w] = Asleep(wake)]

(* The rows of the transaction are gone, the alerts of devices ds are not. *)
RolledBack(w, ds, wake) ==
  /\ EndsSweep(w, wake)
  /\ forgotten' = [d \in Devices |-> forgotten[d] + IF d \in ds THEN 1 ELSE 0]
  /\ excused' = Devices
  /\ UNCHANGED delivered

(* _delivery_exists                                                        *)
SkipDelivered(w) ==
  /\ \E d \in sweep[w].todo \intersect delivered :
       sweep' = [sweep EXCEPT ![w].todo = @ \ {d}]
  /\ UNCHANGED <<moment, remindable, registered, delivered, sweepLock, alerts, forgotten, excused>>

(* What the provider did and what the sweep makes of it: an exception that *)
(* loses the answer of a provider that took the alert counts as a failure. *)
Outcomes == {o \in [answer: Answers, shown: BOOLEAN] :
               /\ o.answer = "sent" => o.shown
               /\ o.answer = "rejected" => ~o.shown}

(* _apns_client.send_alert and _record_delivery.  The row refers to the    *)
(* device: when that was unregistered meanwhile the sweep fails.           *)
SendReminder(w) ==
  /\ \E d \in sweep[w].todo \ delivered, o \in Outcomes :
       /\ o.shown => alerts[d] < MaxAlerts
       /\ alerts' = IF o.shown THEN [alerts EXCEPT ![d] = @ + 1] ELSE alerts
       /\ \/ /\ d \in registered
             /\ sweep' = [sweep EXCEPT ![w].todo = @ \ {d}, ![w].rows[d] = o.answer]
             /\ forgotten' = IF o.shown /\ o.answer # "sent"
                             THEN [forgotten EXCEPT ![d] = @ + 1] ELSE forgotten
             /\ excused' = IF o.shown THEN excused ELSE excused \union {d}
             /\ UNCHANGED <<delivered, sweepLock>>
          \/ /\ d \notin registered
             /\ RolledBack(w, Answered(w, "sent") \union IF o.shown THEN {d} ELSE {},
                           moment + Interval)
  /\ UNCHANGED <<moment, remindable, registered>>

CommitSweep(w) ==
  /\ sweep[w].pc = "sweeping" /\ sweep[w].todo = {}
  /\ delivered' = delivered \union Answered(w, "sent")
  /\ registered' = registered \ Answered(w, "rejected")
  /\ EndsSweep(w, moment + Interval)
  /\ UNCHANGED <<moment, remindable, alerts, forgotten, excused>>

(* The database fails, or the process ends and is started again.           *)
FailSweep(w) ==
  /\ sweep[w].pc = "sweeping"
  /\ \E wake \in {moment, moment + Interval} : RolledBack(w, Answered(w, "sent"), wake)
  /\ UNCHANGED <<moment, remindable, registered, alerts>>

-----------------------------------------------------------------------------
(* Requests meanwhile.  A row a sweep has not committed keeps the device   *)
(* it refers to.                                                           *)
Unregister(d) ==
  /\ d \in registered
  /\ \A w \in Threads : sweep[w].rows[d] = "none"
  /\ registered' = registered \ {d}
  /\ delivered' = delivered \ {d}
  /\ forgotten' = [forgotten EXCEPT ![d] = @ + IF d \in delivered THEN 1 ELSE 0]
  /\ excused' = excused \union {d}
  /\ UNCHANGED <<moment, remindable, sweepLock, sweep, alerts>>

Register(d) ==
  /\ d \notin registered
  /\ registered' = registered \union {d}
  /\ UNCHANGED <<moment, remindable, delivered, sweepLock, sweep, alerts, forgotten, excused>>

SubmitRemindable ==
  /\ remindable
  /\ remindable' = FALSE
  /\ UNCHANGED <<moment, registered, delivered, sweepLock, sweep, alerts, forgotten, excused>>

(* A worker that is due does not oversleep.                                *)
TickReminders ==
  /\ moment < LastMoment
  /\ \A w \in Threads : sweep[w].pc = "asleep" => sweep[w].wake > moment
  /\ moment' = moment + 1
  /\ excused' = IF \E w \in Threads : /\ sweep[w].pc = "sweeping"
                                      /\ moment' - sweep[w].wake > Reserve
                THEN Devices ELSE excused
  /\ UNCHANGED <<remindable, registered, delivered, sweepLock, sweep, alerts, forgotten>>

RemindersNext ==
  \/ \E w \in Threads : \/ BeginSweep(w) \/ SkipDelivered(w) \/ SendReminder(w)
                        \/ CommitSweep(w) \/ FailSweep(w)
  \/ \E d \in Devices : Unregister(d) \/ Register(d)
  \/ SubmitRemindable
  \/ TickReminders

RemindersSpec == RemindersInit /\ [][RemindersNext]_remindersVars

-----------------------------------------------------------------------------
SweepState == [pc: {"asleep", "sweeping"}, wake: 0..LastMoment + Interval,
               todo: SUBSET Devices, rows: [Devices -> Answers \union {"none"}]]

RemindersTypeOK ==
  /\ moment \in 0..LastMoment
  /\ remindable \in BOOLEAN
  /\ registered \subseteq Devices
  /\ delivered \subseteq registered
  /\ sweepLock \in Threads \union {None}
  /\ sweep \in [Threads -> SweepState]
  /\ alerts \in [Devices -> 0..MaxAlerts] /\ forgotten \in [Devices -> 0..MaxAlerts]
  /\ excused \subseteq Devices

(* Two processes that sweep at the same time, a slow sweep, a device that   *)
(* is registered anew: a device shows the reminder again only when an       *)
(* earlier alert is not on record, because its row was rolled back or       *)
(* deleted or because the provider's answer was lost.                       *)
RemindedOnce == \A d \in Devices : alerts[d] <= 1 + forgotten[d]

(* The window of a sweep reaches far enough back: a reminder of a task that *)
(* stays open is missed only if a sweep took longer than the reserve or was *)
(* rolled back, the provider refused it, or the device was unregistered.    *)
MissedExplained ==
  \A d \in Devices :
    moment > ReminderAt + ReminderWindow + Reserve /\ remindable /\ alerts[d] = 0 => d \in excused

=============================================================================

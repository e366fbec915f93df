---------------------------- MODULE OutboxProofs ----------------------------
(***************************************************************************)
(* The outbox delivers what it removes, and a notification is repeated     *)
(* only when it went unrecorded or a lease ran out under its sender; for   *)
(* every number of events, devices, services and dispatchers, and for      *)
(* every combination of faults.                                            *)
(*                                                                         *)
(* There are three inductive invariants.  WellFormed says what a session   *)
(* holds at each statement.  Thorough says that an attempt that has not    *)
(* failed passed nobody over.  Careful says that a row whose lease never   *)
(* ran out has one worker, who sends to nobody whose delivery is on        *)
(* record.                                                                 *)
(***************************************************************************)
EXTENDS Outbox, TLAPS

(* What a dispatcher's session holds at each of its statements. *)
Shape(p) ==
  LET a == attempt[p] IN
  /\ pc[p] \in {"down", "polling"} => a = NoAttempt
  /\ pc[p] \in {"loading", "marking", "crashed"} => a = [NoAttempt EXCEPT !.event = a.event]
  /\ Working(p) => a.event \in Events
  /\ pc[p] = "dispatching" => a.target = None
  /\ pc[p] \in {"sending", "recording"} => a.target \in Targets \ (a.left \union Uncommitted(p))
  /\ pc[p] # "recording" <=> a.answer = "none"
  /\ a.answer = "unknown" => a.target \in Devices
  /\ a.left \intersect Uncommitted(p) = {}

WellFormed == TypeOK /\ \A p \in Processes : Shape(p)

(* What the proofs use of the assumption. *)
LEMMA Constants ==
  /\ None \notin Events \union Targets \union Processes
  /\ MaxAttempts \in Nat /\ MaxAttempts > 0
  /\ Fresh \subseteq Devices /\ Devices \subseteq Targets /\ Services \subseteq Targets
  /\ Devices \intersect Services = {}
  /\ Events \subseteq Nat
  BY OutboxAssumption DEF OutboxAssumption, Targets

LEMMA AttemptFields ==
  ASSUME TypeOK, NEW p \in Processes
  PROVE  /\ attempt[p] \in Attempt
         /\ attempt[p].event \in Events \union {None}
         /\ attempt[p].left \subseteq Targets
         /\ attempt[p].target \in Targets \union {None}
         /\ attempt[p].answer \in {"none", "accepted", "refused", "unknown"}
         /\ attempt[p].delivered \subseteq Targets
         /\ attempt[p].refused \subseteq Targets
         /\ attempt[p].unknown \subseteq Devices
         /\ attempt[p].failed \in BOOLEAN
         /\ pc[p] \in PCs
  BY DEF TypeOK, Attempt

LEMMA NoAttemptType ==
  ASSUME NEW e \in Events \union {None}
  PROVE  /\ NoAttempt \in Attempt
         /\ [NoAttempt EXCEPT !.event = e] \in Attempt
         /\ [NoAttempt EXCEPT !.event = e].event = e
         /\ NoAttempt = [NoAttempt EXCEPT !.event = None]
  <1>1. NoAttempt \in Attempt
    BY DEF NoAttempt, Attempt
  <1>2. [NoAttempt EXCEPT !.event = e] \in Attempt /\ [NoAttempt EXCEPT !.event = e].event = e
    BY DEF NoAttempt, Attempt
  <1>3. NoAttempt = [NoAttempt EXCEPT !.event = None]
    <2>1. NoAttempt.event = None
      BY DEF NoAttempt
    <2> QED
      BY <1>1, <2>1 DEF Attempt
  <1> QED
    BY <1>1, <1>2, <1>3

LEMMA RowTypes ==
  /\ NoRow \in Row
  /\ [NoRow EXCEPT !.status = "pending", !.due = TRUE] \in Row
  /\ [NoRow EXCEPT !.status = "deleted"] \in Row
  <1>1. 0 \in 0..MaxAttempts
    BY Constants
  <1> QED
    BY <1>1 DEF NoRow, Row

(* The row of a job that was given up or that is put back. *)
LEMMA ParkedRow ==
  ASSUME NEW row \in Row, NEW status \in {"dead", "retry"}
  PROVE  [row EXCEPT !.status = status, !.by = None, !.stale = FALSE] \in Row
  BY DEF Row

(* A step of p leaves the sessions of the others alone. *)
Alone(p) == \A q \in Processes \ {p} : pc'[q] = pc[q] /\ attempt'[q] = attempt[q]

LEMMA OthersShape ==
  ASSUME WellFormed, NEW q \in Processes, pc'[q] = pc[q], attempt'[q] = attempt[q]
  PROVE  Shape(q)'
  BY DEF WellFormed, Shape, Working, Uncommitted

LEMMA SessionWellFormed ==
  ASSUME WellFormed, NEW p \in Processes, NEW state \in PCs, NEW a \in Attempt,
         pc' = [pc EXCEPT ![p] = state], attempt' = [attempt EXCEPT ![p] = a]
  PROVE  /\ pc' \in [Processes -> PCs] /\ attempt' \in [Processes -> Attempt]
         /\ pc'[p] = state /\ attempt'[p] = a
         /\ \A q \in Processes \ {p} : Shape(q)'
         /\ Alone(p)
  <1>1. /\ pc \in [Processes -> PCs] /\ attempt \in [Processes -> Attempt]
    BY DEF WellFormed, TypeOK
  <1>2. Alone(p)
    BY <1>1 DEF Alone
  <1> QED
    BY <1>1, <1>2, OthersShape DEF Alone

(* A session that has nothing in hand. *)
LEMMA ParkedShape ==
  ASSUME NEW p, NEW e \in Events \union {None}, attempt'[p] = [NoAttempt EXCEPT !.event = e],
         \/ pc'[p] \in {"down", "polling"} /\ e = None
         \/ pc'[p] = "crashed"
         \/ pc'[p] \in {"loading", "marking"} /\ e \in Events
  PROVE  Shape(p)'
  <1>1. /\ attempt'[p].event = e /\ attempt'[p].left = {} /\ attempt'[p].target = None
        /\ attempt'[p].answer = "none" /\ attempt'[p].delivered = {} /\ attempt'[p].refused = {}
    BY DEF NoAttempt
  <1>2. e = None => attempt'[p] = NoAttempt
    BY DEF NoAttempt
  <1> QED
    BY <1>1, <1>2 DEF Shape, Working, Uncommitted

-----------------------------------------------------------------------------
(* The sessions are well formed. *)

LEMMA InitWellFormed == Init => WellFormed
  <1> SUFFICES ASSUME Init PROVE WellFormed
    OBVIOUS
  <1>1. TypeOK
    <2>1. /\ outbox \in [Events -> Row] /\ attempt \in [Processes -> Attempt]
          /\ pc \in [Processes -> PCs] /\ registered \subseteq Targets /\ channel \in Channels
          /\ overrun \subseteq Events
      BY NoAttemptType, RowTypes DEF Init, PCs
    <2>2. /\ log \in [Targets \X Events -> {"none", "sent", "failed"}]
          /\ sends \in [Targets \X Events -> 0..2]
          /\ lost \in [Targets \X Events -> {"none"} \union Causes]
      BY DEF Init
    <2> QED
      BY <2>1, <2>2 DEF TypeOK
  <1>2. \A p \in Processes : Shape(p)
    BY DEF Init, Shape, NoAttempt, Working, Uncommitted
  <1> QED
    BY <1>1, <1>2 DEF WellFormed

LEMMA TableWellFormed ==
  ASSUME WellFormed,
         \/ \E e \in Events : Emit(e) \/ Time(e)
         \/ \E t \in Targets : Withdraw(t)
  PROVE  WellFormed'
  <1>1. UNCHANGED session
    BY DEF Emit, Time, RetryDue, LeaseRunsOut, Withdraw
  <1>2. \A p \in Processes : Shape(p)'
    BY <1>1, OthersShape DEF session
  <1>3. TypeOK'
    <2>1. TypeOK
      BY DEF WellFormed
    <2>2. ASSUME NEW e \in Events, Emit(e) PROVE TypeOK'
      BY <2>1, <2>2, RowTypes DEF Emit, session, TypeOK
    <2>3. ASSUME NEW e \in Events, RetryDue(e) PROVE TypeOK'
      BY <2>1, <2>3 DEF RetryDue, session, TypeOK, Row
    <2>4. ASSUME NEW e \in Events, LeaseRunsOut(e) PROVE TypeOK'
      BY <2>1, <2>4 DEF LeaseRunsOut, session, TypeOK, Row
    <2>5. ASSUME NEW t \in Targets, Withdraw(t) PROVE TypeOK'
      BY <2>1, <2>5 DEF Withdraw, session, TypeOK
    <2> QED
      BY <2>2, <2>3, <2>4, <2>5 DEF Time
  <1> QED
    BY <1>2, <1>3 DEF WellFormed

LEMMA PollWellFormed ==
  ASSUME WellFormed, NEW p \in Processes, StartDispatcher(p) \/ Claim(p) \/ GiveUp(p)
  PROVE  WellFormed'
  <1>1. TypeOK /\ Shape(p)
    BY DEF WellFormed
  <1>2. CASE StartDispatcher(p)
    <2>1. attempt[p] = NoAttempt /\ attempt' = [attempt EXCEPT ![p] = NoAttempt]
      BY <1>1, <1>2 DEF StartDispatcher, Shape, TypeOK
    <2>2. "polling" \in PCs /\ NoAttempt \in Attempt /\ NoAttempt = [NoAttempt EXCEPT !.event = None]
      BY NoAttemptType DEF PCs
    <2>3. /\ pc' \in [Processes -> PCs] /\ attempt' \in [Processes -> Attempt]
          /\ \A q \in Processes : Shape(q)'
      BY <1>2, <2>1, <2>2, SessionWellFormed, ParkedShape DEF StartDispatcher
    <2> QED
      BY <1>1, <1>2, <2>3 DEF StartDispatcher, WellFormed, TypeOK
  <1>3. CASE Claim(p)
    <2>1. PICK e \in Events :
             /\ outbox[e].attempts < MaxAttempts
             /\ outbox' = [outbox EXCEPT ![e] = [status |-> "processing", attempts |-> @.attempts + 1,
                                                 by |-> p, due |-> FALSE, stale |-> FALSE]]
             /\ attempt' = [attempt EXCEPT ![p] = [NoAttempt EXCEPT !.event = e]]
      BY <1>3 DEF Claim
    <2>2. outbox' \in [Events -> Row]
      <3>1. outbox[e].attempts \in 0..MaxAttempts
        BY <1>1 DEF TypeOK, Row
      <3>2. outbox[e].attempts + 1 \in 0..MaxAttempts
        BY <2>1, <3>1, Constants
      <3>3. [status |-> "processing", attempts |-> outbox[e].attempts + 1,
             by |-> p, due |-> FALSE, stale |-> FALSE] \in Row
        BY <3>2 DEF Row
      <3> QED
        BY <1>1, <2>1, <3>3 DEF TypeOK
    <2>3. "loading" \in PCs /\ [NoAttempt EXCEPT !.event = e] \in Attempt
      BY NoAttemptType DEF PCs
    <2>4. /\ pc' \in [Processes -> PCs] /\ attempt' \in [Processes -> Attempt]
          /\ \A q \in Processes : Shape(q)'
      BY <1>3, <2>1, <2>3, SessionWellFormed, ParkedShape DEF Claim
    <2> QED
      BY <1>1, <1>3, <2>2, <2>4 DEF Claim, WellFormed, TypeOK
  <1>4. CASE GiveUp(p)
    <2>1. PICK e \in Events :
             outbox' = [outbox EXCEPT ![e] = [outbox[e] EXCEPT !.status = "dead", !.by = None, !.stale = FALSE]]
      BY <1>4 DEF GiveUp
    <2>2. outbox' \in [Events -> Row]
      BY <1>1, <2>1, ParkedRow DEF TypeOK
    <2> QED
      BY <1>1, <1>4, <2>2, OthersShape DEF GiveUp, session, WellFormed, TypeOK
  <1> QED
    BY <1>2, <1>3, <1>4

LEMMA LeaveWellFormed ==
  ASSUME WellFormed, NEW p \in Processes, Leave(p)
  PROVE  /\ pc' \in [Processes -> PCs] /\ attempt' \in [Processes -> Attempt]
         /\ \A q \in Processes : Shape(q)'
         /\ pc'[p] = "polling" /\ attempt'[p] = NoAttempt /\ Alone(p)
  <1>1. "polling" \in PCs /\ NoAttempt \in Attempt /\ NoAttempt = [NoAttempt EXCEPT !.event = None]
    BY NoAttemptType DEF PCs
  <1> QED
    BY <1>1, SessionWellFormed, ParkedShape DEF Leave

LEMMA RollBackWellFormed ==
  ASSUME WellFormed, NEW p \in Processes, NEW cause \in Causes, RollBack(p, cause),
         NEW state \in {"marking", "crashed"}, pc' = [pc EXCEPT ![p] = state],
         state = "marking" => attempt[p].event \in Events
  PROVE  /\ pc' \in [Processes -> PCs] /\ attempt' \in [Processes -> Attempt]
         /\ \A q \in Processes : Shape(q)'
         /\ pc'[p] = state /\ attempt'[p] = [NoAttempt EXCEPT !.event = attempt[p].event]
         /\ Alone(p)
         /\ lost' \in [Targets \X Events -> {"none"} \union Causes]
  <1> DEFINE e == attempt[p].event
  <1>1. e \in Events \union {None}
    BY AttemptFields DEF WellFormed
  <1>2. state \in PCs /\ [NoAttempt EXCEPT !.event = e] \in Attempt
    BY <1>1, NoAttemptType DEF PCs
  <1>3. attempt' = [attempt EXCEPT ![p] = [NoAttempt EXCEPT !.event = e]]
    BY DEF RollBack
  <1>4. lost' \in [Targets \X Events -> {"none"} \union Causes]
    <2>1. lost \in [Targets \X Events -> {"none"} \union Causes]
      BY DEF WellFormed, TypeOK
    <2> QED
      BY <2>1 DEF RollBack
  <1> HIDE DEF e
  <1>5. /\ pc' \in [Processes -> PCs] /\ attempt' \in [Processes -> Attempt]
        /\ pc'[p] = state /\ attempt'[p] = [NoAttempt EXCEPT !.event = e]
        /\ Alone(p)
        /\ \A q \in Processes \ {p} : Shape(q)'
    BY <1>2, <1>3, SessionWellFormed
  <1>6. Shape(p)'
    BY <1>1, <1>5, ParkedShape DEF e
  <1> QED
    BY <1>4, <1>5, <1>6 DEF e

LEMMA RecipientsType == TypeOK => Recipients \subseteq Targets
  BY Constants DEF TypeOK, Recipients, EligibleDevices

LEMMA LoadWellFormed ==
  ASSUME WellFormed, NEW p \in Processes, Load(p)
  PROVE  WellFormed'
  <1>1. TypeOK /\ Shape(p)
    BY DEF WellFormed
  <1>2. CASE Leave(p)
    BY <1>1, <1>2, LeaveWellFormed DEF Load, WellFormed, TypeOK
  <1>3. CASE ~Leave(p)
    <2> DEFINE failed == channel \in {"apns_unset", "ha_inactive"}
               a == [attempt[p] EXCEPT !.left = Recipients, !.failed = failed]
    <2>1. pc[p] = "loading" /\ pc' = [pc EXCEPT ![p] = "dispatching"] /\ attempt' = [attempt EXCEPT ![p] = a]
      BY <1>1, <1>3 DEF Load, TypeOK
    <2>2. a \in Attempt
      <3>1. failed \in BOOLEAN /\ Recipients \subseteq Targets /\ attempt[p] \in Attempt
        BY <1>1, RecipientsType, AttemptFields
      <3> HIDE DEF failed
      <3> QED
        BY <3>1 DEF Attempt
    <2>3. /\ a.event = attempt[p].event /\ a.target = None /\ a.answer = "none"
          /\ a.delivered = {} /\ a.refused = {} /\ a.event \in Events
      BY <1>1, <2>1, AttemptFields DEF Shape, NoAttempt, Working, Attempt
    <2> HIDE DEF a
    <2>4. /\ pc' \in [Processes -> PCs] /\ attempt' \in [Processes -> Attempt]
          /\ pc'[p] = "dispatching" /\ attempt'[p] = a
          /\ \A q \in Processes \ {p} : Shape(q)'
      BY <2>1, <2>2, SessionWellFormed DEF PCs
    <2>5. Shape(p)'
      BY <2>3, <2>4 DEF Shape, Working, Uncommitted
    <2> QED
      BY <1>1, <2>4, <2>5 DEF Load, WellFormed, TypeOK
  <1> QED
    BY <1>2, <1>3

LEMMA NextRecipientWellFormed ==
  ASSUME WellFormed, NEW p \in Processes, NextRecipient(p)
  PROVE  WellFormed'
  <1>1. TypeOK /\ Shape(p) /\ pc[p] = "dispatching" /\ attempt[p] \in Attempt
    BY AttemptFields DEF WellFormed, NextRecipient
  <1>2. PICK t \in attempt[p].left :
           \/ /\ attempt' = [attempt EXCEPT ![p] = [attempt[p] EXCEPT !.left = @ \ {t}]]
              /\ pc' = [pc EXCEPT ![p] = "dispatching"]
           \/ /\ attempt' = [attempt EXCEPT ![p] = [attempt[p] EXCEPT !.left = @ \ {t}, !.target = t]]
              /\ pc' = [pc EXCEPT ![p] = "sending"]
    BY <1>1 DEF NextRecipient, TypeOK
  <1>3. t \in Targets /\ t # None /\ t \notin Uncommitted(p) /\ attempt[p].event \in Events
    BY <1>1, AttemptFields, Constants DEF Shape, Working
  <1>4. ASSUME NEW state \in {"dispatching", "sending"},
               pc' = [pc EXCEPT ![p] = state],
               NEW a \in Attempt, attempt' = [attempt EXCEPT ![p] = a],
               /\ a.left = attempt[p].left \ {t} /\ a.event = attempt[p].event
               /\ a.answer = "none" /\ a.delivered = attempt[p].delivered
               /\ a.refused = attempt[p].refused
               /\ a.target = IF state = "sending" THEN t ELSE None
        PROVE  WellFormed'
    <2>1. /\ pc' \in [Processes -> PCs] /\ attempt' \in [Processes -> Attempt]
          /\ pc'[p] = state /\ attempt'[p] = a
          /\ \A q \in Processes \ {p} : Shape(q)'
      BY <1>4, SessionWellFormed DEF PCs
    <2>2. Shape(p)'
      BY <1>1, <1>3, <1>4, <2>1 DEF Shape, Working, Uncommitted
    <2> QED
      BY <1>1, <2>1, <2>2 DEF NextRecipient, WellFormed, TypeOK
  <1>5. CASE /\ attempt' = [attempt EXCEPT ![p] = [attempt[p] EXCEPT !.left = @ \ {t}]]
             /\ pc' = [pc EXCEPT ![p] = "dispatching"]
    <2> DEFINE a == [attempt[p] EXCEPT !.left = @ \ {t}]
    <2>1. /\ a \in Attempt
          /\ a.left = attempt[p].left \ {t} /\ a.event = attempt[p].event
          /\ a.answer = "none" /\ a.delivered = attempt[p].delivered
          /\ a.refused = attempt[p].refused /\ a.target = None
          /\ attempt' = [attempt EXCEPT ![p] = a]
      BY <1>5, <1>1 DEF Attempt, Shape
    <2> HIDE DEF a
    <2> QED
      BY <1>4, <1>5, <2>1
  <1>6. CASE /\ attempt' = [attempt EXCEPT ![p] = [attempt[p] EXCEPT !.left = @ \ {t}, !.target = t]]
             /\ pc' = [pc EXCEPT ![p] = "sending"]
    <2> DEFINE a == [attempt[p] EXCEPT !.left = @ \ {t}, !.target = t]
    <2>1. /\ a \in Attempt
          /\ a.left = attempt[p].left \ {t} /\ a.event = attempt[p].event
          /\ a.answer = "none" /\ a.delivered = attempt[p].delivered
          /\ a.refused = attempt[p].refused /\ a.target = t
          /\ attempt' = [attempt EXCEPT ![p] = a]
      BY <1>6, <1>1, <1>3 DEF Attempt, Shape
    <2> HIDE DEF a
    <2> QED
      BY <1>4, <1>6, <2>1
  <1> QED
    BY <1>2, <1>5, <1>6

LEMMA SendWellFormed ==
  ASSUME WellFormed, NEW p \in Processes, Send(p)
  PROVE  WellFormed'
  <1>1. TypeOK /\ Shape(p) /\ pc[p] = "sending" /\ attempt[p] \in Attempt
    BY AttemptFields DEF WellFormed, Send
  <1>2. attempt[p].target \in Targets /\ attempt[p].event \in Events
    BY <1>1 DEF Shape, Working
  <1> DEFINE pair == <<attempt[p].target, attempt[p].event>>
  <1>3. PICK answer \in {"accepted", "refused", "unknown"} :
          /\ answer = "unknown" => attempt[p].target \in Devices
          /\ attempt' = [attempt EXCEPT ![p] = [attempt[p] EXCEPT !.answer = answer]]
    BY <1>1 DEF Send, TypeOK
  <1> DEFINE a == [attempt[p] EXCEPT !.answer = answer]
  <1>4. /\ a \in Attempt /\ a.answer = answer /\ a.left = attempt[p].left
        /\ a.event = attempt[p].event /\ a.target = attempt[p].target
        /\ a.delivered = attempt[p].delivered /\ a.refused = attempt[p].refused
    BY <1>1 DEF Attempt
  <1>5. attempt' = [attempt EXCEPT ![p] = a]
    BY <1>3
  <1> HIDE DEF a
  <1>6. /\ pc' \in [Processes -> PCs] /\ attempt' \in [Processes -> Attempt]
        /\ pc'[p] = "recording" /\ attempt'[p] = a
        /\ \A q \in Processes \ {p} : Shape(q)'
    BY <1>4, <1>5, SessionWellFormed DEF PCs, Send
  <1>7. Shape(p)'
    BY <1>1, <1>3, <1>4, <1>6 DEF Shape, Working, Uncommitted
  <1>8. sends' \in [Targets \X Events -> 0..2]
    <2>1. pair \in Targets \X Events /\ sends \in [Targets \X Events -> 0..2]
      BY <1>1, <1>2 DEF TypeOK
    <2>2. sends' = sends \/ (sends[pair] < 2 /\ sends' = [sends EXCEPT ![pair] = sends[pair] + 1])
      BY DEF Send
    <2>3. sends[pair] \in 0..2
      BY <2>1
    <2>4. sends[pair] < 2 => sends[pair] + 1 \in 0..2
      BY <2>3
    <2> HIDE DEF pair
    <2> QED
      BY <2>1, <2>2, <2>4
  <1>9. lost' \in [Targets \X Events -> {"none"} \union Causes]
    <2>1. pair \in Targets \X Events /\ lost \in [Targets \X Events -> {"none"} \union Causes]
      BY <1>1, <1>2 DEF TypeOK
    <2>2. lost' = lost \/ lost' = [lost EXCEPT ![pair] = "answer"]
      BY DEF Send
    <2> HIDE DEF pair
    <2> QED
      BY <2>1, <2>2 DEF Causes
  <1> QED
    BY <1>1, <1>6, <1>7, <1>8, <1>9 DEF Send, WellFormed, TypeOK

LEMMA RecordWellFormed ==
  ASSUME WellFormed, NEW p \in Processes, Record(p)
  PROVE  WellFormed'
  <1>1. TypeOK /\ Shape(p) /\ pc[p] = "recording" /\ attempt[p] \in Attempt
    BY AttemptFields DEF WellFormed, Record
  <1>2. attempt[p].target \in Targets /\ attempt[p].event \in Events
        /\ (attempt[p].answer = "unknown" => attempt[p].target \in Devices)
    BY <1>1 DEF Shape, Working
  <1> DEFINE t == attempt[p].target
             answer == attempt[p].answer
             delivered == IF answer = "accepted" THEN attempt[p].delivered \union {t} ELSE attempt[p].delivered
             refused == IF answer = "accepted" THEN attempt[p].refused ELSE attempt[p].refused \union {t}
             unknown == IF answer = "unknown" THEN attempt[p].unknown \union {t} ELSE attempt[p].unknown
             failed == attempt[p].failed \/ answer # "accepted"
             a == [attempt[p] EXCEPT !.target = None, !.answer = "none", !.delivered = delivered,
                                     !.refused = refused, !.unknown = unknown, !.failed = failed]
  <1>3. /\ delivered \subseteq Targets /\ refused \subseteq Targets /\ unknown \subseteq Devices
        /\ failed \in BOOLEAN
    BY <1>1, <1>2, AttemptFields
  <1>4. /\ a \in Attempt /\ a.answer = "none" /\ a.left = attempt[p].left
        /\ a.event = attempt[p].event /\ a.target = None
        /\ a.delivered = delivered /\ a.refused = refused
    <2> HIDE DEF delivered, refused, unknown, failed
    <2> QED
      BY <1>1, <1>3 DEF Attempt
  <1>5. attempt' = [attempt EXCEPT ![p] = a]
    BY DEF Record
  <1>6. delivered \union refused = attempt[p].delivered \union attempt[p].refused \union {t}
    OBVIOUS
  <1>7. t \notin attempt[p].left
    BY <1>1 DEF Shape
  <1> HIDE DEF a, delivered, refused
  <1>8. /\ pc' \in [Processes -> PCs] /\ attempt' \in [Processes -> Attempt]
        /\ pc'[p] = "dispatching" /\ attempt'[p] = a
        /\ \A q \in Processes \ {p} : Shape(q)'
    BY <1>4, <1>5, SessionWellFormed DEF PCs, Record
  <1>9. Shape(p)'
    BY <1>1, <1>2, <1>4, <1>6, <1>7, <1>8 DEF Shape, Working, Uncommitted
  <1> QED
    BY <1>1, <1>8, <1>9 DEF Record, WellFormed, TypeOK

(* The exceptions, failing statements and crashes. *)
LEMMA FaultWellFormed ==
  ASSUME WellFormed, NEW p \in Processes,
         RecordFails(p) \/ AbortDeadlocked(p) \/ StatementFails(p) \/ Crash(p)
  PROVE  WellFormed'
  <1>1. TypeOK /\ Shape(p)
    BY DEF WellFormed
  <1>2. CASE StatementFails(p) /\ Leave(p)
    BY <1>1, <1>2, LeaveWellFormed DEF StatementFails, Leave, RollBack, WellFormed, TypeOK
  <1>3. CASE ~(StatementFails(p) /\ Leave(p))
    <2>1. PICK cause \in Causes, state \in {"marking", "crashed"} :
            /\ RollBack(p, cause) /\ pc' = [pc EXCEPT ![p] = state]
            /\ state = "marking" => pc[p] \in {"loading", "dispatching", "recording"}
            /\ UNCHANGED <<outbox, log, registered, channel, sends, overrun>>
      <3>1. \A q \in WaitsFor(p) : pc[p] \in {"recording", "dispatching"}
        BY DEF WaitsFor
      <3>2. CASE RecordFails(p)
        <4>1. "withdrawn" \in Causes
          BY DEF Causes
        <4> WITNESS "withdrawn" \in Causes, "marking" \in {"marking", "crashed"}
        <4> QED
          BY <3>2 DEF RecordFails
      <3>3. CASE AbortDeadlocked(p)
        <4>1. "database" \in Causes
          BY DEF Causes
        <4> WITNESS "database" \in Causes, "marking" \in {"marking", "crashed"}
        <4> QED
          BY <3>1, <3>3 DEF AbortDeadlocked
      <3>4. CASE StatementFails(p)
        <4>1. "database" \in Causes
          BY DEF Causes
        <4> WITNESS "database" \in Causes, "marking" \in {"marking", "crashed"}
        <4> QED
          BY <1>3, <3>4 DEF StatementFails
      <3>5. CASE Crash(p)
        <4>1. "crash" \in Causes
          BY DEF Causes
        <4> WITNESS "crash" \in Causes, "crashed" \in {"marking", "crashed"}
        <4> QED
          BY <3>5 DEF Crash
      <3> QED
        BY <3>2, <3>3, <3>4, <3>5
    <2>2. state = "marking" => attempt[p].event \in Events
      BY <1>1, <2>1 DEF Shape, Working
    <2>3. /\ pc' \in [Processes -> PCs] /\ attempt' \in [Processes -> Attempt]
          /\ \A q \in Processes : Shape(q)'
          /\ lost' \in [Targets \X Events -> {"none"} \union Causes]
      BY <2>1, <2>2, RollBackWellFormed
    <2> QED
      BY <1>1, <2>1, <2>3 DEF WellFormed, TypeOK
  <1> QED
    BY <1>2, <1>3

LEMMA LogType ==
  ASSUME WellFormed, NEW p \in Processes
  PROVE  LogOf(p) \in [Targets \X Events -> {"none", "sent", "failed"}]
  BY DEF LogOf, WellFormed, TypeOK

LEMMA CompleteWellFormed ==
  ASSUME WellFormed, NEW p \in Processes, Complete(p)
  PROVE  WellFormed'
  <1>1. TypeOK
    BY DEF WellFormed
  <1>2. outbox' \in [Events -> Row]
    BY <1>1, RowTypes DEF Complete, TypeOK
  <1> QED
    BY <1>1, <1>2, LogType, LeaveWellFormed DEF Complete, WellFormed, TypeOK

LEMMA FailWellFormed ==
  ASSUME WellFormed, NEW p \in Processes, Fail(p)
  PROVE  WellFormed'
  <1>1. TypeOK /\ Shape(p) /\ pc[p] = "dispatching"
    BY DEF WellFormed, Fail, Served
  <1>2. PICK e \in Events : e = attempt[p].event
    BY <1>1 DEF Shape, Working
  <1>3. [NoAttempt EXCEPT !.event = e] \in Attempt /\ "marking" \in PCs
    BY NoAttemptType DEF PCs
  <1>4. /\ pc' \in [Processes -> PCs] /\ attempt' \in [Processes -> Attempt]
        /\ pc'[p] = "marking" /\ attempt'[p] = [NoAttempt EXCEPT !.event = e]
        /\ \A q \in Processes \ {p} : Shape(q)'
    BY <1>2, <1>3, SessionWellFormed DEF Fail
  <1>5. Shape(p)'
    BY <1>4, ParkedShape
  <1>6. registered' \subseteq Targets
    BY <1>1 DEF Fail, TypeOK
  <1> QED
    BY <1>1, <1>4, <1>5, <1>6, LogType DEF Fail, WellFormed, TypeOK

LEMMA MarkFailedWellFormed ==
  ASSUME WellFormed, NEW p \in Processes, MarkFailed(p)
  PROVE  WellFormed'
  <1>1. TypeOK /\ Shape(p) /\ pc[p] = "marking"
    BY DEF WellFormed, MarkFailed
  <1>2. PICK e \in Events : e = attempt[p].event
    BY <1>1 DEF Shape, Working
  <1>3. outbox' \in [Events -> Row]
    <2>1. PICK status \in {"dead", "retry"} :
            \/ outbox' = outbox
            \/ outbox' = [outbox EXCEPT ![e] = [outbox[e] EXCEPT !.status = status, !.by = None, !.stale = FALSE]]
      <3>1. CASE outbox[e].attempts >= MaxAttempts
        <4> WITNESS "dead" \in {"dead", "retry"}
        <4> QED
          BY <1>2, <3>1 DEF MarkFailed
      <3>2. CASE ~(outbox[e].attempts >= MaxAttempts)
        <4> WITNESS "retry" \in {"dead", "retry"}
        <4> QED
          BY <1>2, <3>2 DEF MarkFailed
      <3> QED
        BY <3>1, <3>2
    <2>2. outbox \in [Events -> Row] /\ outbox[e] \in Row
      BY <1>1 DEF TypeOK
    <2>3. [outbox[e] EXCEPT !.status = status, !.by = None, !.stale = FALSE] \in Row
      BY <2>2, ParkedRow
    <2> QED
      BY <2>1, <2>2, <2>3
  <1> QED
    BY <1>1, <1>3, LeaveWellFormed DEF MarkFailed, WellFormed, TypeOK

LEMMA NextWellFormed == WellFormed /\ [Next]_vars => WellFormed'
  <1> SUFFICES ASSUME WellFormed, [Next]_vars PROVE WellFormed'
    OBVIOUS
  <1>1. CASE UNCHANGED vars
    BY <1>1, OthersShape DEF WellFormed, TypeOK, vars, session
  <1>2. ASSUME NEW p \in Processes, Dispatch(p) \/ StatementFails(p) \/ Crash(p) PROVE WellFormed'
    BY <1>2, PollWellFormed, LoadWellFormed, NextRecipientWellFormed, SendWellFormed, RecordWellFormed,
       FaultWellFormed, CompleteWellFormed, FailWellFormed, MarkFailedWellFormed DEF Dispatch
  <1> QED
    BY <1>1, <1>2, TableWellFormed DEF Next

(* The tables and the sessions keep their shape, whatever fails: attempts  *)
(* never exceed _MAX_ATTEMPTS, a session is only ever about one row.       *)
THEOREM TypeCorrect == Spec => []TypeOK
  <1>1. Spec => []WellFormed
    BY InitWellFormed, NextWellFormed, PTL DEF Spec
  <1>2. WellFormed => TypeOK
    BY DEF WellFormed
  <1> QED
    BY <1>1, <1>2, PTL

-----------------------------------------------------------------------------
(* Nobody is passed over. *)

(* Who must have the event before its row may go. *)
Wants(t) ==
  /\ t \in registered
  /\ \/ channel = "apns" /\ t \in Fresh
     \/ channel \in {"home_assistant", "ha_inactive"} /\ t \in Services

(* What is on record was sent. *)
LogIsSent == \A pair \in Targets \X Events : log[pair] = "sent" => sends[pair] > 0

(* ... and what p is about to record. *)
Accepted(p) == \A t \in Unrecorded(p) : sends[<<t, attempt[p].event>>] > 0

(* An attempt that has not failed so far passed nobody over. *)
Covers(p) ==
  LET a == attempt[p] IN
  pc[p] \in {"dispatching", "sending", "recording"} /\ ~a.failed =>
    \A t \in Targets : Wants(t) =>
      t \in a.left \/ t = a.target \/ sends[<<t, a.event>>] > 0

Thorough ==
  /\ WellFormed
  /\ LogIsSent
  /\ \A p \in Processes : Accepted(p) /\ Covers(p)
  /\ RemovedIsDelivered

LEMMA RemovedMeans ==
  ASSUME TypeOK
  PROVE  RemovedIsDelivered <=>
           \A e \in Events : outbox[e].status = "deleted" =>
             \A t \in Targets : Wants(t) => sends[<<t, e>>] > 0
  BY DEF RemovedIsDelivered, Wants, TypeOK

(* The provider forgets nothing, and nobody is registered again. *)
SentMore ==
  /\ \A pair \in Targets \X Events : sends[pair] > 0 => sends'[pair] > 0
  /\ \A t \in Targets : Wants(t)' => Wants(t)

LEMMA SendCounts ==
  ASSUME WellFormed, NEW p \in Processes, Send(p)
  PROVE  /\ \A pair \in Targets \X Events : sends[pair] > 0 => sends'[pair] > 0
         /\ \A pair \in Targets \X Events :
              pair # <<attempt[p].target, attempt[p].event>> => sends'[pair] = sends[pair]
         /\ attempt'[p].answer = "accepted" => sends'[<<attempt[p].target, attempt[p].event>>] > 0
         /\ attempt'[p].answer # "accepted" =>
              sends' = sends \/ lost'[<<attempt[p].target, attempt[p].event>>] # "none"
         /\ \A pair \in Targets \X Events : lost[pair] # "none" => lost'[pair] # "none"
  <1>1. TypeOK /\ Shape(p) /\ pc[p] = "sending" /\ attempt[p] \in Attempt
    BY AttemptFields DEF WellFormed, Send
  <1> DEFINE pair == <<attempt[p].target, attempt[p].event>>
  <1>2. pair \in Targets \X Events /\ sends \in [Targets \X Events -> 0..2]
    BY <1>1 DEF Shape, Working, TypeOK
  <1>3. PICK answer \in {"accepted", "refused", "unknown"}, taken \in BOOLEAN :
          /\ answer = "accepted" => taken
          /\ attempt' = [attempt EXCEPT ![p] = [attempt[p] EXCEPT !.answer = answer]]
          /\ sends' = IF taken /\ sends[pair] < 2
                      THEN [sends EXCEPT ![pair] = sends[pair] + 1] ELSE sends
          /\ lost' = IF taken /\ answer # "accepted" /\ lost[pair] = "none"
                     THEN [lost EXCEPT ![pair] = "answer"] ELSE lost
    BY Zenon DEF Send
  <1>4. attempt'[p].answer = answer
    BY <1>1, <1>3 DEF TypeOK, Attempt
  <1>5. \A x \in Targets \X Events : sends[x] \in 0..2
    BY <1>2
  <1> HIDE DEF pair
  <1>6. /\ \A x \in Targets \X Events : lost[x] # "none" => lost'[x] # "none"
        /\ taken /\ answer # "accepted" => lost'[pair] # "none"
    <2>1. lost \in [Targets \X Events -> {"none"} \union Causes]
      BY <1>1 DEF TypeOK
    <2> QED
      BY <1>2, <1>3, <2>1
  <1>7. CASE taken /\ sends[pair] < 2
    <2>1. /\ \A x \in (Targets \X Events) \ {pair} : sends'[x] = sends[x]
          /\ sends'[pair] = sends[pair] + 1
      BY <1>2, <1>3, <1>7
    <2> QED
      BY <1>2, <1>3, <1>4, <1>5, <1>7, <1>6, <2>1 DEF pair
  <1>8. CASE ~(taken /\ sends[pair] < 2)
    <2>1. sends' = sends
      BY <1>3, <1>8
    <2> QED
      BY <1>2, <1>3, <1>4, <1>5, <1>8, <1>6, <2>1 DEF pair
  <1> QED
    BY <1>7, <1>8

LEMMA NextSentMore ==
  ASSUME WellFormed, [Next]_vars
  PROVE  SentMore
  <1>1. UNCHANGED sends \/ \E p \in Processes : Send(p)
    BY DEF Next, vars, Dispatch, Time, Emit, RetryDue, LeaseRunsOut, StartDispatcher, Claim, GiveUp,
           Load, NextRecipient, Record, RecordFails, Complete, Fail, MarkFailed, AbortDeadlocked,
           StatementFails, Crash, Withdraw
  <1>2. channel' = channel /\ registered' \subseteq registered
    BY DEF Next, vars, Dispatch, Time, Emit, RetryDue, LeaseRunsOut, StartDispatcher, Claim, GiveUp,
           Load, NextRecipient, Send, Record, RecordFails, Complete, Fail, MarkFailed, AbortDeadlocked,
           StatementFails, Crash, Withdraw
  <1>3. \A t \in Targets : Wants(t)' => Wants(t)
    BY <1>2 DEF Wants
  <1> QED
    BY <1>1, <1>3, SendCounts DEF SentMore

(* Sessions that a step leaves alone. *)
LEMMA OthersThorough ==
  ASSUME Thorough, SentMore, NEW q \in Processes, pc'[q] = pc[q], attempt'[q] = attempt[q]
  PROVE  Accepted(q)' /\ Covers(q)'
  <1>1. /\ Accepted(q) /\ Covers(q) /\ WellFormed /\ TypeOK /\ Shape(q)
        /\ attempt[q].left \subseteq Targets
        /\ Unrecorded(q) \subseteq Targets
    <2>1. Thorough => Accepted(q) /\ Covers(q) /\ WellFormed /\ TypeOK /\ Shape(q)
      BY DEF Thorough, WellFormed
    <2> QED
      BY <2>1, AttemptFields DEF Shape, Unrecorded
  <1>2. Unrecorded(q) # {} => attempt[q].event \in Events
    BY <1>1 DEF Unrecorded, Shape, Working, NoAttempt, WellFormed, TypeOK, PCs
  <1>3. Accepted(q)'
    BY <1>1, <1>2 DEF Accepted, Unrecorded, SentMore
  <1>4. pc[q] \in {"dispatching", "sending", "recording"} => attempt[q].event \in Events
    BY <1>1 DEF Shape, Working
  <1>5. Covers(q)'
    BY <1>1, <1>4 DEF Covers, SentMore
  <1> QED
    BY <1>3, <1>5

LEMMA ParkedThorough ==
  ASSUME NEW p, NEW e, attempt'[p] = [NoAttempt EXCEPT !.event = e],
         pc'[p] \notin {"dispatching", "sending", "recording"}
  PROVE  Accepted(p)' /\ Covers(p)'
  <1>1. attempt'[p].delivered = {} /\ attempt'[p].answer = "none"
    BY DEF NoAttempt
  <1> QED
    BY <1>1 DEF Accepted, Covers, Unrecorded

LEMMA LogOfIsSent ==
  ASSUME Thorough, NEW p \in Processes, NEW t \in Targets, NEW e \in Events,
         LogOf(p)[<<t, e>>] = "sent"
  PROVE  sends[<<t, e>>] > 0
  <1>1. \/ log[<<t, e>>] = "sent"
        \/ t \in attempt[p].delivered /\ e = attempt[p].event
    BY DEF LogOf
  <1>2. Accepted(p) /\ LogIsSent
    BY DEF Thorough
  <1> QED
    BY <1>1, <1>2 DEF Accepted, Unrecorded, LogIsSent

(* What is left to show of a step of p. *)
LEMMA StepThorough ==
  ASSUME Thorough, SentMore, WellFormed', NEW p \in Processes, Alone(p),
         Accepted(p)' /\ Covers(p)',
         log' = log \/ log' = LogOf(p),
         \A e \in Events : outbox'[e].status = "deleted" =>
           \/ outbox[e].status = "deleted"
           \/ \A t \in Targets : Wants(t)' => sends'[<<t, e>>] > 0
  PROVE  Thorough'
  <1>1. WellFormed /\ LogIsSent /\ RemovedIsDelivered /\ TypeOK /\ TypeOK'
    BY DEF Thorough, WellFormed
  <1>2. \A q \in Processes : Accepted(q)' /\ Covers(q)'
    BY OthersThorough DEF Alone
  <1>3. LogIsSent'
    <2> SUFFICES ASSUME NEW t \in Targets, NEW e \in Events, log'[<<t, e>>] = "sent"
                 PROVE  sends'[<<t, e>>] > 0
      BY DEF LogIsSent
    <2>1. sends[<<t, e>>] > 0
      BY <1>1, LogOfIsSent DEF LogIsSent
    <2> QED
      BY <2>1 DEF SentMore
  <1>4. RemovedIsDelivered'
    <2> SUFFICES ASSUME NEW e \in Events, outbox'[e].status = "deleted",
                        NEW t \in Targets, Wants(t)'
                 PROVE  sends'[<<t, e>>] > 0
      BY <1>1 DEF RemovedIsDelivered, Wants, TypeOK
    <2>1. Wants(t)
      BY DEF SentMore
    <2>2. outbox[e].status = "deleted" => sends[<<t, e>>] > 0
      BY <1>1, <2>1, RemovedMeans
    <2> QED
      BY <2>2 DEF SentMore
  <1> QED
    BY <1>2, <1>3, <1>4 DEF Thorough

LEMMA TableThorough ==
  ASSUME Thorough, SentMore, WellFormed',
         \/ \E e \in Events : Emit(e) \/ Time(e)
         \/ \E t \in Targets : Withdraw(t)
         \/ UNCHANGED vars
  PROVE  Thorough'
  <1>1. WellFormed /\ LogIsSent /\ RemovedIsDelivered /\ TypeOK /\ TypeOK'
    BY DEF Thorough, WellFormed
  <1>2. UNCHANGED session /\ log' = log
    BY DEF Emit, Time, RetryDue, LeaseRunsOut, Withdraw, vars, session
  <1>3. \A q \in Processes : Accepted(q)' /\ Covers(q)'
    BY <1>2, OthersThorough DEF session
  <1>4. LogIsSent'
    BY <1>1, <1>2 DEF LogIsSent, SentMore
  <1>5. \A e \in Events : outbox'[e].status = "deleted" => outbox[e].status = "deleted"
    <2>1. ASSUME NEW f \in Events, Emit(f) \/ Time(f), NEW e \in Events, outbox'[e].status = "deleted"
          PROVE  outbox[e].status = "deleted"
      BY <1>1, <2>1 DEF Emit, Time, RetryDue, LeaseRunsOut, NoRow, TypeOK, Row
    <2> QED
      BY <2>1 DEF Withdraw, vars
  <1>6. RemovedIsDelivered'
    BY <1>1, <1>5, RemovedMeans DEF RemovedIsDelivered, Wants, TypeOK, SentMore
  <1> QED
    BY <1>3, <1>4, <1>6 DEF Thorough

LEMMA LeaveThorough ==
  ASSUME Thorough, NEW p \in Processes, Leave(p)
  PROVE  Accepted(p)' /\ Covers(p)' /\ Alone(p)
  <1>1. attempt'[p] = NoAttempt /\ pc'[p] = "polling" /\ Alone(p)
    BY LeaveWellFormed DEF Thorough
  <1>2. NoAttempt = [NoAttempt EXCEPT !.event = None]
    BY NoAttemptType
  <1> QED
    BY <1>1, <1>2, ParkedThorough

LEMMA PollThorough ==
  ASSUME Thorough, SentMore, WellFormed', NEW p \in Processes,
         StartDispatcher(p) \/ Claim(p) \/ GiveUp(p)
  PROVE  Thorough'
  <1>1. WellFormed /\ TypeOK /\ Shape(p) /\ Accepted(p) /\ Covers(p)
    BY DEF Thorough, WellFormed
  <1>2. \A e \in Events : outbox'[e].status = "deleted" => outbox[e].status = "deleted"
    <2>1. \/ outbox' = outbox
          \/ \E e \in Events : \E row : /\ outbox' = [outbox EXCEPT ![e] = row]
                                   /\ row.status \in {"processing", "dead"}
      <3>1. CASE StartDispatcher(p)
        BY <3>1 DEF StartDispatcher
      <3>2. CASE Claim(p)
        <4>1. PICK e \in Events :
                outbox' = [outbox EXCEPT ![e] = [status |-> "processing", attempts |-> @.attempts + 1,
                                                 by |-> p, due |-> FALSE, stale |-> FALSE]]
          BY <3>2 DEF Claim
        <4> DEFINE row == [status |-> "processing", attempts |-> outbox[e].attempts + 1,
                           by |-> p, due |-> FALSE, stale |-> FALSE]
        <4>2. row.status = "processing" /\ outbox' = [outbox EXCEPT ![e] = row]
          BY <4>1
        <4> HIDE DEF row
        <4> QED
          BY <4>2
      <3>3. CASE GiveUp(p)
        <4>1. PICK e \in Events :
                outbox' = [outbox EXCEPT ![e] = [outbox[e] EXCEPT !.status = "dead", !.by = None, !.stale = FALSE]]
          BY <3>3 DEF GiveUp
        <4>2. [outbox[e] EXCEPT !.status = "dead", !.by = None, !.stale = FALSE].status = "dead"
          BY <1>1 DEF TypeOK, Row
        <4> QED
          BY <4>1, <4>2
      <3> QED
        BY <3>1, <3>2, <3>3
    <2> QED
      BY <1>1, <2>1 DEF TypeOK
  <1>3. Alone(p)
    BY <1>1 DEF StartDispatcher, Claim, GiveUp, session, Alone, TypeOK
  <1>4. Accepted(p)' /\ Covers(p)'
    <2>1. CASE StartDispatcher(p)
      <3>1. attempt'[p] = NoAttempt /\ pc'[p] = "polling"
        BY <1>1, <2>1 DEF StartDispatcher, Shape, TypeOK
      <3>2. NoAttempt = [NoAttempt EXCEPT !.event = None]
        BY NoAttemptType
      <3> QED
        BY <3>1, <3>2, ParkedThorough
    <2>2. CASE Claim(p)
      <3>1. PICK e \in Events : attempt' = [attempt EXCEPT ![p] = [NoAttempt EXCEPT !.event = e]]
        BY <2>2 DEF Claim
      <3>2. pc'[p] = "loading" /\ attempt'[p] = [NoAttempt EXCEPT !.event = e]
        BY <1>1, <2>2, <3>1 DEF Claim, TypeOK
      <3> QED
        BY <3>2, ParkedThorough
    <2>3. CASE GiveUp(p)
      BY <2>3, OthersThorough DEF GiveUp, session
    <2> QED
      BY <2>1, <2>2, <2>3
  <1>5. log' = log
    BY DEF StartDispatcher, Claim, GiveUp
  <1> QED
    BY <1>2, <1>3, <1>4, <1>5, StepThorough

LEMMA LoadThorough ==
  ASSUME Thorough, SentMore, WellFormed', NEW p \in Processes, Load(p)
  PROVE  Thorough'
  <1>1. TypeOK /\ Shape(p) /\ Shape(p)' /\ pc[p] = "loading"
    BY DEF Thorough, WellFormed, Load
  <1>2. CASE Leave(p)
    BY <1>2, LeaveThorough, StepThorough DEF Load
  <1>3. CASE ~Leave(p)
    <2>1. /\ pc' = [pc EXCEPT ![p] = "dispatching"]
          /\ attempt' = [attempt EXCEPT ![p].left = Recipients,
                                        ![p].failed = channel \in {"apns_unset", "ha_inactive"}]
      BY <1>3 DEF Load
    <2>2. Alone(p)
      BY <1>1, <2>1 DEF Alone, TypeOK
    <2>3. /\ attempt'[p].left = Recipients /\ attempt'[p].delivered = {}
          /\ attempt'[p].answer = "none"
          /\ attempt'[p].failed = (channel \in {"apns_unset", "ha_inactive"})
      BY <1>1, <2>1 DEF TypeOK, Attempt, Shape, NoAttempt
    <2>4. Accepted(p)'
      BY <2>3 DEF Accepted, Unrecorded
    <2>5. \A t \in Targets : Wants(t) /\ channel \notin {"apns_unset", "ha_inactive"} => t \in Recipients
      BY Constants DEF Wants, Recipients, EligibleDevices
    <2>6. Covers(p)'
      <3> SUFFICES ASSUME ~attempt'[p].failed, NEW t \in Targets, Wants(t)'
                   PROVE  t \in attempt'[p].left
        BY DEF Covers
      <3> QED
        BY <2>3, <2>5 DEF SentMore
    <2> QED
      BY <2>2, <2>4, <2>6, StepThorough DEF Load
  <1> QED
    BY <1>2, <1>3

LEMMA NextRecipientThorough ==
  ASSUME Thorough, SentMore, WellFormed', NEW p \in Processes, NextRecipient(p)
  PROVE  Thorough'
  <1>1. /\ TypeOK /\ Shape(p) /\ Shape(p)' /\ pc[p] = "dispatching" /\ attempt[p] \in Attempt
        /\ Accepted(p) /\ Covers(p) /\ LogIsSent
    BY AttemptFields DEF Thorough, WellFormed, NextRecipient
  <1>2. PICK t \in attempt[p].left :
           \/ /\ log[<<t, attempt[p].event>>] = "sent"
              /\ attempt' = [attempt EXCEPT ![p] = [attempt[p] EXCEPT !.left = @ \ {t}]]
              /\ pc' = pc
           \/ /\ attempt' = [attempt EXCEPT ![p] = [attempt[p] EXCEPT !.left = @ \ {t}, !.target = t]]
              /\ pc' = [pc EXCEPT ![p] = "sending"]
    BY <1>1 DEF NextRecipient, TypeOK
  <1>3. t \in Targets /\ attempt[p].event \in Events /\ attempt[p].target = None
    BY <1>1, AttemptFields DEF Shape, Working
  <1>4. /\ attempt'[p].left = attempt[p].left \ {t}
        /\ attempt'[p].event = attempt[p].event
        /\ attempt'[p].delivered = attempt[p].delivered
        /\ attempt'[p].answer = "none" /\ attempt[p].answer = "none"
        /\ attempt'[p].failed = attempt[p].failed
        /\ attempt'[p].target = t \/ log[<<t, attempt[p].event>>] = "sent"
    <2>1. CASE /\ log[<<t, attempt[p].event>>] = "sent"
               /\ attempt' = [attempt EXCEPT ![p] = [attempt[p] EXCEPT !.left = @ \ {t}]]
      <3>1. attempt'[p] = [attempt[p] EXCEPT !.left = @ \ {t}]
        BY <1>1, <2>1 DEF TypeOK
      <3> QED
        BY <1>1, <2>1, <3>1 DEF Attempt, Shape
    <2>2. CASE attempt' = [attempt EXCEPT ![p] = [attempt[p] EXCEPT !.left = @ \ {t}, !.target = t]]
      <3>1. attempt'[p] = [attempt[p] EXCEPT !.left = @ \ {t}, !.target = t]
        BY <1>1, <2>2 DEF TypeOK
      <3> QED
        BY <1>1, <3>1 DEF Attempt, Shape
    <2> QED
      BY <1>2, <2>1, <2>2
  <1>5. Alone(p)
    BY <1>1, <1>2 DEF Alone, TypeOK
  <1>6. Accepted(p)'
    BY <1>1, <1>4 DEF Accepted, Unrecorded, NextRecipient
  <1>7. Covers(p)'
    <2> SUFFICES ASSUME ~attempt'[p].failed, NEW s \in Targets, Wants(s)'
                 PROVE  s \in attempt'[p].left \/ s = attempt'[p].target \/ sends'[<<s, attempt'[p].event>>] > 0
      BY DEF Covers
    <2>1. s \in attempt[p].left \/ sends[<<s, attempt[p].event>>] > 0
      <3>1. ~attempt[p].failed /\ Wants(s) /\ s # None
        BY <1>4, Constants DEF SentMore
      <3> QED
        BY <1>1, <1>3, <3>1 DEF Covers
    <2>2. log[<<t, attempt[p].event>>] = "sent" => sends[<<t, attempt[p].event>>] > 0
      BY <1>1, <1>3 DEF LogIsSent
    <2>3. sends' = sends
      BY DEF NextRecipient
    <2> QED
      BY <1>4, <2>1, <2>2, <2>3
  <1> QED
    BY <1>5, <1>6, <1>7, StepThorough DEF NextRecipient

LEMMA SendThorough ==
  ASSUME Thorough, SentMore, WellFormed', NEW p \in Processes, Send(p)
  PROVE  Thorough'
  <1>1. /\ TypeOK /\ WellFormed /\ Shape(p) /\ pc[p] = "sending" /\ attempt[p] \in Attempt
        /\ Accepted(p) /\ Covers(p)
        /\ attempt[p].delivered \subseteq Targets
    BY AttemptFields DEF Thorough, WellFormed, Send
  <1>2. attempt[p].target \in Targets /\ attempt[p].event \in Events
    BY <1>1 DEF Shape, Working
  <1>3. /\ attempt'[p].left = attempt[p].left
        /\ attempt'[p].event = attempt[p].event
        /\ attempt'[p].target = attempt[p].target
        /\ attempt'[p].delivered = attempt[p].delivered
        /\ attempt'[p].failed = attempt[p].failed
        /\ pc'[p] = "recording"
    BY <1>1 DEF Send, TypeOK, Attempt
  <1>4. Alone(p)
    BY <1>1 DEF Send, Alone, TypeOK
  <1>5. Accepted(p)'
    <2>1. attempt'[p].answer = "accepted" => sends'[<<attempt[p].target, attempt[p].event>>] > 0
      BY <1>1, SendCounts
    <2>2. \A t \in attempt[p].delivered : sends'[<<t, attempt[p].event>>] > 0
      BY <1>1, <1>2 DEF Accepted, Unrecorded, SentMore
    <2> QED
      BY <1>3, <2>1, <2>2 DEF Accepted, Unrecorded
  <1>6. Covers(p)'
    BY <1>1, <1>2, <1>3 DEF Covers, SentMore
  <1> QED
    BY <1>4, <1>5, <1>6, StepThorough DEF Send

LEMMA RecordThorough ==
  ASSUME Thorough, SentMore, WellFormed', NEW p \in Processes, Record(p)
  PROVE  Thorough'
  <1>1. /\ TypeOK /\ WellFormed /\ Shape(p) /\ pc[p] = "recording" /\ attempt[p] \in Attempt
        /\ Accepted(p) /\ Covers(p)
    BY AttemptFields DEF Thorough, WellFormed, Record
  <1>2. attempt[p].event \in Events
    BY <1>1 DEF Shape, Working
  <1> DEFINE t == attempt[p].target
             answer == attempt[p].answer
             delivered == IF answer = "accepted" THEN attempt[p].delivered \union {t} ELSE attempt[p].delivered
             refused == IF answer = "accepted" THEN attempt[p].refused ELSE attempt[p].refused \union {t}
             unknown == IF answer = "unknown" THEN attempt[p].unknown \union {t} ELSE attempt[p].unknown
             failed == attempt[p].failed \/ answer # "accepted"
             a == [attempt[p] EXCEPT !.target = None, !.answer = "none", !.delivered = delivered,
                                     !.refused = refused, !.unknown = unknown, !.failed = failed]
  <1>3. attempt' = [attempt EXCEPT ![p] = a]
    BY DEF Record
  <1>4. /\ a.answer = "none" /\ a.left = attempt[p].left
        /\ a.event = attempt[p].event
        /\ a.delivered = delivered /\ a.failed = failed
    <2> HIDE DEF delivered, refused, unknown, failed
    <2> QED
      BY <1>1 DEF Attempt
  <1>5. attempt'[p] = a
    <2> HIDE DEF a
    <2> QED
      BY <1>1, <1>3 DEF TypeOK
  <1>6. Alone(p)
    <2> HIDE DEF a
    <2> QED
      BY <1>1, <1>3 DEF Record, Alone, TypeOK
  <1>7. /\ attempt'[p].answer = "none" /\ attempt'[p].left = attempt[p].left
        /\ attempt'[p].event = attempt[p].event
        /\ attempt'[p].delivered = delivered /\ attempt'[p].failed = failed
    BY <1>4, <1>5
  <1> HIDE DEF a
  <1>8. delivered \subseteq Unrecorded(p)
    BY DEF Unrecorded
  <1>9. sends' = sends
    BY DEF Record
  <1>10. Accepted(p)'
    <2> HIDE DEF delivered
    <2> QED
      BY <1>1, <1>7, <1>8, <1>9 DEF Accepted, Unrecorded
  <1>11. Covers(p)'
    <2> SUFFICES ASSUME ~attempt'[p].failed, NEW s \in Targets, Wants(s)'
                 PROVE  s \in attempt'[p].left \/ sends'[<<s, attempt'[p].event>>] > 0
      BY DEF Covers
    <2>1. ~attempt[p].failed /\ answer = "accepted"
      BY <1>7
    <2>2. sends[<<t, attempt[p].event>>] > 0
      BY <1>1, <2>1 DEF Accepted, Unrecorded
    <2>3. s \in attempt[p].left \/ s = t \/ sends[<<s, attempt[p].event>>] > 0
      BY <1>1, <2>1 DEF Covers, SentMore
    <2> QED
      BY <1>7, <1>9, <2>2, <2>3
  <1> QED
    BY <1>6, <1>10, <1>11, StepThorough DEF Record

LEMMA FaultThorough ==
  ASSUME Thorough, SentMore, WellFormed', NEW p \in Processes,
         RecordFails(p) \/ AbortDeadlocked(p) \/ StatementFails(p) \/ Crash(p)
  PROVE  Thorough'
  <1>1. TypeOK
    BY DEF Thorough, WellFormed
  <1>2. outbox' = outbox /\ log' = log
    BY DEF RecordFails, AbortDeadlocked, StatementFails, Crash
  <1>3. CASE Leave(p)
    BY <1>2, <1>3, LeaveThorough, StepThorough
  <1>4. CASE ~Leave(p)
    <2>1. /\ attempt' = [attempt EXCEPT ![p] = [NoAttempt EXCEPT !.event = attempt[p].event]]
          /\ pc' = [pc EXCEPT ![p] = "marking"] \/ pc' = [pc EXCEPT ![p] = "crashed"]
      BY <1>4 DEF RecordFails, AbortDeadlocked, StatementFails, Crash, RollBack
    <2>2. attempt'[p] = [NoAttempt EXCEPT !.event = attempt[p].event] /\ pc'[p] \in {"marking", "crashed"}
      BY <1>1, <2>1 DEF TypeOK
    <2>3. Alone(p)
      BY <1>1, <2>1 DEF Alone, TypeOK
    <2> QED
      BY <1>2, <2>2, <2>3, ParkedThorough, StepThorough
  <1> QED
    BY <1>3, <1>4

LEMMA CompleteThorough ==
  ASSUME Thorough, SentMore, WellFormed', NEW p \in Processes, Complete(p)
  PROVE  Thorough'
  <1>1. TypeOK /\ Shape(p) /\ Covers(p) /\ pc[p] = "dispatching" /\ attempt[p].left = {} /\ ~attempt[p].failed
    BY DEF Thorough, WellFormed, Complete, Served
  <1>2. attempt[p].event \in Events /\ attempt[p].target = None
    BY <1>1 DEF Shape, Working
  <1>3. \A t \in Targets : Wants(t) => sends[<<t, attempt[p].event>>] > 0
    BY <1>1, <1>2, Constants DEF Covers
  <1>4. \A e \in Events : outbox'[e].status = "deleted" =>
          outbox[e].status = "deleted" \/ \A t \in Targets : Wants(t)' => sends'[<<t, e>>] > 0
    <2>1. \A e \in Events : outbox'[e] = outbox[e] \/ e = attempt[p].event
      BY <1>1, <1>2 DEF Complete, TypeOK
    <2> QED
      BY <1>2, <1>3, <2>1 DEF SentMore
  <1> QED
    BY <1>4, LeaveThorough, StepThorough DEF Complete

LEMMA FailThorough ==
  ASSUME Thorough, SentMore, WellFormed', NEW p \in Processes, Fail(p)
  PROVE  Thorough'
  <1>1. TypeOK
    BY DEF Thorough, WellFormed
  <1>2. attempt'[p] = [NoAttempt EXCEPT !.event = attempt[p].event] /\ pc'[p] = "marking"
    BY <1>1 DEF Fail, TypeOK
  <1>3. Alone(p)
    BY <1>1 DEF Fail, Alone, TypeOK
  <1> QED
    BY <1>2, <1>3, ParkedThorough, StepThorough DEF Fail

LEMMA MarkFailedThorough ==
  ASSUME Thorough, SentMore, WellFormed', NEW p \in Processes, MarkFailed(p)
  PROVE  Thorough'
  <1>1. TypeOK
    BY DEF Thorough, WellFormed
  <1>2. PICK e : e = attempt[p].event
    OBVIOUS
  <1>3. PICK status \in {"dead", "retry"} :
            \/ outbox' = outbox
            \/ outbox' = [outbox EXCEPT ![e] = [outbox[e] EXCEPT !.status = status, !.by = None, !.stale = FALSE]]
    <2>1. CASE outbox[e].attempts >= MaxAttempts
      <3> WITNESS "dead" \in {"dead", "retry"}
      <3> QED
        BY <1>2, <2>1 DEF MarkFailed
    <2>2. CASE ~(outbox[e].attempts >= MaxAttempts)
      <3> WITNESS "retry" \in {"dead", "retry"}
      <3> QED
        BY <1>2, <2>2 DEF MarkFailed
    <2> QED
      BY <2>1, <2>2
  <1>4. \A f \in Events : outbox'[f].status = "deleted" => outbox[f].status = "deleted"
    <2> SUFFICES ASSUME NEW f \in Events, outbox'[f] # outbox[f] PROVE outbox'[f].status # "deleted"
      OBVIOUS
    <2>1. outbox'[f] = [outbox[f] EXCEPT !.status = status, !.by = None, !.stale = FALSE]
      BY <1>1, <1>3 DEF TypeOK
    <2> QED
      BY <1>1, <2>1 DEF TypeOK, Row
  <1> QED
    BY <1>4, LeaveThorough, StepThorough DEF MarkFailed

LEMMA InitThorough == Init => Thorough
  <1> SUFFICES ASSUME Init PROVE Thorough
    OBVIOUS
  <1>1. LogIsSent /\ RemovedIsDelivered
    BY DEF Init, LogIsSent, RemovedIsDelivered, NoRow
  <1>2. \A p \in Processes : Accepted(p) /\ Covers(p)
    BY DEF Init, Accepted, Covers, Unrecorded, NoAttempt
  <1> QED
    BY <1>1, <1>2, InitWellFormed DEF Thorough

LEMMA NextThorough == Thorough /\ [Next]_vars => Thorough'
  <1> SUFFICES ASSUME Thorough, [Next]_vars PROVE Thorough'
    OBVIOUS
  <1>1. WellFormed' /\ SentMore
    BY NextWellFormed, NextSentMore DEF Thorough
  <1>2. ASSUME NEW p \in Processes, Dispatch(p) \/ StatementFails(p) \/ Crash(p) PROVE Thorough'
    BY <1>1, <1>2, PollThorough, LoadThorough, NextRecipientThorough, SendThorough, RecordThorough,
       FaultThorough, CompleteThorough, FailThorough, MarkFailedThorough DEF Dispatch
  <1> QED
    BY <1>1, <1>2, TableThorough DEF Next

(* A row is removed only when every recipient who is still registered and  *)
(* entitled has been sent the notification: an attempt that is resumed,    *)
(* taken over or rolled back skips those on record and no others.          *)
THEOREM RemovedIsAlwaysDelivered == Spec => []RemovedIsDelivered
  <1>1. Spec => []Thorough
    BY InitThorough, NextThorough, PTL DEF Spec
  <1>2. Thorough => RemovedIsDelivered
    BY DEF Thorough
  <1> QED
    BY <1>1, <1>2, PTL

-----------------------------------------------------------------------------
(* Nobody is notified twice without a reason. *)

(* While no lease ran out, a row is worked on by the one who leased it,    *)
(* and not for a recipient whose delivery is on record.                    *)
Sole(p) ==
  LET e == attempt[p].event IN
  Working(p) /\ e \notin overrun =>
    /\ outbox[e].status = "processing" /\ outbox[e].by = p /\ ~outbox[e].stale
    /\ \A t \in Targets : t \in Uncommitted(p) \/ t = attempt[p].target => log[<<t, e>>] # "sent"

(* The one notification that t accepted is on record, or the session that  *)
(* will record it is open.                                                 *)
Noted(t, e) ==
  \/ lost[<<t, e>>] # "none" \/ e \in overrun
  \/ sends[<<t, e>>] = 0
  \/ /\ sends[<<t, e>>] = 1
     /\ log[<<t, e>>] = "sent" \/ \E p \in AtWork(e) : t \in Unrecorded(p)

Careful ==
  /\ WellFormed
  /\ \A p \in Processes : Sole(p)
  /\ \A t \in Targets, e \in Events : Noted(t, e)

LEMMA OnlyOne ==
  ASSUME Careful, NEW p \in Processes, NEW q \in Processes, Working(p), Working(q),
         attempt[p].event = attempt[q].event, attempt[p].event \notin overrun
  PROVE  p = q
  BY DEF Careful, Sole

LEMMA OthersSole ==
  ASSUME Careful, NEW q \in Processes, pc'[q] = pc[q], attempt'[q] = attempt[q],
         overrun \subseteq overrun',
         Working(q) /\ attempt[q].event \notin overrun' =>
           /\ outbox'[attempt[q].event] = outbox[attempt[q].event]
           /\ \A t \in Targets : log'[<<t, attempt[q].event>>] = log[<<t, attempt[q].event>>]
  PROVE  Sole(q)'
  <1>1. Sole(q)
    BY DEF Careful
  <1> QED
    BY <1>1 DEF Sole, Working, Uncommitted

LEMMA StepAlone ==
  ASSUME WellFormed, NEW p \in Processes, Dispatch(p) \/ StatementFails(p) \/ Crash(p)
  PROVE  Alone(p) /\ overrun' = overrun
  <1>1. TypeOK
    BY DEF WellFormed
  <1>2. CASE StartDispatcher(p) \/ Claim(p) \/ GiveUp(p)
    BY <1>1, <1>2 DEF StartDispatcher, Claim, GiveUp, session, Alone, TypeOK
  <1>3. CASE Load(p) \/ NextRecipient(p) \/ Send(p)
    BY <1>1, <1>3 DEF Load, Leave, NextRecipient, Send, Alone, TypeOK
  <1>4. CASE Record(p)
    BY <1>1, <1>4 DEF Record, Alone, TypeOK
  <1>5. CASE RecordFails(p) \/ AbortDeadlocked(p) \/ StatementFails(p) \/ Crash(p)
    BY <1>1, <1>5 DEF RecordFails, AbortDeadlocked, StatementFails, Crash, Leave, RollBack, Alone, TypeOK
  <1>6. CASE Complete(p) \/ Fail(p) \/ MarkFailed(p)
    BY <1>1, <1>6 DEF Complete, Fail, MarkFailed, Leave, Alone, TypeOK
  <1> QED
    BY <1>2, <1>3, <1>4, <1>5, <1>6 DEF Dispatch

(* A step of p on the rows and the log of another.                         *)
LEMMA StepSpares ==
  ASSUME Careful, NEW p \in Processes, Dispatch(p) \/ StatementFails(p) \/ Crash(p),
         NEW q \in Processes \ {p}, Working(q), NEW e \in Events \ overrun, e = attempt[q].event
  PROVE  /\ outbox'[e] = outbox[e]
         /\ \A t \in Targets : log'[<<t, e>>] = log[<<t, e>>]
  <1>1. TypeOK /\ Sole(q)
    BY DEF Careful, WellFormed
  <1>2. CASE Claim(p) \/ GiveUp(p)
    <2>1. ~Eligible(e)
      BY <1>1 DEF Sole, Eligible
    <2>2. \E f \in Events : Oldest(f) /\ \E row : outbox' = [outbox EXCEPT ![f] = row]
      BY <1>2 DEF Claim, GiveUp
    <2>3. log' = log
      BY <1>2 DEF Claim, GiveUp
    <2> QED
      BY <1>1, <2>1, <2>2, <2>3 DEF Oldest, TypeOK
  <1>3. CASE Complete(p) \/ Fail(p) \/ MarkFailed(p)
    <2>1. Working(p)
      BY <1>3 DEF Complete, Fail, Served, MarkFailed, Working
    <2>2. attempt[p].event # e
      BY <2>1, OnlyOne
    <2>3. outbox'[e] = outbox[e]
      BY <1>1, <1>3, <2>2 DEF Complete, Fail, MarkFailed, TypeOK
    <2>4. \A t \in Targets : LogOf(p)[<<t, e>>] = log[<<t, e>>]
      BY <2>2 DEF LogOf
    <2> QED
      BY <1>3, <2>3, <2>4 DEF Complete, Fail, MarkFailed
  <1>4. CASE \/ StartDispatcher(p) \/ Load(p) \/ NextRecipient(p) \/ Send(p) \/ Record(p)
             \/ RecordFails(p) \/ AbortDeadlocked(p) \/ StatementFails(p) \/ Crash(p)
    BY <1>4 DEF StartDispatcher, Load, NextRecipient, Send, Record, RecordFails, AbortDeadlocked,
                StatementFails, Crash
  <1> QED
    BY <1>2, <1>3, <1>4 DEF Dispatch

LEMMA StepCareful ==
  ASSUME Careful, WellFormed', NEW p \in Processes, Dispatch(p) \/ StatementFails(p) \/ Crash(p),
         Sole(p)', \A t \in Targets, e \in Events : Noted(t, e)'
  PROVE  Careful'
  <1>1. WellFormed /\ Alone(p) /\ overrun' = overrun
    BY StepAlone DEF Careful
  <1>2. ASSUME NEW q \in Processes \ {p} PROVE Sole(q)'
    <2>1. Working(q) => attempt[q].event \in Events
      BY <1>1 DEF WellFormed, Shape
    <2> QED
      BY <1>1, <2>1, OthersSole, StepSpares DEF Alone
  <1> QED
    BY <1>2 DEF Careful

(* When nothing is sent.                                                   *)
LEMMA KeepsNoted ==
  ASSUME Careful, NEW p \in Processes, Alone(p), NEW t \in Targets, NEW e \in Events,
         sends'[<<t, e>>] = sends[<<t, e>>], overrun \subseteq overrun',
         lost[<<t, e>>] # "none" => lost'[<<t, e>>] # "none",
         e \notin overrun /\ log[<<t, e>>] = "sent" => log'[<<t, e>>] = "sent",
         attempt[p].event = e /\ t \in Unrecorded(p) =>
           \/ lost'[<<t, e>>] # "none" \/ log'[<<t, e>>] = "sent"
           \/ Working(p)' /\ attempt'[p].event = e /\ t \in Unrecorded(p)'
  PROVE  Noted(t, e)'
  <1>1. CASE lost[<<t, e>>] # "none" \/ e \in overrun \/ sends[<<t, e>>] = 0
    BY <1>1 DEF Noted
  <1>2. CASE e \notin overrun /\ sends[<<t, e>>] = 1 /\ log[<<t, e>>] = "sent"
    BY <1>2 DEF Noted
  <1>3. ASSUME sends[<<t, e>>] = 1, NEW q \in AtWork(e), t \in Unrecorded(q) PROVE Noted(t, e)'
    <2>1. q # p => q \in AtWork(e)' /\ t \in Unrecorded(q)'
      BY <1>3 DEF AtWork, Working, Unrecorded, Alone
    <2>2. q = p => \/ lost'[<<t, e>>] # "none" \/ log'[<<t, e>>] = "sent"
                   \/ p \in AtWork(e)' /\ t \in Unrecorded(p)'
      BY <1>3 DEF AtWork
    <2> QED
      BY <1>3, <2>1, <2>2 DEF Noted
  <1> QED
    BY <1>1, <1>2, <1>3 DEF Careful, Noted

LEMMA IdleCareful ==
  ASSUME Careful, NEW p \in Processes, ~Working(p)'
  PROVE  Sole(p)'
  BY DEF Sole

LEMMA NothingInHand ==
  ASSUME WellFormed, NEW p \in Processes,
         pc[p] \in {"down", "polling", "loading", "marking", "crashed"}
  PROVE  Unrecorded(p) = {} /\ Uncommitted(p) = {} /\ attempt[p].target = None
  <1>1. Shape(p)
    BY DEF WellFormed
  <1>2. /\ attempt[p].delivered = {} /\ attempt[p].refused = {} /\ attempt[p].answer = "none"
        /\ attempt[p].target = None
    BY <1>1 DEF Shape, NoAttempt
  <1> QED
    BY <1>2 DEF Unrecorded, Uncommitted

LEMMA TableCareful ==
  ASSUME Careful, WellFormed',
         \/ \E e \in Events : Emit(e) \/ Time(e)
         \/ \E t \in Targets : Withdraw(t)
         \/ UNCHANGED vars
  PROVE  Careful'
  <1>1. TypeOK /\ WellFormed /\ \A p \in Processes : Sole(p) /\ Shape(p)
    BY DEF Careful, WellFormed
  <1>2. UNCHANGED <<session, log, sends, lost>> /\ overrun \subseteq overrun'
    BY DEF Emit, Time, RetryDue, LeaseRunsOut, Withdraw, vars, session
  <1>3. ASSUME NEW p \in Processes PROVE Sole(p)'
    <2> SUFFICES ASSUME NEW e, e = attempt[p].event, Working(p), e \notin overrun'
                 PROVE  outbox'[e] = outbox[e]
      BY <1>2, OthersSole DEF session
    <2>1. e \in Events /\ outbox[e].status = "processing" /\ outbox[e].by = p /\ ~outbox[e].stale
      BY <1>1, <1>2 DEF Sole, Shape
    <2>2. p \in AtWork(e)
      BY DEF AtWork
    <2>3. ASSUME NEW f \in Events, Emit(f) PROVE outbox'[e] = outbox[e]
      BY <1>1, <2>1, <2>3 DEF Emit, TypeOK
    <2>4. ASSUME NEW f \in Events, RetryDue(f) PROVE outbox'[e] = outbox[e]
      BY <1>1, <2>1, <2>4 DEF RetryDue, TypeOK
    <2>5. ASSUME NEW f \in Events, LeaseRunsOut(f) PROVE outbox'[e] = outbox[e]
      BY <1>1, <2>1, <2>2, <2>5 DEF LeaseRunsOut, TypeOK
    <2> QED
      BY <2>3, <2>4, <2>5 DEF Time, Withdraw, vars
  <1>4. ASSUME NEW t \in Targets, NEW e \in Events PROVE Noted(t, e)'
    <2>1. Noted(t, e)
      BY DEF Careful
    <2>2. \A p \in AtWork(e) : p \in AtWork(e)' /\ Unrecorded(p)' = Unrecorded(p)
      BY <1>2 DEF AtWork, Working, Unrecorded, session
    <2> QED
      BY <1>2, <2>1, <2>2 DEF Noted
  <1> QED
    BY <1>3, <1>4 DEF Careful

LEMMA PollCareful ==
  ASSUME Careful, WellFormed', NEW p \in Processes, StartDispatcher(p) \/ Claim(p) \/ GiveUp(p)
  PROVE  Careful'
  <1>1. TypeOK /\ WellFormed /\ Alone(p) /\ overrun' = overrun
    BY StepAlone DEF Careful, WellFormed, Dispatch
  <1>2. UNCHANGED <<log, sends, lost>> /\ pc[p] \in {"down", "polling"}
    BY DEF StartDispatcher, Claim, GiveUp
  <1>3. \A t \in Targets, e \in Events : Noted(t, e)'
    BY <1>1, <1>2, NothingInHand, KeepsNoted
  <1>4. Sole(p)'
    <2>1. CASE ~Claim(p)
      <3>1. pc'[p] = "polling"
        BY <1>1, <2>1 DEF StartDispatcher, GiveUp, session, TypeOK
      <3> QED
        BY <3>1, IdleCareful DEF Working
    <2>2. CASE Claim(p)
      <3>1. PICK e \in Events :
              /\ outbox' = [outbox EXCEPT ![e] = [status |-> "processing", attempts |-> @.attempts + 1,
                                                  by |-> p, due |-> FALSE, stale |-> FALSE]]
              /\ attempt' = [attempt EXCEPT ![p] = [NoAttempt EXCEPT !.event = e]]
        BY <2>2 DEF Claim
      <3>2. outbox'[e].status = "processing" /\ outbox'[e].by = p /\ ~outbox'[e].stale
        BY <1>1, <3>1 DEF TypeOK
      <3>3. attempt'[p] = [NoAttempt EXCEPT !.event = e]
        BY <1>1, <3>1 DEF TypeOK
      <3>4. attempt'[p].event = e /\ attempt'[p].target = None
            /\ attempt'[p].delivered = {} /\ attempt'[p].refused = {}
        BY <3>3 DEF NoAttempt
      <3> QED
        BY <3>2, <3>4, Constants DEF Sole, Uncommitted
    <2> QED
      BY <2>1, <2>2
  <1> QED
    BY <1>3, <1>4, StepCareful DEF Dispatch

LEMMA LeaveCareful ==
  ASSUME Careful, NEW p \in Processes, Leave(p)
  PROVE  Sole(p)'
  <1>1. pc'[p] = "polling"
    BY LeaveWellFormed DEF Careful
  <1> QED
    BY <1>1, IdleCareful DEF Working

LEMMA LoadCareful ==
  ASSUME Careful, WellFormed', NEW p \in Processes, Load(p)
  PROVE  Careful'
  <1>1. TypeOK /\ WellFormed /\ Alone(p) /\ overrun' = overrun /\ Shape(p) /\ Shape(p)' /\ Sole(p)
    BY StepAlone DEF Careful, WellFormed, Dispatch
  <1>2. UNCHANGED <<log, sends, lost, outbox>> /\ pc[p] = "loading" /\ Working(p)
    BY DEF Load, Working
  <1>3. \A t \in Targets, e \in Events : Noted(t, e)'
    BY <1>1, <1>2, NothingInHand, KeepsNoted
  <1>4. Sole(p)'
    <2>1. CASE Leave(p)
      BY <2>1, LeaveCareful
    <2>2. CASE ~Leave(p)
      <3>1. attempt' = [attempt EXCEPT ![p].left = Recipients,
                                       ![p].failed = channel \in {"apns_unset", "ha_inactive"}]
        BY <2>2 DEF Load
      <3>2. /\ attempt'[p].event = attempt[p].event /\ attempt'[p].target = attempt[p].target
            /\ attempt'[p].delivered = attempt[p].delivered /\ attempt'[p].refused = attempt[p].refused
        BY <1>1, <3>1 DEF TypeOK, Attempt
      <3> QED
        BY <1>1, <1>2, <3>2 DEF Sole, Uncommitted
    <2> QED
      BY <2>1, <2>2
  <1> QED
    BY <1>3, <1>4, StepCareful DEF Dispatch

LEMMA NextRecipientCareful ==
  ASSUME Careful, WellFormed', NEW p \in Processes, NextRecipient(p)
  PROVE  Careful'
  <1>1. /\ TypeOK /\ WellFormed /\ Alone(p) /\ overrun' = overrun /\ Shape(p) /\ Sole(p)
        /\ attempt[p] \in Attempt
    BY StepAlone, AttemptFields DEF Careful, WellFormed, Dispatch
  <1>2. UNCHANGED <<log, sends, lost, outbox>> /\ pc[p] = "dispatching" /\ Working(p)
    BY DEF NextRecipient, Working
  <1>3. PICK t \in attempt[p].left :
           \/ /\ attempt' = [attempt EXCEPT ![p] = [attempt[p] EXCEPT !.left = @ \ {t}]]
              /\ pc' = pc
           \/ /\ attempt' = [attempt EXCEPT ![p] = [attempt[p] EXCEPT !.left = @ \ {t}, !.target = t]]
              /\ pc' = [pc EXCEPT ![p] = "sending"]
              /\ log[<<t, attempt[p].event>>] # "sent"
    BY <1>1 DEF NextRecipient, TypeOK
  <1>4. /\ attempt'[p].event = attempt[p].event
        /\ attempt'[p].delivered = attempt[p].delivered
        /\ attempt'[p].refused = attempt[p].refused
        /\ attempt'[p].answer = "none" /\ attempt[p].answer = "none"
        /\ \/ attempt'[p].target = attempt[p].target
           \/ attempt'[p].target = t /\ log[<<t, attempt[p].event>>] # "sent"
    <2>1. CASE attempt' = [attempt EXCEPT ![p] = [attempt[p] EXCEPT !.left = @ \ {t}]]
      <3>1. attempt'[p] = [attempt[p] EXCEPT !.left = @ \ {t}]
        BY <1>1, <2>1 DEF TypeOK
      <3> QED
        BY <1>1, <1>2, <3>1 DEF Attempt, Shape
    <2>2. CASE /\ attempt' = [attempt EXCEPT ![p] = [attempt[p] EXCEPT !.left = @ \ {t}, !.target = t]]
               /\ log[<<t, attempt[p].event>>] # "sent"
      <3>1. attempt'[p] = [attempt[p] EXCEPT !.left = @ \ {t}, !.target = t]
        BY <1>1, <2>2 DEF TypeOK
      <3> QED
        BY <1>1, <1>2, <2>2, <3>1 DEF Attempt, Shape
    <2> QED
      BY <1>3, <2>1, <2>2
  <1>5. Working(p)'
    BY <1>1, <1>2, <1>3 DEF Working, TypeOK
  <1>6. Sole(p)'
    BY <1>1, <1>2, <1>4 DEF Sole, Uncommitted
  <1>7. \A s \in Targets, e \in Events : Noted(s, e)'
    <2>1. Unrecorded(p)' = Unrecorded(p)
      BY <1>4 DEF Unrecorded
    <2> QED
      BY <1>1, <1>2, <1>4, <1>5, <2>1, KeepsNoted
  <1> QED
    BY <1>6, <1>7, StepCareful DEF Dispatch

LEMMA SendCareful ==
  ASSUME Careful, WellFormed', NEW p \in Processes, Send(p)
  PROVE  Careful'
  <1>1. /\ TypeOK /\ WellFormed /\ Alone(p) /\ overrun' = overrun /\ Shape(p) /\ Sole(p)
        /\ attempt[p] \in Attempt
    BY StepAlone, AttemptFields DEF Careful, WellFormed, Dispatch
  <1>2. /\ UNCHANGED <<log, outbox>> /\ pc[p] = "sending" /\ Working(p)
        /\ \A pair \in Targets \X Events : lost[pair] # "none" => lost'[pair] # "none"
    BY <1>1, SendCounts DEF Send, Working
  <1>3. /\ attempt'[p].event = attempt[p].event
        /\ attempt'[p].target = attempt[p].target
        /\ attempt'[p].delivered = attempt[p].delivered
        /\ attempt'[p].refused = attempt[p].refused
        /\ attempt[p].answer = "none"
    BY <1>1, <1>2 DEF Send, TypeOK, Attempt, Shape
  <1>4. attempt[p].target \in Targets \ Uncommitted(p) /\ attempt[p].event \in Events
    BY <1>1, <1>2 DEF Shape
  <1>5. Sole(p)'
    BY <1>1, <1>2, <1>3 DEF Sole, Uncommitted
  <1>6. Working(p)' /\ Unrecorded(p) \subseteq Unrecorded(p)'
    <2>1. pc'[p] = "recording"
      BY <1>1 DEF Send, TypeOK
    <2> QED
      BY <1>3, <2>1 DEF Unrecorded, Working
  <1>7. ASSUME NEW t \in Targets, NEW e \in Events PROVE Noted(t, e)'
    <2>1. CASE lost'[<<t, e>>] # "none"
      BY <2>1 DEF Noted
    <2>2. CASE sends'[<<t, e>>] = sends[<<t, e>>]
      BY <1>1, <1>2, <1>3, <1>6, <2>2, KeepsNoted
    <2>3. CASE sends'[<<t, e>>] # sends[<<t, e>>] /\ lost'[<<t, e>>] = "none"
      <3>1. /\ t = attempt[p].target /\ e = attempt[p].event
            /\ attempt'[p].answer = "accepted"
            /\ sends'[<<t, e>>] = sends[<<t, e>>] + 1
        <4>1. <<t, e>> = <<attempt[p].target, attempt[p].event>>
          BY <1>1, <2>3, SendCounts
        <4>2. attempt'[p].answer = "accepted"
          BY <1>1, <2>3, SendCounts
        <4>3. sends' = [sends EXCEPT ![<<t, e>>] = sends[<<t, e>>] + 1]
          BY <2>3, <4>1 DEF Send
        <4> QED
          BY <1>1, <4>1, <4>2, <4>3 DEF TypeOK
      <3>2. p \in AtWork(e)' /\ t \in Unrecorded(p)'
        BY <1>3, <1>6, <3>1 DEF AtWork, Unrecorded
      <3>3. CASE e \in overrun \/ lost[<<t, e>>] # "none"
        BY <1>1, <1>2, <3>3 DEF Noted
      <3>4. CASE e \notin overrun /\ lost[<<t, e>>] = "none"
        <4>1. log[<<t, e>>] # "sent"
          BY <1>1, <1>2, <3>1, <3>4 DEF Sole
        <4>2. \A q \in AtWork(e) : t \notin Unrecorded(q)
          <5> SUFFICES ASSUME NEW q \in AtWork(e) PROVE t \notin Unrecorded(q)
            OBVIOUS
          <5>1. q = p
            BY <1>2, <3>1, <3>4, OnlyOne DEF AtWork
          <5> QED
            BY <1>3, <1>4, <3>1, <5>1 DEF Unrecorded, Uncommitted
        <4>3. sends[<<t, e>>] = 0
          BY <3>4, <4>1, <4>2 DEF Careful, Noted
        <4> QED
          BY <3>1, <3>2, <4>3 DEF Noted
      <3> QED
        BY <3>3, <3>4
    <2> QED
      BY <2>2, <2>3, <2>1
  <1> QED
    BY <1>5, <1>7, StepCareful DEF Dispatch

LEMMA RecordCareful ==
  ASSUME Careful, WellFormed', NEW p \in Processes, Record(p)
  PROVE  Careful'
  <1>1. /\ TypeOK /\ WellFormed /\ Alone(p) /\ overrun' = overrun /\ Shape(p) /\ Sole(p)
        /\ attempt[p] \in Attempt
    BY StepAlone, AttemptFields DEF Careful, WellFormed, Dispatch
  <1>2. UNCHANGED <<log, sends, lost, outbox>> /\ pc[p] = "recording" /\ Working(p)
    BY DEF Record, Working
  <1> DEFINE t == attempt[p].target
             answer == attempt[p].answer
             delivered == IF answer = "accepted" THEN attempt[p].delivered \union {t} ELSE attempt[p].delivered
             refused == IF answer = "accepted" THEN attempt[p].refused ELSE attempt[p].refused \union {t}
             unknown == IF answer = "unknown" THEN attempt[p].unknown \union {t} ELSE attempt[p].unknown
             failed == attempt[p].failed \/ answer # "accepted"
             a == [attempt[p] EXCEPT !.target = None, !.answer = "none", !.delivered = delivered,
                                     !.refused = refused, !.unknown = unknown, !.failed = failed]
  <1>3. attempt' = [attempt EXCEPT ![p] = a]
    BY DEF Record
  <1>4. a.event = attempt[p].event /\ a.target = None /\ a.delivered = delivered /\ a.refused = refused
    <2> HIDE DEF delivered, refused, unknown, failed
    <2> QED
      BY <1>1 DEF Attempt
  <1>5. attempt'[p] = a
    <2> HIDE DEF a
    <2> QED
      BY <1>1, <1>3 DEF TypeOK
  <1>6. /\ attempt'[p].event = attempt[p].event /\ attempt'[p].target = None
        /\ attempt'[p].delivered = delivered /\ attempt'[p].refused = refused
    BY <1>4, <1>5
  <1> HIDE DEF a
  <1>7. Working(p)'
    BY <1>1 DEF Record, Working, TypeOK
  <1>8. Sole(p)'
    <2>1. \A s \in Targets : s \in Uncommitted(p)' \/ s = attempt'[p].target =>
             s \in Uncommitted(p) \/ s = attempt[p].target
      BY <1>6, Constants DEF Uncommitted
    <2> QED
      BY <1>1, <1>2, <1>6, <2>1 DEF Sole
  <1>9. Unrecorded(p) \subseteq Unrecorded(p)'
    BY <1>6 DEF Unrecorded
  <1>10. \A s \in Targets, e \in Events : Noted(s, e)'
    BY <1>1, <1>2, <1>6, <1>7, <1>9, KeepsNoted
  <1> QED
    BY <1>8, <1>10, StepCareful DEF Dispatch

LEMMA FaultCareful ==
  ASSUME Careful, WellFormed', NEW p \in Processes,
         RecordFails(p) \/ AbortDeadlocked(p) \/ StatementFails(p) \/ Crash(p)
  PROVE  Careful'
  <1>1. TypeOK /\ WellFormed /\ Alone(p) /\ overrun' = overrun /\ Sole(p)
    BY StepAlone DEF Careful, WellFormed, Dispatch
  <1>2. UNCHANGED <<log, sends, outbox>>
    BY DEF RecordFails, AbortDeadlocked, StatementFails, Crash
  <1>3. CASE StatementFails(p) /\ pc[p] = "marking" /\ Leave(p) /\ UNCHANGED lost
    <2>1. \A t \in Targets, e \in Events : Noted(t, e)'
      BY <1>1, <1>2, <1>3, NothingInHand, KeepsNoted
    <2> QED
      BY <1>3, <2>1, LeaveCareful, StepCareful
  <1>4. CASE ~(StatementFails(p) /\ pc[p] = "marking" /\ Leave(p) /\ UNCHANGED lost)
    <2>1. /\ \E cause \in Causes : RollBack(p, cause)
          /\ \/ pc' = [pc EXCEPT ![p] = "crashed"]
             \/ pc' = [pc EXCEPT ![p] = "marking"] /\ Working(p)
      <3>1. \A q \in WaitsFor(p) : pc[p] \in {"recording", "dispatching"}
        BY DEF WaitsFor
      <3> QED
        BY <1>4, <3>1 DEF RecordFails, AbortDeadlocked, StatementFails, Crash, Causes, Working
    <2>2. attempt'[p] = [NoAttempt EXCEPT !.event = attempt[p].event]
      BY <1>1, <2>1 DEF RollBack, TypeOK
    <2>3. /\ attempt'[p].event = attempt[p].event /\ attempt'[p].target = None
          /\ attempt'[p].delivered = {} /\ attempt'[p].refused = {}
      BY <2>2 DEF NoAttempt
    <2>4. Sole(p)'
      <3>1. Working(p)' => Working(p)
        BY <1>1, <2>1 DEF Working, TypeOK
      <3> QED
        BY <1>1, <1>2, <2>3, <3>1, Constants DEF Sole, Uncommitted
    <2>5. ASSUME NEW t \in Targets, NEW e \in Events PROVE Noted(t, e)'
      <3>1. /\ lost[<<t, e>>] # "none" => lost'[<<t, e>>] # "none"
            /\ attempt[p].event = e /\ t \in Unrecorded(p) => lost'[<<t, e>>] # "none"
        <4>1. PICK cause \in Causes : RollBack(p, cause)
          BY <2>1
        <4>2. lost'[<<t, e>>] = IF t \in Unrecorded(p) /\ e = attempt[p].event /\ lost[<<t, e>>] = "none"
                                THEN cause ELSE lost[<<t, e>>]
          BY <4>1 DEF RollBack
        <4>3. cause # "none"
          BY DEF Causes
        <4> QED
          BY <4>2, <4>3
      <3> QED
        BY <1>1, <1>2, <3>1, KeepsNoted
    <2> QED
      BY <2>4, <2>5, StepCareful DEF Dispatch
  <1> QED
    BY <1>3, <1>4

(* Committing the log rows of a session. *)
LEMMA LogNoted ==
  ASSUME Careful, NEW p \in Processes, Alone(p), pc[p] = "dispatching",
         log' = LogOf(p), UNCHANGED <<sends, lost, overrun>>
  PROVE  \A t \in Targets, e \in Events : Noted(t, e)'
  <1>1. Sole(p) /\ Working(p) /\ Shape(p)
    BY DEF Careful, Working, WellFormed
  <1>2. ASSUME NEW t \in Targets, NEW e \in Events PROVE Noted(t, e)'
    <2>1. log'[<<t, e>>] = IF e # attempt[p].event THEN log[<<t, e>>]
                           ELSE IF t \in attempt[p].delivered THEN "sent"
                           ELSE IF t \in attempt[p].refused THEN "failed"
                           ELSE log[<<t, e>>]
      BY DEF LogOf
    <2>2. attempt[p].event = e /\ t \in Unrecorded(p) => log'[<<t, e>>] = "sent"
      BY <1>1, <2>1 DEF Unrecorded, Shape
    <2>3. e \notin overrun /\ log[<<t, e>>] = "sent" => log'[<<t, e>>] = "sent"
      BY <1>1, <2>1 DEF Sole, Uncommitted
    <2> QED
      BY <2>2, <2>3, KeepsNoted
  <1> QED
    BY <1>2

LEMMA CompleteCareful ==
  ASSUME Careful, WellFormed', NEW p \in Processes, Complete(p)
  PROVE  Careful'
  <1>1. Alone(p) /\ overrun' = overrun
    BY StepAlone DEF Careful, Dispatch
  <1>2. \A t \in Targets, e \in Events : Noted(t, e)'
    BY <1>1, LogNoted DEF Complete, Served
  <1>3. Sole(p)'
    BY LeaveCareful DEF Complete
  <1> QED
    BY <1>2, <1>3, StepCareful DEF Dispatch

LEMMA FailCareful ==
  ASSUME Careful, WellFormed', NEW p \in Processes, Fail(p)
  PROVE  Careful'
  <1>1. TypeOK /\ Alone(p) /\ overrun' = overrun /\ Sole(p)
    BY StepAlone DEF Careful, WellFormed, Dispatch
  <1>2. \A t \in Targets, e \in Events : Noted(t, e)'
    BY <1>1, LogNoted DEF Fail, Served
  <1>3. attempt'[p] = [NoAttempt EXCEPT !.event = attempt[p].event]
    BY <1>1 DEF Fail, TypeOK
  <1>4. /\ attempt'[p].event = attempt[p].event /\ attempt'[p].target = None
        /\ attempt'[p].delivered = {} /\ attempt'[p].refused = {}
    BY <1>3 DEF NoAttempt
  <1>5. Working(p) /\ outbox' = outbox
    BY DEF Fail, Served, Working
  <1>6. Sole(p)'
    BY <1>1, <1>4, <1>5, Constants DEF Sole, Uncommitted
  <1> QED
    BY <1>2, <1>6, StepCareful DEF Dispatch

LEMMA MarkFailedCareful ==
  ASSUME Careful, WellFormed', NEW p \in Processes, MarkFailed(p)
  PROVE  Careful'
  <1>1. WellFormed /\ Alone(p) /\ overrun' = overrun
    BY StepAlone DEF Careful, Dispatch
  <1>2. pc[p] = "marking" /\ UNCHANGED <<log, sends, lost>> /\ Leave(p)
    BY DEF MarkFailed
  <1>3. \A t \in Targets, e \in Events : Noted(t, e)'
    BY <1>1, <1>2, NothingInHand, KeepsNoted
  <1> QED
    BY <1>2, <1>3, LeaveCareful, StepCareful DEF Dispatch

LEMMA InitCareful == Init => Careful
  <1> SUFFICES ASSUME Init PROVE Careful
    OBVIOUS
  <1>1. \A p \in Processes : Sole(p)
    BY DEF Init, Sole, Working
  <1>2. \A t \in Targets, e \in Events : Noted(t, e)
    BY DEF Init, Noted
  <1> QED
    BY <1>1, <1>2, InitWellFormed DEF Careful

LEMMA NextCareful == Careful /\ [Next]_vars => Careful'
  <1> SUFFICES ASSUME Careful, [Next]_vars PROVE Careful'
    OBVIOUS
  <1>1. WellFormed'
    BY NextWellFormed DEF Careful
  <1>2. ASSUME NEW p \in Processes, Dispatch(p) \/ StatementFails(p) \/ Crash(p) PROVE Careful'
    BY <1>1, <1>2, PollCareful, LoadCareful, NextRecipientCareful, SendCareful, RecordCareful,
       FaultCareful, CompleteCareful, FailCareful, MarkFailedCareful DEF Dispatch
  <1> QED
    BY <1>1, <1>2, TableCareful DEF Next

(* A second notification of the same event to the same recipient means     *)
(* that a crash, a failing statement or an unregistered device took the    *)
(* record of an earlier one, that its answer never came (send_alert), or   *)
(* that a lease ran out while it was under way.                            *)
THEOREM ResendsAreExplained == Spec => []ResendsExplained
  <1>1. Spec => []Careful
    BY InitCareful, NextCareful, PTL DEF Spec
  <1>2. ASSUME Careful PROVE ResendsExplained
    <2> SUFFICES ASSUME NEW t \in Targets, NEW e \in Events, sends[<<t, e>>] > 1
                 PROVE  lost[<<t, e>>] # "none" \/ e \in overrun
      BY DEF ResendsExplained
    <2> QED
      BY <1>2 DEF Careful, Noted
  <1> QED
    BY <1>1, <1>2, PTL

=============================================================================

----------------------------- MODULE LiveStream -----------------------------
(***************************************************************************)
(* Live updates of one family: sessions that store events, the in-process  *)
(* bus that wakes the streams, and the streams that send the events to     *)
(* browsers.                                                               *)
(*                                                                         *)
(* An event gets its id when the session flushes it and becomes visible    *)
(* when the session commits; only then the bus is told.  A stream reads    *)
(* the rows beyond its cursor, sends them, and waits for the next version  *)
(* of the bus.  A step is one statement of a session, one critical section *)
(* of the bus, or one turn of a stream between two awaits.                 *)
(*                                                                         *)
(* Left out: the payloads and who may see them (a hidden event moves the   *)
(* cursor and nothing else); a query that fails, which is repeated after a *)
(* second; that two PostgreSQL sessions deleting the same old rows wait    *)
(* for each other.                                                         *)
(***************************************************************************)
EXTENDS Integers, FiniteSets, FiniteSetsExt, SequencesExt

CONSTANTS Sessions,   \* database sessions of requests that emit events
          Streams,    \* browsers of the family
          Batch,      \* events per query of a stream (200)
          Keep,       \* MAX_LIVE_EVENTS_PER_FAMILY
          TrimBatch,  \* LIVE_EVENT_TRIM_BATCH_SIZE
          MaxId,      \* bound: events ever flushed
          MaxBreaks   \* bound: connections that break

ASSUME LiveStreamAssumption ==
  /\ {Batch, Keep} \subseteq Nat \ {0}
  /\ {TrimBatch, MaxId, MaxBreaks} \subseteq Nat

VARIABLES engine,     \* the database
          events,     \* committed ids in live_update_events
          sequence,   \* highest id handed out
          session,    \* the emitting sessions
          version,    \* _versions of the family
          waiters,    \* _waiters of the family
          signal,     \* versions on their way to futures, 0 for none
          stream,     \* the event generators
          member,     \* streams whose user is still an active member
          last,       \* the highest id a browser has received
          received,   \* history: ids a browser has received
          published,  \* history: ids whose commit was announced
          late,       \* history: ids committed after a higher one
          trimmed,    \* history: ids deleted by the trimming
          breaks      \* connections that broke

bus == <<version, waiters, signal>>
history == <<published, late, trimmed>>
browser == <<last, received, breaks>>
vars == <<engine, events, sequence, session, bus, stream, member, browser, history>>

-----------------------------------------------------------------------------
Ids == 1..MaxId

Session == [pc: {"idle", "flushed", "committed"}, id: 0..MaxId, stale: SUBSET Ids]

Idle == [pc |-> "idle", id |-> 0, stale |-> {}]

(* full: the last query found more than Batch rows; due: a minute passed   *)
(* since the membership was read.                                          *)
Stream == [pc: {"closed", "querying", "sending", "waiting"}, cursor: 0..MaxId,
           known: 0..MaxId, batch: SUBSET Ids, full: BOOLEAN, due: BOOLEAN]

Closed == [pc |-> "closed", cursor |-> 0, known |-> 0, batch |-> {}, full |-> FALSE,
           due |-> FALSE]

(* No stream knows a version that was not published.                       *)
TypeOK ==
  /\ engine \in {"sqlite", "postgresql"}
  /\ events \subseteq Ids
  /\ sequence \in 0..MaxId
  /\ session \in [Sessions -> Session]
  /\ version \in 0..MaxId
  /\ waiters \subseteq Streams
  /\ signal \in [Streams -> 0..version]
  /\ stream \in [Streams -> Stream]
  /\ \A s \in Streams : stream[s].known <= version
  /\ member \subseteq Streams
  /\ last \in [Streams -> 0..MaxId]
  /\ received \in [Streams -> SUBSET Ids]
  /\ published \subseteq Ids /\ late \subseteq Ids /\ trimmed \subseteq Ids
  /\ breaks \in 0..MaxBreaks

-----------------------------------------------------------------------------
(* Sessions *)

Highest(n, ids) == {e \in ids : Cardinality({f \in ids : f > e}) < n}
Lowest(n, ids) == {e \in ids : Cardinality({f \in ids : f < e}) < n}

(* SQLite takes the next free rowid, PostgreSQL a number of a sequence,    *)
(* which a rollback does not give back.                                    *)
NewId == IF engine = "sqlite" THEN Max(events \union {0}) + 1 ELSE sequence + 1

(* SQLite has one writing transaction at a time. *)
MayWrite(w) == engine = "sqlite" => \A v \in Sessions : session[v].pc # "flushed"

(* _trim_live_events: the newest of the superfluous rows, and only when    *)
(* there are more than TrimBatch.                                          *)
Stale(ids) ==
  LET superfluous == Highest(TrimBatch + 1, ids \ Highest(Keep, ids))
  IN  IF Cardinality(superfluous) <= TrimBatch THEN {} ELSE superfluous

(* emit_live_event *)
Emit(w) ==
  /\ session[w].pc = "idle" /\ MayWrite(w)
  /\ NewId \in Ids
  /\ session' = [session EXCEPT ![w] =
       [pc |-> "flushed", id |-> NewId, stale |-> Stale(events \union {NewId})]]
  /\ sequence' = Max({sequence, NewId})
  /\ UNCHANGED <<engine, events, bus, stream, member, browser, history>>

Commit(w) ==
  LET id == session[w].id IN
  /\ session[w].pc = "flushed"
  /\ events' = (events \union {id}) \ session[w].stale
  /\ late' = IF \E e \in events \union trimmed : e > id THEN late \union {id} ELSE late
  /\ trimmed' = trimmed \union (session[w].stale \intersect events)
  /\ session' = [session EXCEPT ![w].pc = "committed", ![w].stale = {}]
  /\ UNCHANGED <<engine, sequence, bus, stream, member, browser, published>>

(* _after_session_rollback *)
Rollback(w) ==
  /\ session[w].pc = "flushed"
  /\ session' = [session EXCEPT ![w] = Idle]
  /\ UNCHANGED <<engine, events, sequence, bus, stream, member, browser, history>>

(* _after_session_commit: publish; each waiting future is resolved later,  *)
(* in the event loop.                                                      *)
Publish(w) ==
  /\ session[w].pc = "committed"
  /\ version' = version + 1
  /\ signal' = [s \in Streams |-> IF s \in waiters THEN version + 1 ELSE signal[s]]
  /\ waiters' = {}
  /\ published' = published \union {session[w].id}
  /\ session' = [session EXCEPT ![w] = Idle]
  /\ UNCHANGED <<engine, events, sequence, stream, member, browser, late, trimmed>>

-----------------------------------------------------------------------------
(* Streams *)

(* A browser connects, or connects again with the last id it received.     *)
Connect(s) ==
  /\ stream[s].pc = "closed" /\ s \in member
  /\ stream' = [stream EXCEPT ![s] =
       [Closed EXCEPT !.pc = "querying", !.cursor = last[s], !.known = version]]
  /\ UNCHANGED <<engine, events, sequence, session, bus, member, browser, history>>

(* Mutant: the newest rows are read first. *)
NewestRows(s) == Highest(Batch, {e \in events : e > stream[s].cursor})

(* The rows of one query, in the order of their ids. *)
Rows(s) == Lowest(Batch, {e \in events : e > stream[s].cursor})

(* Mutant: the membership is read only when the stream is opened. *)
QueryUnchecked(s) ==
  /\ stream[s].pc = "querying"
  /\ stream' = [stream EXCEPT ![s] =
       [@ EXCEPT !.pc = "sending", !.batch = Rows(s), !.due = FALSE,
                 !.full = Rows(s) # {e \in events : e > stream[s].cursor}]]
  /\ UNCHANGED <<engine, events, sequence, session, bus, member, browser, history>>

(* The membership is read again when a minute has passed; then the rows.   *)
Query(s) ==
  /\ stream[s].pc = "querying"
  /\ stream[s].due => s \in member
  /\ stream' = [stream EXCEPT ![s] =
       [@ EXCEPT !.pc = "sending", !.batch = Rows(s), !.due = FALSE,
                 !.full = Rows(s) # {e \in events : e > stream[s].cursor}]]
  /\ UNCHANGED <<engine, events, sequence, session, bus, member, browser, history>>

EndRevoked(s) ==
  /\ stream[s].pc = "querying" /\ stream[s].due /\ s \notin member
  /\ stream' = [stream EXCEPT ![s] = Closed]
  /\ UNCHANGED <<engine, events, sequence, session, bus, member, browser, history>>

Send(s) ==
  LET e == Min(stream[s].batch) IN
  /\ stream[s].pc = "sending" /\ stream[s].batch # {}
  /\ stream' = [stream EXCEPT ![s].cursor = e, ![s].batch = @ \ {e}]
  /\ received' = [received EXCEPT ![s] = @ \union {e}]
  /\ last' = [last EXCEPT ![s] = Max({@, e})]
  /\ UNCHANGED <<engine, events, sequence, session, bus, member, breaks, history>>

(* Mutant: the version is not compared before the future is registered. *)
WaitBlindly(s) ==
  /\ stream[s].pc = "sending" /\ stream[s].batch = {}
  /\ stream' = [stream EXCEPT ![s].pc = "waiting"]
  /\ waiters' = waiters \union {s}
  /\ UNCHANGED <<engine, events, sequence, session, version, signal, member, browser, history>>

(* wait_for_update: at once when the version has moved on, else with a     *)
(* future.                                                                 *)
Wait(s) ==
  /\ stream[s].pc = "sending" /\ stream[s].batch = {}
  /\ IF version > stream[s].known
     THEN /\ stream' = [stream EXCEPT ![s].pc = "querying", ![s].known = version]
          /\ UNCHANGED waiters
     ELSE /\ stream' = [stream EXCEPT ![s].pc = "waiting"]
          /\ waiters' = waiters \union {s}
  /\ UNCHANGED <<engine, events, sequence, session, version, signal, member, browser, history>>

(* _resolve_waiter *)
Wake(s) ==
  /\ stream[s].pc = "waiting" /\ signal[s] > 0
  /\ stream' = [stream EXCEPT ![s].pc = "querying", ![s].known = signal[s]]
  /\ signal' = [signal EXCEPT ![s] = 0]
  /\ UNCHANGED <<engine, events, sequence, session, version, waiters, member, browser, history>>

Forget(s) ==
  /\ waiters' = waiters \ {s}
  /\ signal' = [signal EXCEPT ![s] = 0]
  /\ UNCHANGED version

(* Mutant: off by one, the version that comes next. *)
TimeoutAhead(s) ==
  /\ stream[s].pc = "waiting"
  /\ stream' = [stream EXCEPT ![s].pc = "querying", ![s].known = version + 1]
  /\ Forget(s)
  /\ UNCHANGED <<engine, events, sequence, session, member, browser, history>>

(* Fifteen seconds without a signal; a signal on its way finds the future  *)
(* done.                                                                   *)
Timeout(s) ==
  /\ stream[s].pc = "waiting"
  /\ stream' = [stream EXCEPT ![s].pc = "querying", ![s].known = version]
  /\ Forget(s)
  /\ UNCHANGED <<engine, events, sequence, session, member, browser, history>>

MinutePasses(s) ==
  /\ stream[s].pc # "closed" /\ ~stream[s].due
  /\ stream' = [stream EXCEPT ![s].due = TRUE]
  /\ UNCHANGED <<engine, events, sequence, session, bus, member, browser, history>>

(* The connection breaks; what was not received is lost with it. *)
Break(s) ==
  /\ breaks < MaxBreaks
  /\ stream[s].pc # "closed"
  /\ stream' = [stream EXCEPT ![s] = Closed]
  /\ breaks' = breaks + 1
  /\ Forget(s)
  /\ UNCHANGED <<engine, events, sequence, session, member, last, received, history>>

(* The membership ends or the user is deactivated. *)
Revoke(s) ==
  /\ s \in member
  /\ member' = member \ {s}
  /\ UNCHANGED <<engine, events, sequence, session, bus, stream, browser, history>>

-----------------------------------------------------------------------------
Init ==
  /\ engine \in {"sqlite", "postgresql"}
  /\ events = {} /\ sequence = 0
  /\ session = [w \in Sessions |-> Idle]
  /\ version = 0 /\ waiters = {} /\ signal = [s \in Streams |-> 0]
  /\ stream = [s \in Streams |-> Closed]
  /\ member = Streams
  /\ last = [s \in Streams |-> 0] /\ received = [s \in Streams |-> {}]
  /\ published = {} /\ late = {} /\ trimmed = {} /\ breaks = 0

Ending(w) == Commit(w) \/ Publish(w)

Turn(s) == Connect(s) \/ Query(s) \/ EndRevoked(s) \/ Send(s) \/ Wait(s) \/ Wake(s) \/ Timeout(s)

Next == \/ \E w \in Sessions : Emit(w) \/ Rollback(w) \/ Ending(w)
        \/ \E s \in Streams : Turn(s) \/ MinutePasses(s) \/ Break(s) \/ Revoke(s)

Spec == Init /\ [][Next]_vars

(* Sessions end, the event loop runs, timers expire, browsers reconnect.   *)
Fairness == /\ \A w \in Sessions : WF_vars(Ending(w))
            /\ \A s \in Streams : WF_vars(Turn(s)) /\ WF_vars(MinutePasses(s))

LiveSpec == Spec /\ Fairness

-----------------------------------------------------------------------------
(* Properties *)

(* What a browser has passed it has received, but for events that were     *)
(* trimmed and, on PostgreSQL only, events that were committed after one   *)
(* with a higher id: the cursor never skips a row.                         *)
SkippedExplained ==
  \A s \in Streams, e \in published :
    e <= last[s] => \/ e \in received[s] \union trimmed
                    \/ engine = "postgresql" /\ e \in late

(* A stream does not sleep over an announced event: unless a signal is on  *)
(* its way, or the last query was cut off, nothing announced is left.      *)
NoLostWakeup ==
  \A s \in Streams :
    stream[s].pc = "waiting" /\ signal[s] = 0 /\ ~stream[s].full =>
      {e \in published \intersect events : e > stream[s].cursor} = {}

(* Every committed event reaches every browser of a member in the end,     *)
(* whatever breaks on the way, unless it was trimmed or overtaken.         *)
EventuallyReceived ==
  \A s \in Streams, e \in Ids :
    e \in events ~> e \in received[s] \union trimmed \union late \/ s \notin member

(* A running stream ends when the membership is gone (CHANGELOG, access).  *)
RevokedEnds == \A s \in Streams : s \notin member ~> stream[s].pc = "closed"

=============================================================================

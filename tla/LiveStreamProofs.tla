-------------------------- MODULE LiveStreamProofs --------------------------
(***************************************************************************)
(* No wakeup is lost and no row is skipped without a reason, on SQLite and *)
(* on PostgreSQL, for every number of sessions and streams.                *)
(***************************************************************************)
EXTENDS LiveStream, FiniteSetTheorems, WellFoundedInduction, TLAPS

OpenStream == [pc: {"closed", "querying", "sending", "waiting"}, cursor: 0..MaxId,
               known: Nat, batch: SUBSET Ids, full: BOOLEAN, due: BOOLEAN]

Typed ==
  /\ engine \in {"sqlite", "postgresql"}
  /\ events \subseteq Ids /\ trimmed \subseteq Ids
  /\ sequence \in 0..MaxId
  /\ session \in [Sessions -> Session]
  /\ version \in Nat
  /\ signal \in [Streams -> Nat]
  /\ stream \in [Streams -> OpenStream]
  /\ \A s \in Streams : stream[s].known <= version /\ signal[s] <= version
  /\ last \in [Streams -> 0..MaxId]
  /\ received \in [Streams -> SUBSET Ids]

(* The ids that were ever committed. *)
Used == events \union trimmed

(* An id that is about to be committed never was before: it comes from the *)
(* sequence, or is higher than the rows that remain.                       *)
Numbered ==
  /\ published \subseteq Used
  /\ \A w \in Sessions : session[w].pc = "committed" => session[w].id \in Used
  /\ \A w \in Sessions : session[w].pc = "flushed" =>
       session[w].id \in Ids \ Used /\ session[w].id \notin session[w].stale
  /\ \A v, w \in Sessions :
       v # w /\ session[v].pc = "flushed" /\ session[w].pc = "flushed" =>
         engine = "postgresql" /\ session[v].id # session[w].id
  /\ engine = "postgresql" =>
       /\ \A x \in Used : x <= sequence
       /\ \A w \in Sessions : session[w].pc = "flushed" => session[w].id <= sequence
  /\ engine = "sqlite" =>
       /\ \A x \in Used : \E e \in events : x <= e
       /\ \A w \in Sessions : session[w].pc = "flushed" => \A x \in Used : x < session[w].id

(* What was announced and is beyond the cursor. *)
Announced(s) == {e \in published \intersect events : e > stream[s].cursor}

Attentive(s) ==
  /\ stream[s].pc = "sending" =>
       /\ \A e \in stream[s].batch : e > stream[s].cursor
       /\ stream[s].known = version /\ ~stream[s].full => Announced(s) \subseteq stream[s].batch
  /\ stream[s].pc = "waiting" /\ signal[s] = 0 =>
       /\ s \in waiters
       /\ ~stream[s].full => Announced(s) = {}

Explained(s, e) == \/ e \in received[s] \union trimmed
                   \/ engine = "postgresql" /\ e \in late

(* Everything up to the last id received is explained, and before a row    *)
(* that is being sent nothing is missing but what is sent with it.         *)
Gapless(s) ==
  /\ last[s] = 0 \/ \E e \in Used : last[s] <= e
  /\ stream[s].pc # "closed" => stream[s].cursor = last[s]
  /\ \A e \in Used : e <= last[s] => Explained(s, e)
  /\ stream[s].pc = "sending" =>
       \A b \in stream[s].batch : /\ b \in Used
                                  /\ \A e \in Used : e < b => Explained(s, e) \/ e \in stream[s].batch

Followed == Typed /\ Numbered /\ \A s \in Streams : Attentive(s) /\ Gapless(s)

-----------------------------------------------------------------------------
(* The least and the greatest of a set of numbers                          *)

LEMMA MinOfNats ==
  ASSUME NEW S, S \subseteq Nat, S # {}
  PROVE  Min(S) \in S /\ \A x \in S : Min(S) <= x
  <1> DEFINE R == {p \in Nat \X Nat : p[1] < p[2]}
  <1>1. IsWellFoundedOn(R, Nat)
    <2>1. R = OpToRel(<, Nat)
      BY DEF OpToRel
    <2> QED
      BY <2>1, NatLessThanWellFounded
  <1>2. \A x, m \in Nat : <<x, m>> \notin R => m <= x
    OBVIOUS
  <1> HIDE DEF R
  <1>3. PICK m \in S : \A x \in S : ~(<<x, m>> \in R)
    BY <1>1, WFMin
  <1>4. \A x \in S : m <= x
    BY <1>2, <1>3
  <1> QED
    BY <1>4 DEF Min

LEMMA MaxOfBounded ==
  ASSUME NEW n \in Nat, NEW S, S \subseteq 0..n, S # {}
  PROVE  Max(S) \in S /\ \A x \in S : x <= Max(S)
  <1> DEFINE T == {n - x : x \in S}
  <1>1. T \subseteq Nat /\ T # {}
    <2>1. \A x \in S : n - x \in Nat
      OBVIOUS
    <2>2. PICK x \in S : TRUE
      OBVIOUS
    <2>3. n - x \in T
      OBVIOUS
    <2> QED
      BY <2>1, <2>3
  <1>2. Min(T) \in T /\ \A y \in T : Min(T) <= y
    BY <1>1, MinOfNats
  <1>3. PICK m \in S : Min(T) = n - m
    BY <1>2
  <1>4. ASSUME NEW x \in S PROVE m >= x
    <2>1. n - m <= n - x
      BY <1>2, <1>3
    <2> QED
      BY <2>1
  <1> QED
    BY <1>4 DEF Max

-----------------------------------------------------------------------------
(* Sessions *)

LEMMA NumberedKept ==
  ASSUME Numbered, UNCHANGED <<engine, events, trimmed, sequence, session, published>>
  PROVE  Numbered'
  BY DEF Numbered, Used

(* A new id is above everything that was used. *)
LEMMA NewIdIsNew ==
  ASSUME Typed, Numbered, NewId \in Ids
  PROVE  /\ \A x \in Used : x < NewId
         /\ engine = "postgresql" =>
              \A w \in Sessions : session[w].pc = "flushed" => session[w].id < NewId
  <1>1. MaxId \in Nat /\ Used \subseteq Ids
    BY LiveStreamAssumption DEF LiveStreamAssumption, Typed, Used
  <1>2. CASE engine = "sqlite"
    <2>1. events \union {0} \subseteq 0..MaxId
      BY <1>1 DEF Typed, Ids
    <2>2. /\ Max(events \union {0}) \in events \union {0}
          /\ \A e \in events \union {0} : e <= Max(events \union {0})
      BY <1>1, <2>1, MaxOfBounded
    <2> DEFINE m == Max(events \union {0})
    <2>3. NewId = m + 1 /\ m \in Nat
      BY <1>1, <1>2, <2>1, <2>2 DEF NewId
    <2>4. ASSUME NEW e \in events PROVE e < NewId /\ e \in Nat
      <3>1. e \in Nat /\ e <= m
        BY <1>1, <2>1, <2>2
      <3> HIDE DEF m
      <3> QED
        BY <2>3, <3>1
    <2>5. \A x \in Used : x < NewId
      <3>1. ASSUME NEW x \in Used PROVE x < NewId
        <4>1. PICK e \in events : x <= e
          BY <1>2 DEF Numbered
        <4>2. x \in Nat /\ e \in Nat /\ NewId \in Nat
          BY <1>1, <2>3, <2>4 DEF Ids
        <4> QED
          BY <2>4, <4>1, <4>2
      <3> QED
        BY <3>1
    <2> QED
      BY <1>2, <2>5
  <1>3. CASE engine = "postgresql"
    <2>1. NewId = sequence + 1 /\ sequence \in Nat
      BY <1>1, <1>3 DEF NewId, Typed
    <2>2. \A x \in Used : x \in Nat /\ x <= sequence
      BY <1>1, <1>3 DEF Ids, Numbered
    <2>3. \A w \in Sessions :
            session[w].pc = "flushed" => session[w].id \in Nat /\ session[w].id <= sequence
      BY <1>1, <1>3 DEF Ids, Numbered
    <2> QED
      BY <1>3, <2>1, <2>2, <2>3
  <1> QED
    BY <1>2, <1>3 DEF Typed

(* The newest row is never superfluous. *)
LEMMA NewestStays ==
  ASSUME NEW ids, NEW id \in ids, \A e \in ids : ~(e > id)
  PROVE  id \notin Stale(ids)
  <1>1. {f \in ids : f > id} = {}
    OBVIOUS
  <1>2. Cardinality({f \in ids : f > id}) = 0
    BY <1>1, FS_EmptySet
  <1>3. id \in Highest(Keep, ids)
    BY <1>2, LiveStreamAssumption DEF LiveStreamAssumption, Highest
  <1> QED
    BY <1>3 DEF Stale, Highest

LEMMA EmitSafe ==
  ASSUME Followed, NEW w \in Sessions, Emit(w)
  PROVE  Followed'
  <1> DEFINE id == NewId
             new == [pc |-> "flushed", id |-> id, stale |-> Stale(events \union {id})]
  <1>1. Typed /\ Numbered /\ session[w].pc = "idle" /\ MayWrite(w) /\ id \in Ids
    BY DEF Followed, Emit
  <1>2. /\ \A x \in Used : x < id
        /\ engine = "postgresql" =>
             \A v \in Sessions : session[v].pc = "flushed" => session[v].id < id
    BY <1>1, NewIdIsNew
  <1>3. Used \subseteq Ids /\ events \subseteq Ids /\ Ids \subseteq Nat
    BY <1>1, LiveStreamAssumption DEF LiveStreamAssumption, Ids, Typed, Used
  <1>4. id \notin Stale(events \union {id})
    <2>1. ASSUME NEW e \in events \union {id} PROVE ~(e > id)
      <3>1. e = id \/ e \in Used
        BY <2>1 DEF Used
      <3>2. e \in Nat /\ id \in Nat
        BY <1>1, <1>3, <3>1
      <3> QED
        BY <1>2, <3>1, <3>2
    <2> QED
      BY <2>1, NewestStays
  <1>5. Stale(events \union {id}) \subseteq Ids
    BY <1>1, <1>3 DEF Stale, Highest
  <1>6. /\ session' = [session EXCEPT ![w] = new]
        /\ UNCHANGED <<engine, events, version, waiters, signal, stream, last, received,
                       published, late, trimmed>>
    BY DEF Emit, bus, browser, history
  <1>7. sequence' \in 0..MaxId /\ sequence <= sequence' /\ id <= sequence'
    <2>1. {sequence, id} \subseteq 0..MaxId /\ MaxId \in Nat
      BY <1>1, LiveStreamAssumption DEF LiveStreamAssumption, Typed, Ids
    <2>2. sequence' = Max({sequence, id})
      BY DEF Emit
    <2> HIDE DEF id
    <2>3. Max({sequence, id}) \in {sequence, id} /\ \A x \in {sequence, id} : x <= Max({sequence, id})
      BY <2>1, MaxOfBounded
    <2> QED
      BY <2>1, <2>2, <2>3
  <1> HIDE DEF id
  <1>8. new \in Session
    BY <1>1, <1>5 DEF Session, Ids
  <1>9. /\ session \in [Sessions -> Session] /\ session' \in [Sessions -> Session]
        /\ session'[w] = new /\ \A v \in Sessions : v # w => session'[v] = session[v]
    BY <1>1, <1>6, <1>8 DEF Typed
  <1>10. Used' = Used
    BY <1>1, <1>6, <1>9 DEF Used
  <1>11. Typed'
    BY <1>1, <1>6, <1>7, <1>9 DEF Typed
  <1>12. Numbered'
    <2>1. /\ published \subseteq Used
          /\ \A v \in Sessions : session'[v].pc = "committed" => session'[v].id \in Used
      BY <1>1, <1>9 DEF Numbered
    <2>2. \A v \in Sessions : session'[v].pc = "flushed" =>
            session'[v].id \in Ids \ Used /\ session'[v].id \notin session'[v].stale
      BY <1>1, <1>2, <1>3, <1>4, <1>9 DEF Numbered
    <2>3. \A u, v \in Sessions :
            u # v /\ session'[u].pc = "flushed" /\ session'[v].pc = "flushed" =>
              engine = "postgresql" /\ session'[u].id # session'[v].id
      <3>1. \A v \in Sessions : v # w /\ session[v].pc = "flushed" =>
                                  engine = "postgresql" /\ session[v].id # id
        BY <1>1, <1>2, <1>3 DEF MayWrite, Typed, Numbered
      <3> QED
        BY <1>1, <1>9, <3>1 DEF Numbered
    <2>4. engine = "postgresql" =>
            /\ \A x \in Used : x <= sequence'
            /\ \A v \in Sessions : session'[v].pc = "flushed" => session'[v].id <= sequence'
      <3>1. sequence \in Nat /\ sequence' \in Nat
        BY <1>1, <1>7 DEF Typed
      <3>2. \A v \in Sessions : session[v].pc = "flushed" => session[v].id \in Nat
        BY <1>1, <1>3 DEF Numbered
      <3> QED
        BY <1>1, <1>3, <1>7, <1>9, <3>1, <3>2 DEF Numbered
    <2>5. engine = "sqlite" =>
            /\ \A x \in Used : \E e \in events : x <= e
            /\ \A v \in Sessions : session'[v].pc = "flushed" => \A x \in Used : x < session'[v].id
      BY <1>1, <1>2, <1>9 DEF Numbered
    <2> QED
      BY <1>6, <1>10, <2>1, <2>2, <2>3, <2>4, <2>5 DEF Numbered
  <1>13. \A s \in Streams : Attentive(s)' /\ Gapless(s)'
    BY <1>6, <1>10 DEF Followed, Attentive, Announced, Gapless, Explained
  <1> QED
    BY <1>11, <1>12, <1>13 DEF Followed

LEMMA CommitSafe ==
  ASSUME Followed, NEW w \in Sessions, Commit(w)
  PROVE  Followed'
  <1> DEFINE id == session[w].id
  <1>1. Typed /\ Numbered /\ session[w].pc = "flushed" /\ session[w] \in Session
    BY DEF Followed, Typed, Commit
  <1>2. id \in Ids \ Used /\ id \notin session[w].stale /\ Used \subseteq Ids /\ Ids \subseteq Nat
    BY <1>1, LiveStreamAssumption DEF LiveStreamAssumption, Ids, Typed, Numbered, Used
  <1>3. /\ events' = (events \union {id}) \ session[w].stale
        /\ trimmed' = trimmed \union (session[w].stale \intersect events)
        /\ late' = IF \E e \in Used : e > id THEN late \union {id} ELSE late
        /\ UNCHANGED <<engine, sequence, version, waiters, signal, stream, last, received, published>>
    BY DEF Commit, bus, browser, Used
  <1>4. /\ session' \in [Sessions -> Session]
        /\ session'[w].pc = "committed" /\ session'[w].id = id
        /\ \A v \in Sessions : v # w => session'[v] = session[v]
    BY <1>1 DEF Commit, Typed, Session
  <1>5. Typed'
    BY <1>1, <1>2, <1>3, <1>4 DEF Typed
  <1>6. Used' = Used \union {id}
    BY <1>2, <1>3 DEF Used
  <1>7. Numbered'
    <2>1. /\ published \subseteq Used \union {id}
          /\ \A v \in Sessions : session'[v].pc = "committed" => session'[v].id \in Used \union {id}
      BY <1>1, <1>4 DEF Numbered
    <2>2. \A v \in Sessions : session'[v].pc = "flushed" =>
            /\ v # w /\ session[v].pc = "flushed" /\ session'[v] = session[v]
            /\ engine = "postgresql" /\ session[v].id # id
      BY <1>1, <1>4 DEF Numbered
    <2>3. \A v \in Sessions : session'[v].pc = "flushed" =>
            /\ session'[v].id \in Ids \ (Used \union {id})
            /\ session'[v].id \notin session'[v].stale
      BY <1>1, <2>2 DEF Numbered
    <2>4. \A u, v \in Sessions :
            u # v /\ session'[u].pc = "flushed" /\ session'[v].pc = "flushed" =>
              engine = "postgresql" /\ session'[u].id # session'[v].id
      BY <1>1, <2>2 DEF Numbered
    <2>5. engine = "postgresql" =>
            /\ \A x \in Used \union {id} : x <= sequence
            /\ \A v \in Sessions : session'[v].pc = "flushed" => session'[v].id <= sequence
      BY <1>1, <2>2 DEF Numbered
    <2>6. engine = "sqlite" =>
            /\ \A x \in Used \union {id} : \E e \in events' : x <= e
            /\ \A v \in Sessions : session'[v].pc # "flushed"
      <3>1. ASSUME engine = "sqlite", NEW x \in Used \union {id} PROVE x <= id
        <4>1. x \in Nat /\ id \in Nat
          BY <1>2
        <4>2. x \in Used => x < id
          BY <1>1, <3>1 DEF Numbered
        <4> QED
          BY <4>1, <4>2
      <3>2. id \in events'
        BY <1>2, <1>3
      <3> QED
        BY <2>2, <3>1, <3>2
    <2> QED
      BY <1>3, <1>6, <2>1, <2>3, <2>4, <2>5, <2>6 DEF Numbered
  <1>8. \A s \in Streams : Announced(s)' \subseteq Announced(s)
    BY <1>1, <1>2, <1>3 DEF Announced, Numbered
  <1>9. \A s \in Streams : Attentive(s)'
    BY <1>3, <1>8 DEF Followed, Attentive
  <1>10. ASSUME NEW s \in Streams PROVE Gapless(s)'
    <2>1. Gapless(s) /\ stream'[s] = stream[s] /\ last'[s] = last[s] /\ last[s] \in Nat
      BY <1>1, <1>3, LiveStreamAssumption DEF LiveStreamAssumption, Followed, Typed
    <2>2. \A e : Explained(s, e) => Explained(s, e)'
      BY <1>3 DEF Explained
    <2>3. ASSUME NEW i, i = id, NEW b \in Used, i < b PROVE Explained(s, i)'
      <3>1. b \in Nat /\ id \in Nat /\ b > id
        BY <1>2, <2>3
      <3>2. engine = "sqlite" => b < id
        BY <1>1 DEF Numbered
      <3>3. engine = "postgresql"
        BY <1>1, <3>1, <3>2 DEF Typed
      <3>4. i \in late'
        BY <1>3, <2>3, <3>1
      <3> QED
        BY <1>3, <3>3, <3>4 DEF Explained
    <2>4. ASSUME NEW i, i = id, i <= last[s] PROVE Explained(s, i)'
      <3>1. i \in Ids /\ i \in Nat /\ i # 0
        BY <1>2, <2>4 DEF Ids
      <3>2. PICK b \in Used : last[s] <= b
        BY <2>1, <2>4, <3>1 DEF Gapless
      <3>3. b \in Nat /\ b # i
        BY <1>2, <2>4
      <3>4. i < b
        BY <2>1, <2>4, <3>1, <3>2, <3>3
      <3> QED
        BY <2>3, <2>4, <3>4
    <2>5. last[s] = 0 \/ \E e \in Used' : last[s] <= e
      BY <1>6, <2>1 DEF Gapless
    <2>6. \A e \in Used' : e <= last[s] => Explained(s, e)'
      BY <1>6, <2>1, <2>2, <2>4 DEF Gapless
    <2>7. stream[s].pc = "sending" =>
            \A b \in stream[s].batch : /\ b \in Used'
                                       /\ \A e \in Used' : e < b => Explained(s, e)' \/ e \in stream[s].batch
      BY <1>6, <2>1, <2>2, <2>3 DEF Gapless
    <2> QED
      BY <2>1, <2>5, <2>6, <2>7 DEF Gapless
  <1> QED
    BY <1>5, <1>7, <1>9, <1>10 DEF Followed

LEMMA RollbackSafe ==
  ASSUME Followed, NEW w \in Sessions, Rollback(w)
  PROVE  Followed'
  <1>1. Typed /\ Numbered /\ session[w].pc = "flushed"
    BY DEF Followed, Rollback
  <1>2. /\ UNCHANGED <<engine, events, sequence, version, waiters, signal, stream, last, received,
                       published, late, trimmed>>
        /\ session' = [session EXCEPT ![w] = Idle]
    BY DEF Rollback, bus, browser, history
  <1>3. Idle \in Session /\ Idle.pc = "idle"
    BY LiveStreamAssumption DEF LiveStreamAssumption, Idle, Session
  <1>4. /\ session' \in [Sessions -> Session] /\ session'[w].pc = "idle"
        /\ \A v \in Sessions : v # w => session'[v] = session[v]
    BY <1>1, <1>2, <1>3 DEF Typed
  <1>5. Used' = Used
    BY <1>2 DEF Used
  <1>6. Typed'
    BY <1>1, <1>2, <1>4 DEF Typed
  <1>7. Numbered'
    BY <1>1, <1>2, <1>4, <1>5 DEF Numbered
  <1>8. \A s \in Streams : Attentive(s)' /\ Gapless(s)'
    BY <1>2, <1>5 DEF Followed, Attentive, Announced, Gapless, Explained
  <1> QED
    BY <1>6, <1>7, <1>8 DEF Followed

(* A stream that goes to sleep before the version moves has its future     *)
(* among the waiters; one that is still sending knows an old version.      *)
LEMMA PublishSafe ==
  ASSUME Followed, NEW w \in Sessions, Publish(w)
  PROVE  Followed'
  <1> DEFINE id == session[w].id
  <1>1. Typed /\ Numbered /\ session[w].pc = "committed"
    BY DEF Followed, Publish
  <1>2. /\ version' = version + 1
        /\ signal' = [s \in Streams |-> IF s \in waiters THEN version + 1 ELSE signal[s]]
        /\ published' = published \union {id}
        /\ session' = [session EXCEPT ![w] = Idle]
        /\ UNCHANGED <<engine, events, sequence, stream, last, received, late, trimmed>>
    BY DEF Publish, browser
  <1>3. Idle \in Session /\ Idle.pc = "idle"
    BY LiveStreamAssumption DEF LiveStreamAssumption, Idle, Session
  <1>4. /\ session' \in [Sessions -> Session] /\ session'[w].pc = "idle"
        /\ \A v \in Sessions : v # w => session'[v] = session[v]
    BY <1>1, <1>2, <1>3 DEF Typed
  <1>5. id \in Used
    BY <1>1 DEF Numbered
  <1>6. Used' = Used
    BY <1>2 DEF Used
  <1>7. Typed'
    BY <1>1, <1>2, <1>4 DEF Typed, OpenStream
  <1>8. Numbered'
    BY <1>1, <1>2, <1>4, <1>5, <1>6 DEF Numbered
  <1>9. ASSUME NEW s \in Streams PROVE Attentive(s)'
    <2>1. /\ stream[s].known \in Nat /\ stream[s].known < version' /\ stream'[s] = stream[s]
          /\ signal'[s] = IF s \in waiters THEN version + 1 ELSE signal[s]
      BY <1>1, <1>2 DEF Typed, OpenStream
    <2>2. stream[s].pc = "waiting" => signal'[s] # 0
      BY <1>1, <2>1 DEF Followed, Attentive, Typed
    <2> QED
      BY <2>1, <2>2, <1>2 DEF Followed, Attentive
  <1>10. \A s \in Streams : Gapless(s)'
    BY <1>2, <1>6 DEF Followed, Gapless, Explained
  <1> QED
    BY <1>7, <1>8, <1>9, <1>10 DEF Followed

-----------------------------------------------------------------------------
(* Streams *)

(* A step of stream s, whose new record and signal are given, leaves the   *)
(* rows and the other streams alone.                                       *)
LEMMA TurnKeeps ==
  ASSUME Followed, NEW s \in Streams, NEW r \in OpenStream, NEW n \in Nat,
         stream' = [stream EXCEPT ![s] = r], signal' = [signal EXCEPT ![s] = n],
         r.known <= version, n <= version,
         waiters \ {s} \subseteq waiters',
         last' \in [Streams -> 0..MaxId], received' \in [Streams -> SUBSET Ids],
         \A q \in Streams : q # s => last'[q] = last[q] /\ received'[q] = received[q],
         UNCHANGED <<engine, events, sequence, session, version, published, late, trimmed>>,
         Attentive(s)', Gapless(s)'
  PROVE  Followed'
  <1>1. /\ stream' \in [Streams -> OpenStream] /\ signal' \in [Streams -> Nat]
        /\ stream'[s] = r /\ signal'[s] = n
        /\ \A q \in Streams : q # s => stream'[q] = stream[q] /\ signal'[q] = signal[q]
    BY DEF Followed, Typed
  <1>2. Typed'
    BY <1>1 DEF Followed, Typed
  <1>3. Numbered'
    BY NumberedKept DEF Followed
  <1>4. ASSUME NEW q \in Streams, q # s PROVE Attentive(q)' /\ Gapless(q)'
    <2>1. Attentive(q) /\ Gapless(q) /\ Announced(q)' = Announced(q)
      BY <1>1, <1>4 DEF Followed, Announced
    <2>2. Attentive(q)'
      BY <1>1, <1>4, <2>1 DEF Attentive
    <2>3. Used' = Used /\ \A e : Explained(q, e)' <=> Explained(q, e)
      BY <1>4 DEF Used, Explained
    <2> QED
      BY <1>1, <1>4, <2>1, <2>2, <2>3 DEF Gapless
  <1> QED
    BY <1>2, <1>3, <1>4 DEF Followed

LEMMA ClosedFits == Closed \in OpenStream /\ Closed.pc = "closed" /\ Closed.known = 0
  BY LiveStreamAssumption DEF LiveStreamAssumption, Closed, OpenStream

(* Steps after which the stream is neither sending nor waiting. *)
LEMMA OpenSafe ==
  ASSUME Followed, NEW s \in Streams,
         Connect(s) \/ EndRevoked(s) \/ Wake(s) \/ Timeout(s) \/ Break(s)
  PROVE  Followed'
  <1>1. /\ stream \in [Streams -> OpenStream] /\ signal \in [Streams -> Nat] /\ version \in Nat
        /\ stream[s] \in OpenStream /\ signal[s] <= version
        /\ last \in [Streams -> 0..MaxId] /\ received \in [Streams -> SUBSET Ids] /\ Gapless(s)
    BY DEF Followed, Typed
  <1>2. PICK r \in OpenStream : /\ stream' = [stream EXCEPT ![s] = r] /\ r.known <= version
                                /\ r.pc \in {"closed", "querying"}
                                /\ r.pc = "querying" => r.cursor = last[s]
    <2>1. CASE Connect(s)
      <3> DEFINE r == [Closed EXCEPT !.pc = "querying", !.cursor = last[s], !.known = version]
      <3>1. r \in OpenStream /\ r.known = version /\ r.pc = "querying" /\ r.cursor = last[s]
        BY <1>1 DEF Closed, OpenStream
      <3>2. stream' = [stream EXCEPT ![s] = r]
        BY <1>1, <2>1 DEF Connect, OpenStream
      <3> HIDE DEF r
      <3>3. r.known <= version
        BY <1>1, <3>1
      <3> QED
        BY <3>1, <3>2, <3>3, Zenon
    <2>2. CASE EndRevoked(s) \/ Break(s)
      BY <1>1, <2>2, ClosedFits DEF EndRevoked, Break
    <2>3. CASE Wake(s)
      <3> DEFINE r == [stream[s] EXCEPT !.pc = "querying", !.known = signal[s]]
      <3>1. r \in OpenStream /\ r.known <= version /\ r.pc = "querying" /\ r.cursor = last[s]
        BY <1>1, <2>3 DEF OpenStream, Gapless, Wake
      <3>2. stream' = [stream EXCEPT ![s] = r]
        BY <1>1, <2>3 DEF Wake, OpenStream
      <3> HIDE DEF r
      <3> QED
        BY <1>1, <3>1, <3>2
    <2>4. CASE Timeout(s)
      <3> DEFINE r == [stream[s] EXCEPT !.pc = "querying", !.known = version]
      <3>1. r \in OpenStream /\ r.known = version /\ r.pc = "querying" /\ r.cursor = last[s]
        BY <1>1, <2>4 DEF OpenStream, Gapless, Timeout
      <3>2. stream' = [stream EXCEPT ![s] = r]
        BY <1>1, <2>4 DEF Timeout, OpenStream
      <3> HIDE DEF r
      <3>3. r.known <= version
        BY <1>1, <3>1
      <3> QED
        BY <3>1, <3>2, <3>3, Zenon
    <2> QED
      BY <2>1, <2>2, <2>3, <2>4
  <1>3. PICK n \in Nat : signal' = [signal EXCEPT ![s] = n] /\ n <= version
    <2>1. CASE Connect(s) \/ EndRevoked(s)
      BY <1>1, <2>1 DEF Connect, EndRevoked, bus
    <2>2. CASE Wake(s) \/ Timeout(s) \/ Break(s)
      BY <1>1, <2>2 DEF Wake, Timeout, Break, Forget
    <2> QED
      BY <2>1, <2>2
  <1>4. /\ waiters \ {s} \subseteq waiters' /\ last' = last /\ received' = received
        /\ UNCHANGED <<engine, events, sequence, session, version, published, late, trimmed>>
    BY DEF Connect, EndRevoked, Wake, Timeout, Break, Forget, bus, browser, history
  <1>5. stream'[s] = r
    BY <1>1, <1>2
  <1>6. Attentive(s)'
    BY <1>2, <1>5 DEF Attentive
  <1>7. Gapless(s)'
    BY <1>1, <1>2, <1>4, <1>5 DEF Gapless, Used, Explained
  <1> QED
    BY <1>1, <1>2, <1>3, <1>4, <1>6, <1>7, TurnKeeps

(* Rows that a query leaves out come after those it takes. *)
LEMMA RowsInOrder ==
  ASSUME Typed, NEW s \in Streams, NEW b \in Rows(s), NEW e \in events,
         e > stream[s].cursor, e < b
  PROVE  e \in Rows(s)
  <1> DEFINE beyond == {x \in events : x > stream[s].cursor}
             E == {x \in beyond : x < e}
             B == {x \in beyond : x < b}
  <1>1. MaxId \in Nat /\ Batch \in Nat /\ events \subseteq Ids /\ Ids \subseteq Nat
    BY LiveStreamAssumption DEF LiveStreamAssumption, Typed, Ids
  <1>2. b \in beyond /\ Cardinality(B) < Batch
    BY DEF Rows, Lowest
  <1>3. E \subseteq B
    <2>1. ASSUME NEW x \in E PROVE x \in B
      <3>1. x \in beyond /\ x < e /\ x \in Nat /\ e \in Nat /\ b \in Nat
        BY <1>1, <1>2
      <3> QED
        BY <3>1
    <2> QED
      BY <2>1
  <1>4. B \subseteq 1..MaxId
    BY <1>1 DEF Ids
  <1> HIDE DEF E, B
  <1>5. IsFiniteSet(B)
    <2>1. IsFiniteSet(1..MaxId)
      BY <1>1, FS_Interval
    <2> QED
      BY <1>4, <2>1, FS_Subset
  <1>6. IsFiniteSet(E) /\ Cardinality(E) <= Cardinality(B)
    BY <1>3, <1>5, FS_Subset
  <1>7. Cardinality(E) \in Nat /\ Cardinality(B) \in Nat
    BY <1>5, <1>6, FS_CardinalityType
  <1>8. Cardinality(E) < Batch
    BY <1>1, <1>2, <1>6, <1>7
  <1> QED
    BY <1>8 DEF E, Rows, Lowest

LEMMA QuerySafe ==
  ASSUME Followed, NEW s \in Streams, Query(s)
  PROVE  Followed'
  <1> DEFINE beyond == {e \in events : e > stream[s].cursor}
             rows == Rows(s)
             full == rows # beyond
             r == [stream[s] EXCEPT !.pc = "sending", !.batch = rows, !.due = FALSE, !.full = full]
  <1>1. stream[s] \in OpenStream /\ stream[s].known <= version /\ signal[s] \in Nat
    BY DEF Followed, Typed
  <1>2. rows \subseteq beyond /\ beyond \subseteq Ids
    BY DEF Rows, Lowest, Followed, Typed
  <1>3. stream' = [stream EXCEPT ![s] = r]
    BY DEF Query
  <1> HIDE DEF rows
  <1>4. r \in OpenStream
    BY <1>1, <1>2 DEF OpenStream
  <1>5. /\ r.pc = "sending" /\ r.batch = rows /\ r.full = full
        /\ r.known = stream[s].known /\ r.cursor = stream[s].cursor
    BY <1>1 DEF OpenStream
  <1> HIDE DEF r
  <1>6. UNCHANGED <<engine, events, sequence, session, version, waiters, signal, last, received,
                    published, late, trimmed>>
    BY DEF Query, bus, browser, history
  <1>7. stream'[s] = r
    BY <1>3 DEF Followed, Typed
  <1>8. Announced(s)' \subseteq beyond
    BY <1>5, <1>6, <1>7 DEF Announced
  <1>9. Attentive(s)'
    BY <1>2, <1>5, <1>6, <1>7, <1>8 DEF Attentive
  <1>10. signal' = [signal EXCEPT ![s] = signal[s]] /\ signal[s] <= version
    BY <1>6 DEF Followed, Typed
  <1>11. last' \in [Streams -> 0..MaxId] /\ received' \in [Streams -> SUBSET Ids]
    BY <1>6 DEF Followed, Typed
  <1>12. Gapless(s)'
    <2>1. Gapless(s) /\ stream[s].cursor = last[s] /\ Typed
      BY DEF Followed, Gapless, Query
    <2>2. Used' = Used /\ \A e : Explained(s, e)' <=> Explained(s, e)
      BY <1>6 DEF Used, Explained
    <2>3. ASSUME NEW b \in rows
          PROVE  b \in Used /\ \A e \in Used : e < b => Explained(s, e) \/ e \in rows
      <3>1. b \in Used
        BY <1>2 DEF Used
      <3>2. ASSUME NEW e \in Used, e < b PROVE Explained(s, e) \/ e \in rows
        <4>1. CASE e <= last[s]
          BY <2>1, <4>1 DEF Gapless
        <4>2. CASE e \in trimmed
          BY <4>2 DEF Explained
        <4>3. CASE ~(e <= last[s]) /\ e \in events
          <5>1. e > stream[s].cursor
            BY <2>1, <4>3, LiveStreamAssumption DEF LiveStreamAssumption, Typed, Ids
          <5>2. e \in Rows(s)
            BY <2>1, <2>3, <3>2, <4>3, <5>1, RowsInOrder DEF rows
          <5> QED
            BY <5>2 DEF rows
        <4> QED
          BY <4>1, <4>2, <4>3 DEF Used
      <3> QED
        BY <3>1, <3>2
    <2> QED
      BY <1>5, <1>6, <1>7, <2>1, <2>2, <2>3 DEF Gapless
  <1> QED
    BY <1>1, <1>3, <1>4, <1>5, <1>6, <1>9, <1>10, <1>11, <1>12, TurnKeeps

(* The rows are sent in their order, so what is left is beyond the cursor. *)
LEMMA SendSafe ==
  ASSUME Followed, NEW s \in Streams, Send(s)
  PROVE  Followed'
  <1> DEFINE q == stream[s]
             e == Min(q.batch)
             r == [q EXCEPT !.cursor = e, !.batch = q.batch \ {e}]
  <1>1. /\ q \in OpenStream /\ q.known <= version /\ signal[s] \in Nat /\ signal[s] <= version
        /\ Attentive(s) /\ Gapless(s) /\ q.pc = "sending" /\ q.batch # {}
    BY DEF Followed, Typed, Send
  <1>2. MaxId \in Nat /\ q.batch \subseteq Ids /\ Ids \subseteq Nat /\ q.cursor \in Nat
    BY <1>1, LiveStreamAssumption DEF LiveStreamAssumption, OpenStream, Ids
  <1>3. e \in q.batch /\ \A x \in q.batch : e <= x
    BY <1>1, <1>2, MinOfNats
  <1>4. stream' = [stream EXCEPT ![s] = r]
    BY <1>1 DEF Send, Followed, Typed, OpenStream
  <1>5. /\ last' = [last EXCEPT ![s] = Max({last[s], e})]
        /\ received' = [received EXCEPT ![s] = received[s] \union {e}]
        /\ UNCHANGED <<engine, events, sequence, session, version, waiters, signal, published,
                       late, trimmed>>
    BY DEF Send, bus, history
  <1> HIDE DEF e
  <1>6. e \in 0..MaxId /\ e \in Nat /\ e > q.cursor
    BY <1>1, <1>2, <1>3 DEF Attentive, Ids
  <1>7. r \in OpenStream
    BY <1>1, <1>6 DEF OpenStream
  <1>8. /\ r.pc = "sending" /\ r.batch = q.batch \ {e} /\ r.full = q.full
        /\ r.known = q.known /\ r.cursor = e
    BY <1>1 DEF OpenStream
  <1> HIDE DEF r
  <1>9. stream'[s] = r
    BY <1>4 DEF Followed, Typed
  <1>10. ASSUME NEW x \in r.batch PROVE x > e
    <2>1. x \in q.batch /\ x # e
      BY <1>8
    <2>2. x \in Nat /\ e <= x
      BY <1>2, <1>3, <2>1
    <2> QED
      BY <1>6, <2>1, <2>2
  <1>11. Announced(s)' \subseteq Announced(s) \ {e}
    <2>1. ASSUME NEW x \in Announced(s)' PROVE x \in Announced(s) \ {e}
      <3>1. x \in published \intersect events /\ x > e
        BY <1>5, <1>8, <1>9 DEF Announced
      <3>2. x \in Nat
        BY <1>2, <3>1 DEF Followed, Typed
      <3> QED
        BY <1>2, <1>6, <3>1, <3>2 DEF Announced
    <2> QED
      BY <2>1
  <1>12. Attentive(s)'
    BY <1>1, <1>5, <1>8, <1>9, <1>10, <1>11 DEF Attentive
  <1>13. /\ last' \in [Streams -> 0..MaxId] /\ received' \in [Streams -> SUBSET Ids]
         /\ last'[s] = e /\ received'[s] = received[s] \union {e}
         /\ \A o \in Streams : o # s => last'[o] = last[o] /\ received'[o] = received[o]
    <2>1. /\ last[s] \in 0..MaxId /\ last \in [Streams -> 0..MaxId]
          /\ received \in [Streams -> SUBSET Ids]
      BY DEF Followed, Typed
    <2>2. /\ Max({last[s], e}) \in {last[s], e}
          /\ \A x \in {last[s], e} : x <= Max({last[s], e})
      BY <1>2, <1>6, <2>1, MaxOfBounded
    <2>3. last[s] < e /\ last[s] \in Nat
      BY <1>1, <1>2, <1>6, <2>1 DEF Gapless
    <2>4. Max({last[s], e}) = e
      BY <1>6, <2>2, <2>3
    <2> QED
      BY <1>2, <1>3, <1>5, <1>6, <2>1, <2>4
  <1>14. signal' = [signal EXCEPT ![s] = signal[s]]
    BY <1>5 DEF Followed, Typed
  <1>15. Gapless(s)'
    <2>1. Used' = Used /\ \A x : Explained(s, x) => Explained(s, x)'
      BY <1>5, <1>13 DEF Used, Explained
    <2>2. e \in Used /\ \A x \in Used : x < e => Explained(s, x) \/ x \in q.batch
      BY <1>1, <1>3 DEF Gapless
    <2>3. ASSUME NEW x \in Used, x <= e PROVE Explained(s, x)'
      <3>1. x \in Nat
        BY <1>2, <2>3 DEF Followed, Typed, Used
      <3>2. CASE x = e
        BY <1>13, <3>2 DEF Explained
      <3>3. CASE x < e
        <4>1. x \notin q.batch
          BY <1>3, <1>6, <3>1, <3>3
        <4> QED
          BY <2>1, <2>2, <3>3, <4>1
      <3> QED
        BY <1>6, <2>3, <3>1, <3>2, <3>3
    <2>4. ASSUME NEW b \in r.batch, NEW x \in Used, x < b
          PROVE  Explained(s, x)' \/ x \in r.batch
      <3>1. Explained(s, x) \/ x \in q.batch
        BY <1>1, <1>8, <2>4 DEF Gapless
      <3>2. x = e => Explained(s, x)'
        BY <1>13 DEF Explained
      <3> QED
        BY <1>8, <2>1, <3>1, <3>2
    <2>5. \A b \in r.batch : b \in Used
      BY <1>1, <1>8 DEF Gapless
    <2>6. last'[s] = 0 \/ \E x \in Used' : last'[s] <= x
      BY <1>6, <1>13, <2>1, <2>2
    <2>7. \A x \in Used' : x <= last'[s] => Explained(s, x)'
      BY <1>13, <2>1, <2>3
    <2>8. \A b \in r.batch : /\ b \in Used'
                             /\ \A x \in Used' : x < b => Explained(s, x)' \/ x \in r.batch
      BY <2>1, <2>4, <2>5
    <2> QED
      BY <1>8, <1>9, <1>13, <2>6, <2>7, <2>8 DEF Gapless
  <1> QED
    BY <1>1, <1>4, <1>5, <1>7, <1>8, <1>12, <1>13, <1>14, <1>15, TurnKeeps

(* The version is compared in the critical section that registers the      *)
(* future: if it has not moved, nothing was announced since the query.     *)
LEMMA WaitSafe ==
  ASSUME Followed, NEW s \in Streams, Wait(s)
  PROVE  Followed'
  <1> DEFINE q == stream[s]
             moved == version > q.known
             r == IF moved THEN [q EXCEPT !.pc = "querying", !.known = version]
                  ELSE [q EXCEPT !.pc = "waiting"]
  <1>1. /\ q \in OpenStream /\ q.known <= version /\ q.known \in Nat /\ version \in Nat
        /\ signal[s] \in Nat /\ signal[s] <= version
        /\ Attentive(s) /\ Gapless(s) /\ q.pc = "sending" /\ q.batch = {}
    BY DEF Followed, Typed, OpenStream, Wait
  <1>2. stream' = [stream EXCEPT ![s] = r]
    BY <1>1 DEF Wait, Followed, Typed, OpenStream
  <1>3. /\ waiters' = IF moved THEN waiters ELSE waiters \union {s}
        /\ UNCHANGED <<engine, events, sequence, session, version, signal, last, received,
                       published, late, trimmed>>
    BY DEF Wait, browser, history
  <1>4. r \in OpenStream /\ r.known <= version
    <2>1. CASE moved
      <3>1. r = [q EXCEPT !.pc = "querying", !.known = version]
        BY <2>1
      <3> HIDE DEF r
      <3>2. r \in OpenStream /\ r.known = version
        BY <1>1, <3>1 DEF OpenStream
      <3> QED
        BY <1>1, <3>2
    <2>2. CASE ~moved
      BY <1>1, <2>2 DEF OpenStream
    <2> QED
      BY <2>1, <2>2
  <1>5. /\ r.pc = IF moved THEN "querying" ELSE "waiting"
        /\ r.full = q.full /\ r.cursor = q.cursor
    BY <1>1 DEF OpenStream
  <1> HIDE DEF r
  <1>6. stream'[s] = r
    BY <1>2 DEF Followed, Typed
  <1>7. Announced(s)' = Announced(s)
    BY <1>3, <1>5, <1>6 DEF Announced
  <1>8. Attentive(s)'
    BY <1>1, <1>3, <1>5, <1>6, <1>7 DEF Attentive
  <1>9. /\ signal' = [signal EXCEPT ![s] = signal[s]]
        /\ last' \in [Streams -> 0..MaxId] /\ received' \in [Streams -> SUBSET Ids]
    BY <1>3 DEF Followed, Typed
  <1>10. waiters \ {s} \subseteq waiters'
    BY <1>3
  <1>11. Gapless(s)'
    BY <1>1, <1>3, <1>5, <1>6 DEF Gapless, Used, Explained
  <1> QED
    BY <1>1, <1>2, <1>3, <1>4, <1>8, <1>9, <1>10, <1>11, TurnKeeps

LEMMA MinutePassesSafe ==
  ASSUME Followed, NEW s \in Streams, MinutePasses(s)
  PROVE  Followed'
  <1> DEFINE r == [stream[s] EXCEPT !.due = TRUE]
  <1>1. stream[s] \in OpenStream /\ stream[s].known <= version /\ signal[s] \in Nat
        /\ signal[s] <= version /\ Attentive(s) /\ Gapless(s)
    BY DEF Followed, Typed
  <1>2. stream' = [stream EXCEPT ![s] = r]
    BY <1>1 DEF MinutePasses, Followed, Typed, OpenStream
  <1>3. UNCHANGED <<engine, events, sequence, session, version, waiters, signal, last, received,
                    published, late, trimmed>>
    BY DEF MinutePasses, bus, browser, history
  <1>4. /\ r \in OpenStream /\ r.known = stream[s].known /\ r.pc = stream[s].pc
        /\ r.full = stream[s].full /\ r.cursor = stream[s].cursor /\ r.batch = stream[s].batch
    BY <1>1 DEF OpenStream
  <1> HIDE DEF r
  <1>5. stream'[s] = r
    BY <1>2 DEF Followed, Typed
  <1>6. Announced(s)' = Announced(s)
    BY <1>3, <1>4, <1>5 DEF Announced
  <1>7. Attentive(s)'
    BY <1>1, <1>3, <1>4, <1>5, <1>6 DEF Attentive
  <1>8. /\ signal' = [signal EXCEPT ![s] = signal[s]]
        /\ last' \in [Streams -> 0..MaxId] /\ received' \in [Streams -> SUBSET Ids]
    BY <1>3 DEF Followed, Typed
  <1>9. Gapless(s)'
    BY <1>1, <1>3, <1>4, <1>5 DEF Gapless, Used, Explained
  <1> QED
    BY <1>1, <1>2, <1>3, <1>4, <1>7, <1>8, <1>9, TurnKeeps

-----------------------------------------------------------------------------
LEMMA InitFollowed == Init => Followed
  <1> SUFFICES ASSUME Init PROVE Followed
    OBVIOUS
  <1>1. MaxId \in Nat
    BY LiveStreamAssumption DEF LiveStreamAssumption
  <1>2. Idle \in Session /\ Idle.pc = "idle"
    BY <1>1 DEF Idle, Session
  <1>3. \A w \in Sessions : session[w] = Idle
    BY DEF Init
  <1>4. Typed
    BY <1>1, <1>2, ClosedFits DEF Init, Typed
  <1>5. Used = {}
    BY DEF Used, Init
  <1>6. Numbered
    BY <1>2, <1>3, <1>5 DEF Init, Numbered
  <1>7. \A s \in Streams : Attentive(s) /\ Gapless(s)
    BY <1>5, ClosedFits DEF Init, Attentive, Gapless
  <1> QED
    BY <1>4, <1>6, <1>7 DEF Followed

LEMMA RestSafe ==
  ASSUME Followed,
         UNCHANGED <<engine, events, sequence, session, version, waiters, signal, stream, last,
                     received, published, late, trimmed>>
  PROVE  Followed'
  <1>1. Typed' /\ Numbered'
    BY NumberedKept DEF Followed, Typed
  <1>2. ASSUME NEW s \in Streams PROVE Attentive(s)' /\ Gapless(s)'
    <2>1. Attentive(s) /\ Gapless(s)
      BY DEF Followed
    <2>2. Attentive(s)'
      BY <2>1 DEF Attentive, Announced
    <2>3. Gapless(s)'
      BY <2>1 DEF Gapless, Used, Explained
    <2> QED
      BY <2>2, <2>3
  <1> QED
    BY <1>1, <1>2 DEF Followed

LEMMA NextFollowed ==
  ASSUME Followed, [Next]_vars
  PROVE  Followed'
  <1>1. CASE UNCHANGED vars
    <2>1. UNCHANGED <<engine, events, sequence, session, version, waiters, signal, stream, last,
                      received, published, late, trimmed>>
      BY <1>1 DEF vars, bus, browser, history
    <2> QED
      BY <2>1, RestSafe
  <1>2. ASSUME NEW w \in Sessions, Emit(w) \/ Rollback(w) \/ Ending(w)
        PROVE  Followed'
    BY <1>2, EmitSafe, RollbackSafe, CommitSafe, PublishSafe DEF Ending
  <1>3. ASSUME NEW s \in Streams, Turn(s) \/ MinutePasses(s) \/ Break(s)
        PROVE  Followed'
    BY <1>3, OpenSafe, QuerySafe, SendSafe, WaitSafe, MinutePassesSafe DEF Turn
  <1>4. ASSUME NEW s \in Streams, Revoke(s)
        PROVE  Followed'
    <2>1. UNCHANGED <<engine, events, sequence, session, version, waiters, signal, stream, last,
                      received, published, late, trimmed>>
      BY <1>4 DEF Revoke, bus, browser, history
    <2> QED
      BY <2>1, RestSafe
  <1> QED
    BY <1>1, <1>2, <1>3, <1>4 DEF Next

LEMMA FollowedAlways == Spec => []Followed
  BY InitFollowed, NextFollowed, PTL DEF Spec

(* FamilyEventBus: a commit may be announced at any moment between the     *)
(* query of a stream and its sleep; the version, compared under the lock   *)
(* of the bus, makes the stream query again.                               *)
THEOREM NeverOversleeps == Spec => []NoLostWakeup
  <1>1. Followed => NoLostWakeup
    BY DEF Followed, Attentive, Announced, NoLostWakeup
  <1> QED
    BY <1>1, FollowedAlways, PTL

(* Ids are assigned before the commit and the stream keeps nothing but a   *)
(* cursor (live_events): only trimming, and on PostgreSQL a commit that    *)
(* was overtaken, lets a browser miss an event.                            *)
THEOREM NothingSkipped == Spec => []SkippedExplained
  <1>1. Followed => SkippedExplained
    BY DEF Followed, Numbered, Gapless, Explained, SkippedExplained
  <1> QED
    BY <1>1, FollowedAlways, PTL

-----------------------------------------------------------------------------
(* Types *)

(* The version counts the announced ids, each of which was announced once. *)
Counted ==
  /\ version = Cardinality(published)
  /\ \A w \in Sessions : session[w].pc = "committed" => session[w].id \notin published
  /\ \A v, w \in Sessions :
       v # w /\ session[v].pc = "committed" /\ session[w].pc = "committed" =>
         session[v].id # session[w].id

(* The rest of the types. *)
Bounded ==
  waiters \subseteq Streams /\ member \subseteq Streams /\ late \subseteq Ids /\ breaks \in 0..MaxBreaks

LEMMA InitCounted == Init => Counted /\ Bounded
  <1> SUFFICES ASSUME Init PROVE Counted /\ Bounded
    OBVIOUS
  <1>1. Cardinality({}) = 0 /\ MaxBreaks \in Nat
    BY FS_EmptySet, LiveStreamAssumption DEF LiveStreamAssumption
  <1>2. \A w \in Sessions : session[w].pc = "idle"
    BY DEF Init, Idle
  <1> QED
    BY <1>1, <1>2 DEF Init, Counted, Bounded

LEMMA PublishedAreFinite == Followed => published \subseteq Ids /\ IsFiniteSet(published)
  <1> SUFFICES ASSUME Followed PROVE published \subseteq Ids /\ IsFiniteSet(published)
    OBVIOUS
  <1>1. published \subseteq Ids
    BY DEF Followed, Typed, Numbered, Used
  <1>2. IsFiniteSet(Ids)
    BY FS_Interval, LiveStreamAssumption DEF LiveStreamAssumption, Ids
  <1> QED
    BY <1>1, <1>2, FS_Subset

LEMMA NextCounted ==
  ASSUME Followed, Counted, [Next]_vars
  PROVE  Counted'
  <1>1. session \in [Sessions -> Session] /\ Numbered
    BY DEF Followed, Typed
  <1>2. CASE \/ UNCHANGED vars
             \/ \E s \in Streams : Turn(s) \/ MinutePasses(s) \/ Break(s) \/ Revoke(s)
    <2>1. UNCHANGED <<session, version, published>>
      BY <1>2 DEF vars, bus, history, browser, Turn, Connect, Query, EndRevoked, Send, Wait, Wake,
                  Timeout, Forget, MinutePasses, Break, Revoke
    <2> QED
      BY <2>1 DEF Counted
  <1>3. ASSUME NEW w \in Sessions, Emit(w) \/ Rollback(w) PROVE Counted'
    <2>1. /\ UNCHANGED <<version, published>>
          /\ \A v \in Sessions : session'[v].pc = "committed" => session'[v] = session[v]
      BY <1>1, <1>3 DEF Emit, Rollback, bus, history, Idle
    <2> QED
      BY <2>1 DEF Counted
  <1>4. ASSUME NEW w \in Sessions, Commit(w) PROVE Counted'
    <2>1. /\ UNCHANGED <<version, published>> /\ session[w].pc = "flushed"
          /\ session'[w].id = session[w].id
          /\ \A v \in Sessions \ {w} : session'[v] = session[v]
      BY <1>1, <1>4 DEF Commit, bus, Session
    <2>2. session[w].id \notin Used
      BY <1>1, <2>1 DEF Numbered
    <2>3. \A v \in Sessions : session[v].pc = "committed" => session[v].id \in Used
      BY <1>1 DEF Numbered
    <2>4. session[w].id \notin published
      BY <1>1, <2>2 DEF Numbered
    <2> QED
      BY <2>1, <2>2, <2>3, <2>4 DEF Counted
  <1>5. ASSUME NEW w \in Sessions, Publish(w) PROVE Counted'
    <2>1. /\ version' = version + 1 /\ published' = published \union {session[w].id}
          /\ session[w].pc = "committed" /\ session'[w].pc = "idle"
          /\ \A v \in Sessions \ {w} : session'[v] = session[v]
      BY <1>1, <1>5 DEF Publish, Idle
    <2>2. Cardinality(published') = Cardinality(published) + 1
      BY <2>1, PublishedAreFinite, FS_AddElement DEF Counted
    <2> QED
      BY <2>1, <2>2 DEF Counted
  <1> QED
    BY <1>2, <1>3, <1>4, <1>5 DEF Next, Ending

LEMMA NextBounded ==
  ASSUME Followed, Bounded, [Next]_vars
  PROVE  Bounded'
  <1>1. session \in [Sessions -> Session] /\ Numbered /\ MaxBreaks \in Nat
    BY LiveStreamAssumption DEF LiveStreamAssumption, Followed, Typed
  <1>2. waiters' \subseteq Streams /\ member' \subseteq Streams
    BY DEF Bounded, Next, Ending, Emit, Rollback, Commit, Publish, vars, bus, history, browser,
           Turn, Connect, Query, EndRevoked, Send, Wait, Wake, Timeout, Forget, MinutePasses, Break, Revoke
  <1>3. breaks' = breaks \/ (breaks < MaxBreaks /\ breaks' = breaks + 1)
    BY DEF Next, Ending, Emit, Rollback, Commit, Publish, vars, bus, history, browser,
           Turn, Connect, Query, EndRevoked, Send, Wait, Wake, Timeout, Forget, MinutePasses, Break, Revoke
  <1>4. late' \subseteq Ids
    <2>1. late' = late \/ \E w \in Sessions : session[w].pc = "flushed" /\ late' \subseteq late \union {session[w].id}
      BY DEF Next, Ending, Emit, Rollback, Commit, Publish, vars, bus, history, browser,
             Turn, Connect, Query, EndRevoked, Send, Wait, Wake, Timeout, Forget, MinutePasses, Break, Revoke
    <2> QED
      BY <1>1, <2>1 DEF Numbered, Bounded
  <1> QED
    BY <1>1, <1>2, <1>3, <1>4 DEF Bounded

(* The version of the bus never runs ahead of the announced events, and no *)
(* stream knows a version that was not published.                          *)
THEOREM TypeCorrect == Spec => []TypeOK
  <1>1. Spec => [](Followed /\ Counted /\ Bounded)
    <2>1. Followed /\ Counted /\ Bounded /\ [Next]_vars => (Counted /\ Bounded)'
      BY NextCounted, NextBounded
    <2> QED
      BY <2>1, InitCounted, FollowedAlways, PTL DEF Spec
  <1>2. ASSUME Followed, Counted, Bounded PROVE TypeOK
    <2>1. Typed /\ MaxId \in Nat
      BY <1>2, LiveStreamAssumption DEF LiveStreamAssumption, Followed
    <2>2. published \subseteq Ids /\ IsFiniteSet(published)
      BY <1>2, PublishedAreFinite
    <2>3. IsFiniteSet(Ids) /\ Cardinality(Ids) = MaxId
      <3>1. IsFiniteSet(1..MaxId) /\ Cardinality(1..MaxId) = IF 1 > MaxId THEN 0 ELSE (MaxId - 1) + 1
        BY <2>1, FS_Interval
      <3> QED
        BY <2>1, <3>1 DEF Ids
    <2>4. version \in 0..MaxId
      <3>1. Cardinality(published) <= Cardinality(Ids)
        BY <2>2, <2>3, FS_Subset
      <3> QED
        BY <1>2, <2>1, <2>3, <3>1 DEF Counted, Typed
    <2>5. signal \in [Streams -> 0..version]
      BY <2>1 DEF Typed
    <2>6. stream \in [Streams -> Stream]
      <3>1. \A s \in Streams : stream[s] \in OpenStream /\ stream[s].known \in 0..MaxId
        BY <2>1, <2>4 DEF Typed, OpenStream
      <3>2. \A r \in OpenStream : r.known \in 0..MaxId => r \in Stream
        BY DEF OpenStream, Stream
      <3> QED
        BY <2>1, <3>1, <3>2 DEF Typed
    <2> QED
      BY <1>2, <2>1, <2>2, <2>4, <2>5, <2>6 DEF Bounded, Typed, TypeOK
  <1> QED
    BY <1>1, <1>2, PTL

=============================================================================

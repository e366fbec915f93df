-------------------------- MODULE LiveClientProofs --------------------------
(***************************************************************************)
(* No order of timers, editors, answers, failures and events makes a tab   *)
(* forget what it has been told: for every number of changes, domains,     *)
(* faults and visits.                                                      *)
(***************************************************************************)
EXTENDS LiveClient, SequenceTheorems, TLAPS

-----------------------------------------------------------------------------
(* What the scripts of a tab keep in order between two callbacks.          *)
Orderly(c) ==
  /\ c.request # {} => c.session = "live" /\ (c.timer \/ c.running \/ c.locked)
  /\ c.timer \/ c.live \/ c.locked \/ c.reconnect \/ c.source # "none" => c.session = "live"
  /\ c.live => c.running
  /\ ~c.running => c.active = {}
  /\ ~c.running \/ ~c.stale => c.more = {}
  /\ c.session = "loading" => c.running /\ ~c.stale /\ c.active = Domains
  /\ c.session = "out" => ~c.running

(* The fields that queueing leaves alone. *)
SameRun(c, e) ==
  /\ e.session = c.session /\ e.source = c.source /\ e.reconnect = c.reconnect
  /\ e.connectedOnce = c.connectedOnce /\ e.cursor = c.cursor /\ e.passed = c.passed
  /\ e.running = c.running /\ e.active = c.active /\ e.base = c.base
  /\ e.stale = c.stale /\ e.more = c.more

LEMMA NewTabType ==
  /\ NewTab \in Tab /\ Orderly(NewTab)
  /\ NewTab.session = "out" /\ NewTab.request = {} /\ NewTab.passed = 0 /\ ~NewTab.running
  /\ NewTab.cursor = 0 /\ NewTab.base = 0 /\ NewTab.source = "none"
  /\ ~NewTab.reconnect /\ ~NewTab.timer /\ ~NewTab.live /\ ~NewTab.locked
  BY LiveClientAssumption DEF LiveClientAssumption, NewTab, Tab, Orderly

LEMMA QueueFacts ==
  ASSUME NEW c \in Tab, NEW scope \in SUBSET Domains
  PROVE  /\ Queue(c, scope) \in Tab /\ SameRun(c, Queue(c, scope))
         /\ Queue(c, scope).live = c.live /\ Queue(c, scope).locked = c.locked
         /\ Queue(c, scope).request = IF c.session = "live" THEN c.request \union scope
                                                             ELSE c.request
         /\ Queue(c, scope).timer <=>
              c.timer \/ (c.session = "live" /\ ~(c.locked \/ c.running))
  <1>1. CASE c.session # "live"
    BY <1>1 DEF Queue, SameRun
  <1>2. CASE c.session = "live"
    <2> DEFINE e == [c EXCEPT !.request = @ \union scope, !.timer = @ \/ ~(c.locked \/ c.running)]
    <2>1. e \in Tab /\ SameRun(c, e) /\ e.live = c.live /\ e.locked = c.locked
          /\ e.request = c.request \union scope
      BY DEF Tab, SameRun
    <2>2. e.timer <=> c.timer \/ ~(c.locked \/ c.running)
      BY DEF Tab
    <2>3. Queue(c, scope) = e
      BY <1>2 DEF Queue
    <2> HIDE DEF e
    <2> QED
      BY <1>2, <2>1, <2>2, <2>3
  <1> QED
    BY <1>1, <1>2

LEMMA FlushFacts ==
  ASSUME NEW c \in Tab
  PROVE  LET e == FlushDeferred(c) IN
         /\ e \in Tab /\ SameRun(c, e) /\ e.live = c.live /\ e.locked = c.locked
         /\ e.request = c.request
         /\ e.timer <=> c.timer \/ (c.session = "live" /\ c.request # {} /\ ~c.live
                                      /\ ~c.running /\ ~c.locked)
  <1>1. CASE c.request = {} \/ c.live \/ c.running \/ c.locked
    BY <1>1 DEF FlushDeferred, SameRun
  <1>2. CASE ~(c.request = {} \/ c.live \/ c.running \/ c.locked)
    <2>1. c.request \in SUBSET Domains /\ FlushDeferred(c) = Queue(c, c.request)
      BY <1>2 DEF FlushDeferred, Tab
    <2>2. c.request \union c.request = c.request
      OBVIOUS
    <2> QED
      BY <1>2, <2>1, <2>2, QueueFacts
  <1> QED
    BY <1>1, <1>2

LEMMA BeginRunFacts ==
  ASSUME NEW c \in Tab, Now \in 0..MaxChanges
  PROVE  LET e == BeginRun(c) IN
         /\ e \in Tab /\ e.session = c.session /\ e.source = c.source
         /\ e.reconnect = c.reconnect /\ e.connectedOnce = c.connectedOnce
         /\ e.cursor = c.cursor /\ e.passed = c.passed /\ e.request = c.request
         /\ e.timer = c.timer /\ e.live = c.live /\ e.locked = c.locked
         /\ e.running /\ e.active = c.more /\ e.base = Now /\ ~e.stale /\ e.more = {}
  BY DEF BeginRun, Tab

LEMMA RefreshFacts ==
  ASSUME NEW c \in Tab, NEW scope \in SUBSET Domains, Now \in 0..MaxChanges
  PROVE  LET e == RefreshData(c, scope) IN
         /\ e \in Tab /\ e.session = c.session /\ e.source = c.source
         /\ e.reconnect = c.reconnect /\ e.connectedOnce = c.connectedOnce
         /\ e.cursor = c.cursor /\ e.passed = c.passed /\ e.request = c.request
         /\ e.timer = c.timer /\ e.live = c.live /\ e.locked = c.locked /\ e.running
         /\ c.running => /\ e.active = c.active /\ e.base = c.base /\ e.stale
                         /\ e.more = c.more \union c.active \union scope
         /\ ~c.running => e.active = scope /\ e.base = Now /\ ~e.stale /\ e.more = {}
  <1>1. CASE c.running
    BY <1>1 DEF RefreshData, Tab
  <1>2. CASE ~c.running
    <2> DEFINE r == [c EXCEPT !.more = scope]
    <2>1. /\ r \in Tab /\ r.session = c.session /\ r.source = c.source
          /\ r.reconnect = c.reconnect /\ r.connectedOnce = c.connectedOnce
          /\ r.cursor = c.cursor /\ r.passed = c.passed /\ r.request = c.request
          /\ r.timer = c.timer /\ r.live = c.live /\ r.locked = c.locked /\ r.more = scope
      BY DEF Tab
    <2>2. RefreshData(c, scope) = BeginRun(r)
      BY <1>2 DEF RefreshData
    <2> HIDE DEF r
    <2> QED
      BY <1>2, <2>1, <2>2, BeginRunFacts
  <1> QED
    BY <1>1, <1>2

LEMMA FinishFacts ==
  ASSUME NEW c \in Tab, Orderly(c), c.running
  PROVE  LET e == Finish(c) IN
         /\ e \in Tab /\ e.session = c.session /\ e.source = c.source
         /\ e.reconnect = c.reconnect /\ e.connectedOnce = c.connectedOnce
         /\ e.cursor = c.cursor /\ e.passed = c.passed /\ e.base = c.base
         /\ e.stale = c.stale /\ e.more = c.more /\ e.locked = c.locked
         /\ e.request = c.request /\ ~e.running /\ e.active = {} /\ ~e.live
         /\ e.timer => c.session = "live"
         /\ c.request # {} => e.timer \/ e.locked
  <1> DEFINE r == [c EXCEPT !.running = FALSE, !.active = {}]
             done == FlushDeferred(r)
             quiet == [done EXCEPT !.live = FALSE]
  <1>1. /\ r \in Tab /\ r.session = c.session /\ r.source = c.source
        /\ r.reconnect = c.reconnect /\ r.connectedOnce = c.connectedOnce
        /\ r.cursor = c.cursor /\ r.passed = c.passed /\ r.base = c.base
        /\ r.stale = c.stale /\ r.more = c.more /\ r.locked = c.locked
        /\ r.request = c.request /\ ~r.running /\ r.active = {} /\ r.live = c.live
        /\ r.timer = c.timer
    BY DEF Tab
  <1>2. Finish(c) = IF done.live THEN FlushDeferred(quiet) ELSE done
    BY DEF Finish
  <1> HIDE DEF r
  <1>3. /\ done \in Tab /\ SameRun(r, done) /\ done.live = r.live /\ done.locked = r.locked
        /\ done.request = r.request
        /\ done.timer <=> r.timer \/ (r.session = "live" /\ r.request # {} /\ ~r.live
                                       /\ ~r.running /\ ~r.locked)
    BY <1>1, FlushFacts
  <1> HIDE DEF done
  <1>4. /\ quiet \in Tab /\ SameRun(done, quiet) /\ ~quiet.live /\ quiet.locked = done.locked
        /\ quiet.request = done.request /\ quiet.timer = done.timer
    BY <1>3 DEF Tab, SameRun
  <1> HIDE DEF quiet
  <1>5. /\ FlushDeferred(quiet) \in Tab /\ SameRun(quiet, FlushDeferred(quiet))
        /\ FlushDeferred(quiet).live = quiet.live /\ FlushDeferred(quiet).locked = quiet.locked
        /\ FlushDeferred(quiet).request = quiet.request
        /\ FlushDeferred(quiet).timer <=>
             quiet.timer \/ (quiet.session = "live" /\ quiet.request # {} /\ ~quiet.live
                             /\ ~quiet.running /\ ~quiet.locked)
    BY <1>4, FlushFacts
  <1>6. CASE c.live
    BY <1>1, <1>2, <1>3, <1>4, <1>5, <1>6 DEF Orderly, SameRun
  <1>7. CASE ~c.live
    BY <1>1, <1>2, <1>3, <1>7 DEF Orderly, SameRun
  <1> QED
    BY <1>6, <1>7

-----------------------------------------------------------------------------
Tidy == TypeOK /\ \A t \in Tabs : Orderly(tab[t])

(* A tab that takes a step, with what the step may do to the rest.         *)
Moves(t, e) ==
  /\ tab' = [tab EXCEPT ![t] = e]
  /\ e \in Tab /\ Orderly(e)
  /\ e.cursor <= Now /\ e.passed <= Now /\ e.base <= Now
  /\ UNCHANGED changes

LEMMA TidyFacts ==
  ASSUME Tidy, NEW t \in Tabs
  PROVE  /\ tab[t] \in Tab /\ Orderly(tab[t]) /\ Now \in 0..MaxChanges
         /\ tab[t].cursor \in 0..Now /\ tab[t].passed \in 0..Now /\ tab[t].base \in 0..Now
         /\ stored \in 0..Now /\ view[t] \in [Domains -> 0..Now] /\ behind[t] \in SUBSET Domains
         /\ \A k \in 1..Now : changes[k] \in Domains
  <1>1. Now \in Nat /\ changes \in Seq(Domains)
    BY DEF Tidy, TypeOK, Now
  <1>2. \A k \in 1..Now : changes[k] \in Domains
    BY <1>1 DEF Now
  <1> QED
    BY <1>1, <1>2, LiveClientAssumption DEF LiveClientAssumption, Tidy, TypeOK

LEMMA MovesTidy ==
  ASSUME Tidy, NEW t \in Tabs, NEW e, Moves(t, e),
         stored' \in 0..Now, faults' \in 0..MaxFaults, visits' \in 0..MaxVisits,
         view' \in [Tabs -> [Domains -> 0..Now]], behind' \in [Tabs -> SUBSET Domains],
         direct' \in [Tabs -> SUBSET (Unguarded \X (0..Now))]
  PROVE  Tidy'
  <1>1. Now' = Now /\ changes' = changes
    BY DEF Moves, Now
  <1>2. tab' \in [Tabs -> Tab] /\ tab'[t] = e /\ \A u \in Tabs : u # t => tab'[u] = tab[u]
    BY DEF Moves, Tidy, TypeOK
  <1>3. {e.cursor, e.passed, e.base} \subseteq 0..Now
    BY DEF Moves, Tab
  <1> QED
    BY <1>1, <1>2, <1>3 DEF Tidy, TypeOK, Moves

LEMMA InitTidy == Init => Tidy
  <1> SUFFICES ASSUME Init PROVE Tidy
    OBVIOUS
  <1>1. Now = 0 /\ changes \in Seq(Domains)
    BY DEF Init, Now
  <1>2. \A t \in Tabs : tab[t] = NewTab
    BY DEF Init
  <1> QED
    BY <1>1, <1>2, NewTabType, LiveClientAssumption
    DEF LiveClientAssumption, Init, Tidy, TypeOK

(* What each callback makes of the tab. *)
LEMMA LoadMoves ==
  ASSUME Tidy, NEW t \in Tabs, Load(t)
  PROVE  \E e \in Tab : /\ Moves(t, e) /\ e.session = "loading" /\ e.base = Now
                        /\ UNCHANGED <<stored, faults>>
  <1> DEFINE n == [NewTab EXCEPT !.session = "loading"]
             e == RefreshData(n, Domains)
  <1>1. /\ n \in Tab /\ n.session = "loading" /\ n.source = "none" /\ ~n.reconnect
        /\ n.cursor = 0 /\ n.passed = 0 /\ n.request = {} /\ ~n.timer
        /\ ~n.live /\ ~n.locked /\ ~n.running
    BY NewTabType DEF Tab
  <1>2. tab' = [tab EXCEPT ![t] = e] /\ UNCHANGED <<changes, stored, faults>>
    BY DEF Load
  <1>3. Now \in 0..MaxChanges /\ Now >= 0
    BY TidyFacts
  <1> HIDE DEF n
  <1>4. /\ e \in Tab /\ e.session = "loading" /\ e.source = "none" /\ ~e.reconnect
        /\ e.cursor = 0 /\ e.passed = 0 /\ e.request = {} /\ ~e.timer
        /\ ~e.live /\ ~e.locked /\ e.running /\ e.active = Domains /\ e.base = Now /\ ~e.stale
        /\ e.more = {}
    BY <1>1, <1>3, RefreshFacts
  <1> HIDE DEF e
  <1>5. Orderly(e)
    BY <1>4 DEF Orderly
  <1>6. Moves(t, e)
    BY <1>2, <1>3, <1>4, <1>5 DEF Moves
  <1> QED
    BY <1>2, <1>4, <1>6

LEMMA ActMoves ==
  ASSUME Tidy, NEW t \in Tabs, Act(t)
  PROVE  LET c == tab[t] IN
         \E e \in Tab : /\ Moves(t, e) /\ c.session = "live" /\ e.session = "live"
                        /\ e.cursor = c.cursor /\ e.passed = c.passed /\ e.request = c.request
                        /\ \/ e.stale /\ e.more = Domains
                           \/ ~e.stale /\ e.running /\ e.active = Domains /\ e.base = Now
                        /\ UNCHANGED <<stored, view, behind, direct, faults>>
  <1> DEFINE c == tab[t]
             e == RefreshData(c, Domains)
  <1>1. /\ tab' = [tab EXCEPT ![t] = e] /\ c.session = "live"
        /\ UNCHANGED <<changes, stored, view, behind, direct, faults>>
    BY DEF Act, Tidy, TypeOK
  <1>2. c \in Tab /\ Orderly(c) /\ Now \in 0..MaxChanges
        /\ c.cursor <= Now /\ c.passed <= Now /\ c.base <= Now
    BY TidyFacts
  <1>3. c.more \subseteq Domains /\ c.active \subseteq Domains
    BY <1>2 DEF Tab
  <1> HIDE DEF c
  <1>4. /\ e \in Tab /\ e.session = c.session /\ e.source = c.source
        /\ e.reconnect = c.reconnect /\ e.cursor = c.cursor /\ e.passed = c.passed
        /\ e.request = c.request /\ e.timer = c.timer /\ e.live = c.live
        /\ e.locked = c.locked /\ e.running
        /\ c.running => /\ e.active = c.active /\ e.base = c.base /\ e.stale
                        /\ e.more = c.more \union c.active \union Domains
        /\ ~c.running => e.active = Domains /\ e.base = Now /\ ~e.stale /\ e.more = {}
    BY <1>2, RefreshFacts
  <1> HIDE DEF e
  <1>5. Orderly(e) /\ e.base <= Now
    BY <1>1, <1>2, <1>4 DEF Orderly
  <1>6. \/ e.stale /\ e.more = Domains
        \/ ~e.stale /\ e.running /\ e.active = Domains /\ e.base = Now
    BY <1>3, <1>4
  <1> QED
    BY <1>1, <1>2, <1>4, <1>5, <1>6 DEF Moves, c

(* The steps that leave the run alone and forget no request: an editor, a  *)
(* timer that comes at a bad moment, the stream.                           *)
Listens(t) ==
  \E e \in Tab :
    /\ Moves(t, e) /\ tab[t].session = "live" /\ e.session = "live"
    /\ tab[t].cursor = tab[t].passed => e.cursor = e.passed
    /\ e.passed \in {tab[t].passed, tab[t].cursor, tab[t].passed + 1}
    /\ e.passed = tab[t].passed + 1 => changes[e.passed] \in e.request \/ e.passed = tab[t].cursor
    /\ tab[t].request \subseteq e.request
    /\ e.running = tab[t].running /\ e.active = tab[t].active /\ e.base = tab[t].base
    /\ e.stale = tab[t].stale /\ e.more = tab[t].more
    /\ stored' \in 0..Now
    /\ UNCHANGED <<view, behind, direct>>

LEMMA EditorListens ==
  ASSUME Tidy, NEW t \in Tabs, OpenEditor(t)
  PROVE  Listens(t) /\ UNCHANGED <<stored, faults>>
  <1> DEFINE c == tab[t]
             e == [c EXCEPT !.locked = TRUE]
  <1>1. c \in Tab /\ Orderly(c) /\ c.cursor \in 0..Now /\ c.passed \in 0..Now /\ c.base \in 0..Now
        /\ stored \in 0..Now
    BY TidyFacts
  <1>2. tab' = [tab EXCEPT ![t] = e] /\ c.session = "live"
        /\ UNCHANGED <<changes, stored, view, behind, direct, faults>>
    BY DEF OpenEditor, Tidy, TypeOK
  <1> HIDE DEF c
  <1>3. /\ e \in Tab /\ e.session = c.session /\ e.source = c.source
        /\ e.reconnect = c.reconnect /\ e.cursor = c.cursor /\ e.passed = c.passed
        /\ e.request = c.request /\ e.timer = c.timer /\ e.live = c.live
        /\ e.locked /\ e.running = c.running /\ e.active = c.active /\ e.base = c.base
        /\ e.stale = c.stale /\ e.more = c.more
    BY <1>1 DEF Tab
  <1> HIDE DEF e
  <1>4. Moves(t, e)
    BY <1>1, <1>2, <1>3 DEF Moves, Orderly
  <1> QED
    BY <1>1, <1>2, <1>3, <1>4 DEF Listens, c

LEMMA CloseListens ==
  ASSUME Tidy, NEW t \in Tabs, CloseEditor(t)
  PROVE  Listens(t) /\ UNCHANGED <<stored, faults, visits>>
  <1> DEFINE c == tab[t]
             r == [c EXCEPT !.locked = FALSE]
             e == FlushDeferred(r)
  <1>1. c \in Tab /\ Orderly(c) /\ c.cursor \in 0..Now /\ c.passed \in 0..Now /\ c.base \in 0..Now
        /\ stored \in 0..Now
    BY TidyFacts
  <1>2. tab' = [tab EXCEPT ![t] = e] /\ c.session = "live"
        /\ UNCHANGED <<changes, stored, view, behind, direct, faults, visits>>
    BY <1>1 DEF CloseEditor, Orderly
  <1> HIDE DEF c
  <1>3. /\ r \in Tab /\ r.session = c.session /\ r.source = c.source
        /\ r.reconnect = c.reconnect /\ r.cursor = c.cursor /\ r.passed = c.passed
        /\ r.request = c.request /\ r.timer = c.timer /\ r.live = c.live
        /\ ~r.locked /\ r.running = c.running /\ r.active = c.active /\ r.base = c.base
        /\ r.stale = c.stale /\ r.more = c.more
    BY <1>1 DEF Tab
  <1> HIDE DEF r
  <1>4. /\ e \in Tab /\ SameRun(r, e) /\ e.live = r.live /\ e.locked = r.locked
        /\ e.request = r.request
        /\ e.timer <=> r.timer \/ (r.session = "live" /\ r.request # {} /\ ~r.live
                                   /\ ~r.running /\ ~r.locked)
    BY <1>3, FlushFacts
  <1> HIDE DEF e
  <1>5. Orderly(e)
    BY <1>1, <1>2, <1>3, <1>4 DEF Orderly, SameRun
  <1>6. Moves(t, e)
    BY <1>1, <1>2, <1>3, <1>4, <1>5 DEF Moves, SameRun
  <1> QED
    BY <1>1, <1>2, <1>3, <1>4, <1>6 DEF Listens, SameRun, c

LEMMA TimerListens ==
  ASSUME Tidy, NEW t \in Tabs, Timer(t), tab[t].live \/ tab[t].running \/ tab[t].locked
  PROVE  Listens(t) /\ UNCHANGED <<stored, faults, visits>>
  <1> DEFINE c == tab[t]
             e == [c EXCEPT !.timer = FALSE]
  <1>1. c \in Tab /\ Orderly(c) /\ c.cursor \in 0..Now /\ c.passed \in 0..Now /\ c.base \in 0..Now
        /\ stored \in 0..Now
    BY TidyFacts
  <1>2. tab' = [tab EXCEPT ![t] = e] /\ c.session = "live"
        /\ UNCHANGED <<changes, stored, view, behind, direct, faults, visits>>
    BY <1>1 DEF Timer, Orderly
  <1>0. c.live \/ c.running \/ c.locked
    OBVIOUS
  <1> HIDE DEF c
  <1>3. /\ e \in Tab /\ e.session = c.session /\ e.source = c.source
        /\ e.reconnect = c.reconnect /\ e.cursor = c.cursor /\ e.passed = c.passed
        /\ e.request = c.request /\ ~e.timer /\ e.live = c.live
        /\ e.locked = c.locked /\ e.running = c.running /\ e.active = c.active
        /\ e.base = c.base /\ e.stale = c.stale /\ e.more = c.more
    BY <1>1 DEF Tab
  <1> HIDE DEF e
  <1>4. Moves(t, e)
    BY <1>0, <1>1, <1>2, <1>3 DEF Moves, Orderly
  <1> QED
    BY <1>1, <1>2, <1>3, <1>4 DEF Listens, c

LEMMA ConnectedListens ==
  ASSUME Tidy, NEW t \in Tabs, Connected(t)
  PROVE  Listens(t) /\ UNCHANGED <<stored, faults, visits>>
  <1> DEFINE c == tab[t]
             r == [c EXCEPT !.source = "open", !.connectedOnce = TRUE]
             e == IF c.connectedOnce THEN Queue(r, Domains) ELSE r
  <1>1. c \in Tab /\ Orderly(c) /\ c.cursor \in 0..Now /\ c.passed \in 0..Now /\ c.base \in 0..Now
        /\ stored \in 0..Now
    BY TidyFacts
  <1>2. tab' = [tab EXCEPT ![t] = e] /\ c.session = "live"
        /\ UNCHANGED <<changes, stored, view, behind, direct, faults, visits>>
    BY <1>1 DEF Connected, Orderly
  <1> HIDE DEF c
  <1>3. /\ r \in Tab /\ r.session = c.session /\ r.source = "open"
        /\ r.reconnect = c.reconnect /\ r.cursor = c.cursor /\ r.passed = c.passed
        /\ r.request = c.request /\ r.timer = c.timer /\ r.live = c.live
        /\ r.locked = c.locked /\ r.running = c.running /\ r.active = c.active
        /\ r.base = c.base /\ r.stale = c.stale /\ r.more = c.more
    BY <1>1 DEF Tab
  <1> HIDE DEF r
  <1>4. e \in Tab /\ Moves(t, e) /\ e.session = "live" /\ e.cursor = r.cursor /\ e.passed = r.passed
        /\ r.request \subseteq e.request /\ e.running = r.running /\ e.active = r.active
        /\ e.base = r.base /\ e.stale = r.stale /\ e.more = r.more
    <2>1. CASE c.connectedOnce
      <3>0. e = Queue(r, Domains) /\ Domains \in SUBSET Domains
        BY <2>1
      <3> HIDE DEF e
      <3>1. /\ e \in Tab /\ SameRun(r, e) /\ e.live = r.live /\ e.locked = r.locked
            /\ e.request = r.request \union Domains
            /\ e.timer <=> r.timer \/ (r.session = "live" /\ ~(r.locked \/ r.running))
        <4>1. r \in Tab /\ r.session = "live"
          BY <1>2, <1>3
        <4> QED
          BY <3>0, <4>1, QueueFacts
      <3>2. Orderly(e)
        BY <1>1, <1>2, <1>3, <3>1 DEF Orderly, SameRun
      <3> QED
        BY <1>1, <1>2, <1>3, <3>1, <3>2 DEF Moves, SameRun
    <2>2. CASE ~c.connectedOnce
      <3>1. Orderly(r) /\ e = r
        BY <1>1, <1>2, <1>3, <2>2 DEF Orderly
      <3> QED
        BY <1>1, <1>2, <1>3, <3>1 DEF Moves
    <2> QED
      BY <2>1, <2>2
  <1> HIDE DEF e
  <1> QED
    BY <1>1, <1>2, <1>3, <1>4 DEF Listens, c

LEMMA MessageListens ==
  ASSUME Tidy, NEW t \in Tabs, Message(t)
  PROVE  Listens(t) /\ UNCHANGED <<faults, visits>>
  <1> DEFINE c == tab[t]
             k == c.passed + 1
             r == [c EXCEPT !.passed = k, !.cursor = k]
             e == Queue(r, {changes[k]})
  <1>1. c \in Tab /\ Orderly(c) /\ c.cursor \in 0..Now /\ c.passed \in 0..Now /\ c.base \in 0..Now
        /\ Now \in 0..MaxChanges
    BY TidyFacts
  <1>2. tab' = [tab EXCEPT ![t] = e] /\ c.session = "live" /\ k <= Now /\ stored' = k
        /\ UNCHANGED <<changes, view, behind, direct, faults, visits>>
    BY <1>1 DEF Message, Orderly
  <1>3. k \in 1..Now /\ changes[k] \in Domains /\ k \in 0..MaxChanges
    BY <1>1, <1>2, TidyFacts, LiveClientAssumption DEF LiveClientAssumption
  <1>4. k = c.passed + 1
    OBVIOUS
  <1> HIDE DEF c, k
  <1>5. /\ r \in Tab /\ r.session = c.session /\ r.source = c.source
        /\ r.reconnect = c.reconnect /\ r.cursor = k /\ r.passed = k
        /\ r.request = c.request /\ r.timer = c.timer /\ r.live = c.live
        /\ r.locked = c.locked /\ r.running = c.running /\ r.active = c.active
        /\ r.base = c.base /\ r.stale = c.stale /\ r.more = c.more
    BY <1>1, <1>3 DEF Tab
  <1>0. e = Queue(r, {changes[k]}) /\ {changes[k]} \in SUBSET Domains
    BY <1>3
  <1> HIDE DEF r, e
  <1>6. /\ e \in Tab /\ SameRun(r, e) /\ e.live = r.live /\ e.locked = r.locked
        /\ e.request = r.request \union {changes[k]}
        /\ e.timer <=> r.timer \/ (r.session = "live" /\ ~(r.locked \/ r.running))
    BY <1>0, <1>2, <1>5, QueueFacts
  <1>7. Orderly(e)
    BY <1>1, <1>2, <1>5, <1>6 DEF Orderly, SameRun
  <1>8. Moves(t, e)
    BY <1>1, <1>2, <1>3, <1>5, <1>6, <1>7 DEF Moves, SameRun
  <1> QED
    BY <1>2, <1>3, <1>4, <1>5, <1>6, <1>8 DEF Listens, SameRun, c

LEMMA DisconnectListens ==
  ASSUME Tidy, NEW t \in Tabs, Disconnect(t)
  PROVE  Listens(t) /\ UNCHANGED <<stored, visits>>
  <1> DEFINE c == tab[t]
             e == [c EXCEPT !.source = "none", !.reconnect = TRUE]
  <1>1. c \in Tab /\ Orderly(c) /\ c.cursor \in 0..Now /\ c.passed \in 0..Now /\ c.base \in 0..Now
        /\ stored \in 0..Now
    BY TidyFacts
  <1>2. tab' = [tab EXCEPT ![t] = e] /\ c.session = "live"
        /\ UNCHANGED <<changes, stored, view, behind, direct, visits>>
    BY <1>1 DEF Disconnect, Orderly, Tidy, TypeOK
  <1> HIDE DEF c
  <1>3. /\ e \in Tab /\ e.session = c.session /\ e.cursor = c.cursor /\ e.passed = c.passed
        /\ e.request = c.request /\ e.timer = c.timer /\ e.live = c.live
        /\ e.locked = c.locked /\ e.running = c.running /\ e.active = c.active
        /\ e.base = c.base /\ e.stale = c.stale /\ e.more = c.more
    BY <1>1 DEF Tab
  <1> HIDE DEF e
  <1>4. Moves(t, e)
    BY <1>1, <1>2, <1>3 DEF Moves, Orderly
  <1> QED
    BY <1>1, <1>2, <1>3, <1>4 DEF Listens, c

LEMMA ReconnectListens ==
  ASSUME Tidy, NEW t \in Tabs, Reconnect(t)
  PROVE  Listens(t) /\ UNCHANGED <<stored, faults, visits>>
  <1> DEFINE c == tab[t]
             e == ConnectFrom([c EXCEPT !.reconnect = FALSE])
  <1>1. c \in Tab /\ Orderly(c) /\ c.cursor \in 0..Now /\ c.passed \in 0..Now /\ c.base \in 0..Now
        /\ stored \in 0..Now
    BY TidyFacts
  <1>2. tab' = [tab EXCEPT ![t] = e] /\ c.session = "live"
        /\ UNCHANGED <<changes, stored, view, behind, direct, faults, visits>>
    BY <1>1 DEF Reconnect, Orderly, Tidy, TypeOK
  <1> HIDE DEF c
  <1>3. /\ e \in Tab /\ e.session = c.session /\ e.cursor = c.cursor /\ e.passed = c.cursor
        /\ e.request = c.request /\ e.timer = c.timer /\ e.live = c.live
        /\ e.locked = c.locked /\ e.running = c.running /\ e.active = c.active
        /\ e.base = c.base /\ e.stale = c.stale /\ e.more = c.more
    BY <1>1 DEF Tab, ConnectFrom
  <1> HIDE DEF e
  <1>4. Moves(t, e)
    BY <1>1, <1>2, <1>3 DEF Moves, Orderly
  <1> QED
    BY <1>1, <1>2, <1>3, <1>4 DEF Listens, c

(* The steps that begin a run, and those that end one.                     *)
LEMMA TimerBegins ==
  ASSUME Tidy, NEW t \in Tabs, Timer(t), ~(tab[t].live \/ tab[t].running \/ tab[t].locked)
  PROVE  \E e \in Tab :
           /\ Moves(t, e) /\ tab[t].session = "live" /\ e.session = "live"
           /\ e.cursor = tab[t].cursor /\ e.passed = tab[t].passed
           /\ e.running /\ ~e.stale /\ e.active = tab[t].request /\ e.base = Now
           /\ tab[t].more = {} /\ UNCHANGED <<stored, view, behind, direct, faults, visits>>
  <1> DEFINE c == tab[t]
             r == [c EXCEPT !.timer = FALSE, !.live = TRUE, !.request = {}]
             e == RefreshData(r, c.request)
  <1>1. c \in Tab /\ Orderly(c) /\ c.cursor <= Now /\ c.passed <= Now /\ c.base <= Now
        /\ Now \in 0..MaxChanges /\ Now <= Now /\ c.request \in SUBSET Domains
    BY TidyFacts DEF Tab
  <1>2. tab' = [tab EXCEPT ![t] = e] /\ c.session = "live" /\ ~c.running /\ ~c.locked
        /\ UNCHANGED <<changes, stored, view, behind, direct, faults, visits>>
    BY <1>1 DEF Timer, Orderly
  <1> HIDE DEF c
  <1>3. /\ r \in Tab /\ r.session = c.session /\ r.source = c.source
        /\ r.reconnect = c.reconnect /\ r.cursor = c.cursor /\ r.passed = c.passed
        /\ r.request = {} /\ ~r.timer /\ r.live /\ r.locked = c.locked /\ r.running = c.running
    BY <1>1 DEF Tab
  <1> HIDE DEF r
  <1>4. /\ e \in Tab /\ e.session = r.session /\ e.source = r.source
        /\ e.reconnect = r.reconnect /\ e.cursor = r.cursor /\ e.passed = r.passed
        /\ e.request = r.request /\ e.timer = r.timer /\ e.live = r.live
        /\ e.locked = r.locked /\ e.running
        /\ ~r.running => e.active = c.request /\ e.base = Now /\ ~e.stale /\ e.more = {}
    <2>1. r \in Tab /\ c.request \in SUBSET Domains /\ Now \in 0..MaxChanges
      BY <1>1, <1>3
    <2> QED
      BY <2>1, RefreshFacts
  <1> HIDE DEF e
  <1>5. Orderly(e)
    BY <1>1, <1>2, <1>3, <1>4 DEF Orderly
  <1>6. Moves(t, e) /\ c.more = {}
    BY <1>1, <1>2, <1>3, <1>4, <1>5 DEF Moves, Orderly
  <1> QED
    BY <1>2, <1>3, <1>4, <1>6 DEF c

LEMMA RunRepeats ==
  ASSUME Tidy, NEW t \in Tabs, tab[t].running, tab[t].stale,
         tab' = [tab EXCEPT ![t] = BeginRun(tab[t])], UNCHANGED changes
  PROVE  \E e \in Tab :
           /\ Moves(t, e) /\ tab[t].session = "live" /\ e.session = "live"
           /\ e.cursor = tab[t].cursor /\ e.passed = tab[t].passed /\ e.request = tab[t].request
           /\ e.running /\ ~e.stale /\ e.active = tab[t].more /\ e.base = Now
  <1> DEFINE c == tab[t]
             e == BeginRun(c)
  <1>1. c \in Tab /\ Orderly(c) /\ c.cursor <= Now /\ c.passed <= Now
        /\ Now \in 0..MaxChanges /\ Now <= Now
    BY TidyFacts
  <1>2. c.session = "live" /\ tab' = [tab EXCEPT ![t] = e]
    BY <1>1 DEF Orderly, Tab
  <1> HIDE DEF c
  <1>4. /\ e \in Tab /\ e.session = c.session /\ e.source = c.source
        /\ e.reconnect = c.reconnect /\ e.cursor = c.cursor /\ e.passed = c.passed
        /\ e.request = c.request /\ e.timer = c.timer /\ e.live = c.live /\ e.locked = c.locked
        /\ e.running /\ e.active = c.more /\ e.base = Now /\ ~e.stale /\ e.more = {}
    BY <1>1, BeginRunFacts
  <1> HIDE DEF e
  <1>5. Orderly(e)
    BY <1>1, <1>2, <1>4 DEF Orderly
  <1>6. Moves(t, e)
    BY <1>1, <1>2, <1>4, <1>5 DEF Moves
  <1> QED
    BY <1>2, <1>4, <1>6 DEF c

LEMMA RunEnds ==
  ASSUME Tidy, NEW t \in Tabs, tab[t].running, ~tab[t].stale, tab[t].session = "live",
         \/ tab' = [tab EXCEPT ![t] = StartLive(Finish(tab[t]))]
         \/ tab' = [tab EXCEPT ![t] = Finish(tab[t])],
         UNCHANGED changes
  PROVE  \E e \in Tab :
           /\ Moves(t, e) /\ e.session = "live" /\ ~e.running
           /\ e.cursor = tab[t].cursor /\ e.passed = tab[t].passed /\ e.request = tab[t].request
           /\ tab[t].more = {}
  <1> DEFINE c == tab[t]
             e == Finish(c)
  <1>1. c \in Tab /\ Orderly(c) /\ c.cursor <= Now /\ c.passed <= Now /\ c.base <= Now
    BY TidyFacts
  <1>2. c.session = "live" /\ c.running /\ ~c.stale
    OBVIOUS
  <1>3. tab' = [tab EXCEPT ![t] = StartLive(e)] \/ tab' = [tab EXCEPT ![t] = e]
    OBVIOUS
  <1> HIDE DEF c
  <1>4. /\ e \in Tab /\ e.session = c.session /\ e.source = c.source
        /\ e.reconnect = c.reconnect /\ e.cursor = c.cursor /\ e.passed = c.passed
        /\ e.base = c.base /\ e.stale = c.stale /\ e.more = c.more /\ e.locked = c.locked
        /\ e.request = c.request /\ ~e.running /\ e.active = {} /\ ~e.live
        /\ e.timer => c.session = "live"
        /\ c.request # {} => e.timer \/ e.locked
    BY <1>1, <1>2, FinishFacts
  <1> HIDE DEF e
  <1>5. Orderly(e) /\ c.more = {}
    BY <1>1, <1>2, <1>4 DEF Orderly
  <1>6. StartLive(e) = e
    BY <1>2, <1>4 DEF StartLive
  <1>7. Moves(t, e)
    BY <1>1, <1>2, <1>3, <1>4, <1>5, <1>6 DEF Moves
  <1> QED
    BY <1>2, <1>4, <1>5, <1>7 DEF c

LEMMA SessionLoads ==
  ASSUME Tidy, NEW t \in Tabs, tab[t].running, tab[t].session = "loading",
         tab' = [tab EXCEPT ![t] = StartLive(Finish(tab[t]))], UNCHANGED changes
  PROVE  \E e \in Tab :
           /\ Moves(t, e) /\ e.session = "live" /\ ~e.running
           /\ e.cursor = stored /\ e.passed = stored
           /\ tab[t].active = Domains /\ ~tab[t].stale
  <1> DEFINE c == tab[t]
             f == Finish(c)
             n == [f EXCEPT !.session = "live", !.cursor = stored]
             e == ConnectFrom(n)
  <1>1. c \in Tab /\ Orderly(c) /\ c.cursor <= Now /\ c.passed <= Now /\ c.base <= Now
        /\ stored <= Now /\ stored \in 0..MaxChanges /\ Now <= Now
    BY TidyFacts, LiveClientAssumption DEF LiveClientAssumption
  <1>2. c.session = "loading" /\ c.running /\ tab' = [tab EXCEPT ![t] = StartLive(f)]
    OBVIOUS
  <1> HIDE DEF c
  <1>3. /\ f \in Tab /\ f.session = c.session /\ f.source = c.source
        /\ f.reconnect = c.reconnect /\ f.base = c.base /\ f.stale = c.stale /\ f.more = c.more
        /\ f.locked = c.locked /\ f.request = c.request /\ ~f.running /\ f.active = {} /\ ~f.live
        /\ f.timer => c.session = "live"
        /\ c.request # {} => f.timer \/ f.locked
    BY <1>1, <1>2, FinishFacts
  <1> HIDE DEF f
  <1>4. StartLive(f) = e
    BY <1>2, <1>3 DEF StartLive
  <1>5. /\ n \in Tab /\ n.session = "live" /\ n.cursor = stored
        /\ n.reconnect = f.reconnect /\ n.base = f.base /\ n.stale = f.stale /\ n.more = f.more
        /\ n.locked = f.locked /\ n.request = f.request /\ ~n.running /\ n.active = f.active
        /\ ~n.live /\ n.timer = f.timer
    BY <1>1, <1>3 DEF Tab
  <1> HIDE DEF n
  <1>6. /\ e \in Tab /\ e.session = "live" /\ e.cursor = stored /\ e.passed = stored
        /\ e.base = c.base /\ e.more = c.more /\ e.request = c.request /\ ~e.running
        /\ e.active = {} /\ ~e.live
        /\ c.request # {} => e.timer \/ e.locked
    BY <1>3, <1>5 DEF ConnectFrom, Tab
  <1> HIDE DEF e
  <1>7. c.active = Domains /\ ~c.stale /\ c.more = {}
    BY <1>1, <1>2 DEF Orderly
  <1>8. Moves(t, e)
    BY <1>1, <1>2, <1>4, <1>6, <1>7 DEF Moves, Orderly
  <1> QED
    BY <1>6, <1>7, <1>8 DEF c

-----------------------------------------------------------------------------
(* One tab takes a step, and the others rest.                              *)
TabStep(t) == \/ Network(t) \/ Callback(t) \/ Load(t) \/ Act(t)
              \/ OpenEditor(t) \/ FailRun(t) \/ Disconnect(t)
              \/ AnswerDirectly(t) \/ \E d \in Unguarded : AskDirectly(t, d)

LEMMA RestTidy ==
  ASSUME Tidy
  PROVE  /\ stored \in 0..Now /\ faults \in 0..MaxFaults /\ visits \in 0..MaxVisits
         /\ view \in [Tabs -> [Domains -> 0..Now]] /\ behind \in [Tabs -> SUBSET Domains]
         /\ direct \in [Tabs -> SUBSET (Unguarded \X (0..Now))]
         /\ MaxFaults \in Nat /\ MaxVisits \in Nat
  BY LiveClientAssumption DEF LiveClientAssumption, Tidy, TypeOK

LEMMA ChangeTidy ==
  ASSUME Tidy, NEW d \in Domains, Change(d)
  PROVE  /\ Tidy' /\ Now' = Now + 1
         /\ \A k \in 1..Now : changes'[k] = changes[k]
  <1>1. Now \in Nat /\ changes \in Seq(Domains) /\ MaxChanges \in Nat
    BY LiveClientAssumption DEF LiveClientAssumption, Tidy, TypeOK, Now
  <1>2. /\ Now < MaxChanges /\ changes' = Append(changes, d)
        /\ UNCHANGED <<stored, tab, view, behind, faults, visits, direct>>
    BY DEF Change
  <1>3. changes' \in Seq(Domains) /\ Now' = Now + 1 /\ \A k \in 1..Now : changes'[k] = changes[k]
    BY <1>1, <1>2 DEF Now
  <1>4. \A n \in 0..Now : n \in 0..Now'
    BY <1>1, <1>3
  <1>5. \A t \in Tabs : view[t] \in [Domains -> 0..Now']
    BY <1>4 DEF Tidy, TypeOK
  <1>6. view \in [Tabs -> [Domains -> 0..Now']]
    BY <1>5 DEF Tidy, TypeOK
  <1>7. stored \in 0..Now' /\ \A t \in Tabs : {tab[t].cursor, tab[t].passed, tab[t].base} \subseteq 0..Now'
    BY <1>4 DEF Tidy, TypeOK
  <1>8. Now' <= MaxChanges
    BY <1>1, <1>2, <1>3
  <1>9. direct \in [Tabs -> SUBSET (Unguarded \X (0..Now'))]
    <2>1. \A t \in Tabs : direct[t] \in SUBSET (Unguarded \X (0..Now'))
      BY <1>4 DEF Tidy, TypeOK
    <2> QED
      BY <2>1 DEF Tidy, TypeOK
  <1> QED
    BY <1>2, <1>3, <1>6, <1>7, <1>8, <1>9 DEF Tidy, TypeOK

(* What a run shows, and what its failure leaves behind. *)
LEMMA ShowsTidy ==
  ASSUME Tidy, NEW t \in Tabs
  PROVE  /\ [view EXCEPT ![t] = [d \in Domains |-> IF d \in tab[t].active THEN tab[t].base ELSE @[d]]]
              \in [Tabs -> [Domains -> 0..Now]]
         /\ [view EXCEPT ![t] = [d \in Domains |-> 0]] \in [Tabs -> [Domains -> 0..Now]]
         /\ [behind EXCEPT ![t] = @ \ tab[t].active] \in [Tabs -> SUBSET Domains]
         /\ [behind EXCEPT ![t] = @ \union tab[t].active] \in [Tabs -> SUBSET Domains]
         /\ [behind EXCEPT ![t] = {}] \in [Tabs -> SUBSET Domains]
         /\ [direct EXCEPT ![t] = {}] \in [Tabs -> SUBSET (Unguarded \X (0..Now))]
  <1>1. tab[t].base \in 0..Now /\ tab[t].active \subseteq Domains /\ 0 \in 0..Now
    BY TidyFacts DEF Tab
  <1> QED
    BY <1>1, RestTidy

(* A load without refreshFamilyData touches no script. *)
LEMMA DirectTidy ==
  ASSUME Tidy, NEW t \in Tabs, AnswerDirectly(t) \/ \E d \in Unguarded : AskDirectly(t, d)
  PROVE  /\ Tidy' /\ UNCHANGED <<changes, stored, tab>>
         /\ \A d \in Domains : view'[t][d] < view[t][d] => d \in behind'[t]
         /\ behind[t] \subseteq behind'[t]
  <1>1. Now \in Nat /\ Unguarded \subseteq Domains /\ view[t] \in [Domains -> 0..Now]
    BY TidyFacts, LiveClientAssumption DEF LiveClientAssumption
  <1>2. CASE AnswerDirectly(t)
    <2>1. PICK d \in Unguarded, n \in 0..Now :
            /\ direct' = [direct EXCEPT ![t] = @ \ {<<d, n>>}]
            /\ view' = [view EXCEPT ![t] = [@ EXCEPT ![d] = n]]
            /\ behind' = [behind EXCEPT ![t] = IF n < view[t][d] THEN @ \union {d} ELSE @]
            /\ UNCHANGED <<changes, stored, tab, faults, visits>>
      BY <1>2 DEF AnswerDirectly
    <2>2. d \in Domains
      BY <1>1
    <2>3. direct' \in [Tabs -> SUBSET (Unguarded \X (0..Now))]
      BY <2>1, RestTidy
    <2>4. [view[t] EXCEPT ![d] = n] \in [Domains -> 0..Now]
      BY <1>1, <2>2
    <2>5. view' \in [Tabs -> [Domains -> 0..Now]] /\ view'[t] = [view[t] EXCEPT ![d] = n]
      BY <2>1, <2>4, RestTidy
    <2>6. (IF n < view[t][d] THEN behind[t] \union {d} ELSE behind[t]) \in SUBSET Domains
      BY <2>2, RestTidy
    <2>7. /\ behind' \in [Tabs -> SUBSET Domains]
          /\ behind'[t] = IF n < view[t][d] THEN behind[t] \union {d} ELSE behind[t]
      BY <2>1, <2>6, RestTidy
    <2>8. Tidy'
      BY <2>1, <2>3, <2>5, <2>7 DEF Tidy, TypeOK, Now
    <2>9. ASSUME NEW x \in Domains, view'[t][x] < view[t][x] PROVE x \in behind'[t]
      <3>1. CASE x = d
        BY <1>1, <2>5, <2>7, <2>9, <3>1
      <3>2. CASE x # d
        BY <1>1, <2>5, <2>9, <3>2
      <3> QED
        BY <3>1, <3>2
    <2> QED
      BY <2>1, <2>7, <2>8, <2>9
  <1>3. ASSUME NEW d \in Unguarded, AskDirectly(t, d)
        PROVE  /\ Tidy' /\ UNCHANGED <<changes, stored, tab, view, behind>>
    <2>1. /\ visits < MaxVisits /\ visits' = visits + 1
          /\ direct' = [direct EXCEPT ![t] = @ \union {<<d, Now>>}]
          /\ UNCHANGED <<changes, stored, tab, view, behind, faults>>
      BY <1>3 DEF AskDirectly
    <2>2. visits' \in 0..MaxVisits
      BY <2>1, RestTidy
    <2>3. <<d, Now>> \in Unguarded \X (0..Now)
      BY <1>1
    <2>4. direct' \in [Tabs -> SUBSET (Unguarded \X (0..Now))]
      BY <2>1, <2>3, RestTidy
    <2> QED
      BY <2>1, <2>2, <2>4 DEF Tidy, TypeOK, Now
  <1>4. CASE \E d \in Unguarded : AskDirectly(t, d)
    <2>1. /\ Tidy' /\ UNCHANGED <<changes, stored, tab, view, behind>>
      BY <1>3, <1>4
    <2>2. \A d \in Domains : ~(view'[t][d] < view[t][d])
      BY <1>1, <2>1
    <2> QED
      BY <2>1, <2>2
  <1> QED
    BY <1>2, <1>4

LEMMA StepTidy ==
  ASSUME Tidy, NEW t \in Tabs, TabStep(t)
  PROVE  Tidy'
  <1>1. ASSUME Listens(t), faults' \in 0..MaxFaults, visits' \in 0..MaxVisits PROVE Tidy'
    BY <1>1, RestTidy, MovesTidy DEF Listens
  <1>2. CASE Connected(t) \/ Message(t) \/ Reconnect(t)
    BY <1>1, <1>2, RestTidy, ConnectedListens, MessageListens, ReconnectListens
  <1>3. CASE CloseEditor(t)
    BY <1>1, <1>3, RestTidy, CloseListens
  <1>4. CASE OpenEditor(t)
    <2>1. visits' \in 0..MaxVisits
      BY <1>4, RestTidy DEF OpenEditor
    <2> QED
      BY <1>1, <1>4, <2>1, RestTidy, EditorListens
  <1>5. CASE Disconnect(t)
    <2>1. faults' \in 0..MaxFaults
      BY <1>5, RestTidy DEF Disconnect
    <2> QED
      BY <1>1, <1>5, <2>1, RestTidy, DisconnectListens
  <1>6. CASE Timer(t)
    <2>1. CASE tab[t].live \/ tab[t].running \/ tab[t].locked
      BY <1>1, <1>6, <2>1, RestTidy, TimerListens
    <2>2. CASE ~(tab[t].live \/ tab[t].running \/ tab[t].locked)
      BY <1>6, <2>2, RestTidy, TimerBegins, MovesTidy
    <2> QED
      BY <2>1, <2>2
  <1>7. CASE Load(t)
    <2>1. visits' \in 0..MaxVisits /\ view' \in [Tabs -> [Domains -> 0..Now]]
          /\ behind' \in [Tabs -> SUBSET Domains]
          /\ direct' \in [Tabs -> SUBSET (Unguarded \X (0..Now))]
      BY <1>7, RestTidy, ShowsTidy DEF Load
    <2> QED
      BY <1>7, <2>1, RestTidy, LoadMoves, MovesTidy
  <1>8. CASE Act(t)
    <2>1. visits' \in 0..MaxVisits
      BY <1>8, RestTidy DEF Act
    <2> QED
      BY <1>8, <2>1, RestTidy, ActMoves, MovesTidy
  <1>9. CASE EndRun(t)
    <2>1. tab[t].running /\ UNCHANGED <<changes, stored, faults, visits, direct>>
      BY <1>9 DEF EndRun
    <2>2. CASE tab[t].stale
      <3>1. tab' = [tab EXCEPT ![t] = BeginRun(tab[t])] /\ UNCHANGED <<view, behind>>
        BY <1>9, <2>2 DEF EndRun
      <3> QED
        BY <2>1, <2>2, <3>1, RestTidy, RunRepeats, MovesTidy
    <2>3. CASE ~tab[t].stale
      <3>1. /\ tab' = [tab EXCEPT ![t] = StartLive(Finish(tab[t]))]
            /\ view' = [view EXCEPT ![t] = [d \in Domains |-> IF d \in tab[t].active
                                                              THEN tab[t].base ELSE @[d]]]
            /\ behind' = [behind EXCEPT ![t] = @ \ tab[t].active]
        BY <1>9, <2>3 DEF EndRun
      <3>2. view' \in [Tabs -> [Domains -> 0..Now]] /\ behind' \in [Tabs -> SUBSET Domains]
        BY <3>1, ShowsTidy
      <3>3. tab[t].session \in {"live", "loading"}
        BY <2>1, TidyFacts DEF Orderly, Tab
      <3>4. \E e \in Tab : Moves(t, e)
        BY <2>1, <2>3, <3>1, <3>3, RunEnds, SessionLoads
      <3> QED
        BY <2>1, <3>2, <3>4, RestTidy, MovesTidy
    <2> QED
      BY <2>2, <2>3
  <1>10. CASE FailRun(t)
    <2>1. tab[t].running /\ faults' \in 0..MaxFaults
          /\ UNCHANGED <<changes, stored, view, visits, direct>>
      BY <1>10, RestTidy DEF FailRun
    <2>2. CASE tab[t].stale
      <3>1. tab' = [tab EXCEPT ![t] = BeginRun(tab[t])] /\ UNCHANGED behind
        BY <1>10, <2>2 DEF FailRun
      <3> QED
        BY <2>1, <2>2, <3>1, RestTidy, RunRepeats, MovesTidy
    <2>3. CASE ~tab[t].stale
      <3>1. /\ tab' = [tab EXCEPT ![t] = IF tab[t].session = "loading" THEN NewTab
                                                                       ELSE Finish(tab[t])]
            /\ behind' = [behind EXCEPT ![t] = @ \union tab[t].active]
        BY <1>10, <2>3 DEF FailRun
      <3>2. behind' \in [Tabs -> SUBSET Domains]
        BY <3>1, ShowsTidy
      <3>3. tab[t].session \in {"live", "loading"}
        BY <2>1, TidyFacts DEF Orderly, Tab
      <3>4. CASE tab[t].session = "loading"
        <4>1. Now >= 0
          BY TidyFacts
        <4>2. Moves(t, NewTab)
          BY <2>1, <3>1, <3>4, <4>1, NewTabType DEF Moves
        <4> QED
          BY <2>1, <3>2, <4>2, RestTidy, MovesTidy
      <3>5. CASE tab[t].session = "live"
        <4>1. tab' = [tab EXCEPT ![t] = Finish(tab[t])]
          BY <3>1, <3>5
        <4> QED
          BY <2>1, <2>3, <3>2, <3>5, <4>1, RestTidy, RunEnds, MovesTidy
      <3> QED
        BY <3>3, <3>4, <3>5
    <2> QED
      BY <2>2, <2>3
  <1> QED
    BY <1>2, <1>3, <1>4, <1>5, <1>6, <1>7, <1>8, <1>9, <1>10, DirectTidy DEF TabStep, Network, Callback

LEMMA TidyAlways == Spec => []Tidy
  <1>1. ASSUME Tidy, [Next]_vars PROVE Tidy'
    <2>1. CASE UNCHANGED vars
      BY <1>1, <2>1 DEF vars, Tidy, TypeOK, Now
    <2>2. ASSUME NEW d \in Domains, Change(d) PROVE Tidy'
      BY <1>1, <2>2, ChangeTidy
    <2>3. ASSUME NEW t \in Tabs, TabStep(t) PROVE Tidy'
      BY <1>1, <2>3, StepTidy
    <2> QED
      BY <1>1, <2>1, <2>2, <2>3 DEF Next, TabStep
  <1> QED
    BY <1>1, InitTidy, PTL DEF Spec

(* No script of a tab, in any order of timers, editors, answers and events, *)
(* sees what the server has not committed or leaves its state undefined.    *)
THEOREM TypeCorrect == Spec => []TypeOK
  <1>1. Tidy => TypeOK
    BY DEF Tidy
  <1> QED
    BY <1>1, TidyAlways, PTL

(* The debounce of queueLiveRefresh and flushDeferredLiveRefresh never      *)
(* leaves a request that nobody will take up: a timer, the end of the run   *)
(* under way or the editor that is open will, however many tabs there are.  *)
THEOREM QueuedAlwaysServed == Spec => []QueuedIsServed
  <1>1. Tidy => QueuedIsServed
    BY DEF Tidy, Orderly, QueuedIsServed
  <1> QED
    BY <1>1, TidyAlways, PTL

-----------------------------------------------------------------------------
(* All tabs of a browser share the stored cursor, and with two of them the *)
(* property does not hold; what follows is about one.                      *)
OneTab == \A t, u \in Tabs : t = u

ShownOf(t, k) ==
  view[t][changes[k]] >= k \/ changes[k] \in behind[t] \/ Coming(t, changes[k], k)

(* A run shows everything that the stream had passed when it began; what   *)
(* has come since is queued.  A session that is loading began its run      *)
(* after all that was stored.                                              *)
Told(t) ==
  /\ tab[t].session = "loading" => stored <= tab[t].base
  /\ tab[t].session = "live" =>
       /\ tab[t].cursor = tab[t].passed
       /\ \A k \in 1..tab[t].passed :
            /\ ShownOf(t, k)
            /\ tab[t].running /\ ~tab[t].stale /\ tab[t].base < k => changes[k] \in tab[t].request

Loyal == Tidy /\ \A t \in Tabs : Told(t)

LEMMA InitLoyal == Init => Loyal
  <1>1. Init => \A t \in Tabs : tab[t].session = "out"
    BY NewTabType DEF Init
  <1> QED
    BY <1>1, InitTidy DEF Loyal, Told

LEMMA PassedTypes ==
  ASSUME Tidy, NEW t \in Tabs
  PROVE  /\ Now \in Nat /\ tab[t].passed \in 0..Now /\ tab[t].base \in 0..Now /\ stored \in 0..Now
         /\ \A k \in 1..tab[t].passed : k \in 1..Now /\ k <= Now /\ changes[k] \in Domains
                                        /\ view[t][changes[k]] \in 0..Now
  <1>1. Now \in Nat
    BY LiveClientAssumption DEF LiveClientAssumption, Tidy, TypeOK, Now
  <1>2. \A k \in 1..tab[t].passed : k \in 1..Now
    BY <1>1, TidyFacts
  <1> QED
    BY <1>1, <1>2, TidyFacts

LEMMA ListensTells ==
  ASSUME Loyal, NEW t \in Tabs, Listens(t)
  PROVE  Told(t)'
  <1>1. PICK e \in Tab :
          /\ Moves(t, e) /\ tab[t].session = "live" /\ e.session = "live"
          /\ tab[t].cursor = tab[t].passed => e.cursor = e.passed
          /\ e.passed \in {tab[t].passed, tab[t].cursor, tab[t].passed + 1}
          /\ e.passed = tab[t].passed + 1 => changes[e.passed] \in e.request \/ e.passed = tab[t].cursor
          /\ tab[t].request \subseteq e.request
          /\ e.running = tab[t].running /\ e.active = tab[t].active /\ e.base = tab[t].base
          /\ e.stale = tab[t].stale /\ e.more = tab[t].more
          /\ UNCHANGED <<view, behind>>
    BY DEF Listens
  <1>2. tab'[t] = e /\ UNCHANGED changes
    BY <1>1 DEF Moves, Loyal, Tidy, TypeOK
  <1>3. tab[t].cursor = tab[t].passed
    BY <1>1 DEF Loyal, Told
  <1>4. ASSUME NEW k \in 1..e.passed
        PROVE  /\ ShownOf(t, k)'
               /\ e.running /\ ~e.stale /\ e.base < k => changes[k] \in e.request
    <2>1. CASE k \in 1..tab[t].passed
      <3>1. /\ ShownOf(t, k)
            /\ tab[t].running /\ ~tab[t].stale /\ tab[t].base < k => changes[k] \in tab[t].request
        BY <1>1, <2>1 DEF Loyal, Told
      <3>2. Coming(t, changes[k], k) => Coming(t, changes[k], k)'
        BY <1>1, <1>2 DEF Coming
      <3> QED
        BY <1>1, <1>2, <3>1, <3>2 DEF ShownOf
    <2>2. CASE k \notin 1..tab[t].passed
      <3>1. k = e.passed /\ e.passed = tab[t].passed + 1 /\ e.passed # tab[t].cursor
        BY <1>1, <1>3, <2>2, PassedTypes DEF Loyal
      <3>2. changes[k] \in e.request
        BY <1>1, <3>1
      <3> QED
        BY <1>2, <3>2 DEF ShownOf, Coming
    <2> QED
      BY <2>1, <2>2
  <1> QED
    BY <1>1, <1>2, <1>3, <1>4 DEF Told

(* A run that begins now shows all that is queued. *)
LEMMA BeginsTells ==
  ASSUME Loyal, NEW t \in Tabs, NEW e \in Tab, Moves(t, e), tab[t].session = "live",
         e.session = "live", e.cursor = tab[t].cursor, e.passed = tab[t].passed,
         e.running, ~e.stale, e.base = Now,
         tab[t].request \union tab[t].more \subseteq e.request \union e.active,
         tab[t].running => tab[t].stale,
         UNCHANGED <<view, behind>>
  PROVE  Told(t)'
  <1>1. tab'[t] = e /\ UNCHANGED changes /\ Tidy
    BY DEF Moves, Loyal, Tidy, TypeOK
  <1>2. ASSUME NEW k \in 1..tab[t].passed PROVE ShownOf(t, k)' /\ ~(e.base < k)
    <2>1. ShownOf(t, k) /\ k <= Now /\ k \in 1..Now /\ Now \in Nat
      BY <1>1, PassedTypes DEF Loyal, Told
    <2>2. Coming(t, changes[k], k) => Coming(t, changes[k], k)'
      BY <1>1, <2>1 DEF Coming
    <2> QED
      BY <1>1, <2>1, <2>2 DEF ShownOf
  <1>3. tab[t].cursor = tab[t].passed
    BY DEF Loyal, Told
  <1> QED
    BY <1>1, <1>2, <1>3 DEF Told

(* A run that ends has shown what had passed when it began, or failed.     *)
LEMMA EndsTells ==
  ASSUME Loyal, NEW t \in Tabs, tab[t].session = "live", tab[t].running, ~tab[t].stale,
         NEW e \in Tab, Moves(t, e), e.session = "live", ~e.running,
         e.cursor = tab[t].cursor, e.passed = tab[t].passed, e.request = tab[t].request,
         tab[t].more = {},
         \A d \in Domains :
           \/ d \in tab[t].active /\ view'[t][d] = tab[t].base /\ d \notin behind'[t]
           \/ d \in tab[t].active /\ view'[t][d] = view[t][d] /\ d \in behind'[t]
           \/ d \notin tab[t].active /\ view'[t][d] = view[t][d]
              /\ (d \in behind'[t] <=> d \in behind[t])
  PROVE  Told(t)'
  <1>1. tab'[t] = e /\ UNCHANGED changes /\ Tidy
    BY DEF Moves, Loyal, Tidy, TypeOK
  <1>2. ASSUME NEW k \in 1..tab[t].passed PROVE ShownOf(t, k)'
    <2>1. /\ ShownOf(t, k) /\ changes[k] \in Domains /\ k \in 1..Now /\ Now \in Nat
          /\ tab[t].base \in 0..Now /\ view[t][changes[k]] \in 0..Now
          /\ tab[t].base < k => changes[k] \in tab[t].request
      BY <1>1, PassedTypes DEF Loyal, Told
    <2>2. CASE changes[k] \in tab[t].request
      BY <1>1, <2>2 DEF ShownOf, Coming
    <2>3. CASE changes[k] \notin tab[t].request
      <3>1. tab[t].base >= k
        BY <2>1, <2>3
      <3>2. view[t][changes[k]] >= k \/ changes[k] \in behind[t] \/ changes[k] \in tab[t].active
        BY <2>1, <2>3 DEF ShownOf, Coming
      <3>3. view'[t][changes[k]] >= k \/ changes[k] \in behind'[t]
        BY <2>1, <3>1, <3>2
      <3> QED
        BY <1>1, <3>3 DEF ShownOf
    <2> QED
      BY <2>2, <2>3
  <1>3. tab[t].cursor = tab[t].passed
    BY DEF Loyal, Told
  <1> QED
    BY <1>1, <1>2, <1>3 DEF Told

LEMMA ViewsType ==
  ASSUME Tidy, NEW t \in Tabs
  PROVE  view[t] \in [Domains -> 0..Now] /\ view \in [Tabs -> [Domains -> 0..Now]]
         /\ behind \in [Tabs -> SUBSET Domains]
  BY DEF Tidy, TypeOK

LEMMA EndRunTells ==
  ASSUME Loyal, NEW t \in Tabs, EndRun(t)
  PROVE  Told(t)'
  <1>1. tab[t].running /\ UNCHANGED <<changes, stored, faults, visits>> /\ Tidy
    BY DEF EndRun, Loyal
  <1>2. tab[t].session \in {"live", "loading"}
    BY <1>1, TidyFacts DEF Orderly, Tab
  <1>3. CASE tab[t].stale
    <2>1. tab' = [tab EXCEPT ![t] = BeginRun(tab[t])] /\ UNCHANGED <<view, behind>>
      BY <1>3 DEF EndRun
    <2>2. PICK e \in Tab :
            /\ Moves(t, e) /\ tab[t].session = "live" /\ e.session = "live"
            /\ e.cursor = tab[t].cursor /\ e.passed = tab[t].passed /\ e.request = tab[t].request
            /\ e.running /\ ~e.stale /\ e.active = tab[t].more /\ e.base = Now
      BY <1>1, <1>3, <2>1, RunRepeats
    <2> QED
      BY <1>3, <2>1, <2>2, BeginsTells
  <1>4. CASE ~tab[t].stale
    <2>1. /\ tab' = [tab EXCEPT ![t] = StartLive(Finish(tab[t]))]
          /\ view' = [view EXCEPT ![t] = [d \in Domains |-> IF d \in tab[t].active
                                                            THEN tab[t].base ELSE @[d]]]
          /\ behind' = [behind EXCEPT ![t] = @ \ tab[t].active]
      BY <1>4 DEF EndRun
    <2>2. \A d \in Domains :
            /\ view'[t][d] = IF d \in tab[t].active THEN tab[t].base ELSE view[t][d]
            /\ d \in behind'[t] <=> d \in behind[t] /\ d \notin tab[t].active
      BY <1>1, <2>1, ViewsType
    <2>3. CASE tab[t].session = "live"
      <3>1. PICK e \in Tab :
              /\ Moves(t, e) /\ e.session = "live" /\ ~e.running
              /\ e.cursor = tab[t].cursor /\ e.passed = tab[t].passed /\ e.request = tab[t].request
              /\ tab[t].more = {}
        BY <1>1, <1>4, <2>1, <2>3, RunEnds
      <3> QED
        BY <1>1, <1>4, <2>2, <2>3, <3>1, EndsTells
    <2>4. CASE tab[t].session = "loading"
      <3>1. PICK e \in Tab : /\ Moves(t, e) /\ e.session = "live" /\ ~e.running
                             /\ e.cursor = stored /\ e.passed = stored
                             /\ tab[t].active = Domains /\ ~tab[t].stale
        BY <1>1, <2>1, <2>4, SessionLoads
      <3>2. tab'[t] = e /\ UNCHANGED changes
        BY <1>1, <3>1 DEF Moves, Tidy, TypeOK
      <3>3. stored <= tab[t].base /\ stored \in 0..Now /\ tab[t].base \in 0..Now /\ Now \in Nat
        BY <1>1, <2>4, PassedTypes DEF Loyal, Told
      <3>4. ASSUME NEW k \in 1..stored PROVE ShownOf(t, k)'
        <4>1. k \in 1..Now /\ k <= tab[t].base
          BY <3>3
        <4>2. changes[k] \in Domains
          BY <1>1, <4>1, TidyFacts
        <4>3. view'[t][changes[k]] = tab[t].base
          BY <2>2, <3>1, <4>2
        <4> QED
          BY <3>2, <3>3, <4>1, <4>3 DEF ShownOf
      <3> QED
        BY <3>1, <3>2, <3>4 DEF Told
    <2> QED
      BY <1>2, <2>3, <2>4
  <1> QED
    BY <1>3, <1>4

LEMMA FailRunTells ==
  ASSUME Loyal, NEW t \in Tabs, FailRun(t)
  PROVE  Told(t)'
  <1>1. tab[t].running /\ UNCHANGED <<changes, stored, view, visits>> /\ Tidy
    BY DEF FailRun, Loyal
  <1>2. tab[t].session \in {"live", "loading"}
    BY <1>1, TidyFacts DEF Orderly, Tab
  <1>3. CASE tab[t].stale
    <2>1. tab' = [tab EXCEPT ![t] = BeginRun(tab[t])] /\ UNCHANGED behind
      BY <1>3 DEF FailRun
    <2>2. PICK e \in Tab :
            /\ Moves(t, e) /\ tab[t].session = "live" /\ e.session = "live"
            /\ e.cursor = tab[t].cursor /\ e.passed = tab[t].passed /\ e.request = tab[t].request
            /\ e.running /\ ~e.stale /\ e.active = tab[t].more /\ e.base = Now
      BY <1>1, <1>3, <2>1, RunRepeats
    <2> QED
      BY <1>1, <1>3, <2>1, <2>2, BeginsTells
  <1>4. CASE ~tab[t].stale
    <2>1. /\ tab' = [tab EXCEPT ![t] = IF tab[t].session = "loading" THEN NewTab
                                                                     ELSE Finish(tab[t])]
          /\ behind' = [behind EXCEPT ![t] = @ \union tab[t].active]
      BY <1>4 DEF FailRun
    <2>2. \A d \in Domains : d \in behind'[t] <=> d \in behind[t] \/ d \in tab[t].active
      BY <1>1, <2>1, ViewsType
    <2>3. CASE tab[t].session = "live"
      <3>1. PICK e \in Tab :
              /\ Moves(t, e) /\ e.session = "live" /\ ~e.running
              /\ e.cursor = tab[t].cursor /\ e.passed = tab[t].passed /\ e.request = tab[t].request
              /\ tab[t].more = {}
        BY <1>1, <1>4, <2>1, <2>3, RunEnds
      <3> QED
        BY <1>1, <1>4, <2>2, <2>3, <3>1, EndsTells
    <2>4. CASE tab[t].session = "loading"
      <3>1. tab'[t] = NewTab
        BY <1>1, <2>1, <2>4 DEF Tidy, TypeOK
      <3> QED
        BY <3>1, NewTabType DEF Told
    <2> QED
      BY <1>2, <2>3, <2>4
  <1> QED
    BY <1>3, <1>4

LEMMA LoadTells ==
  ASSUME Loyal, NEW t \in Tabs, Load(t)
  PROVE  Told(t)'
  <1>1. PICK e \in Tab : /\ Moves(t, e) /\ e.session = "loading" /\ e.base = Now
                         /\ UNCHANGED <<stored, faults>>
    BY LoadMoves DEF Loyal
  <1>2. tab'[t] = e /\ stored <= Now
    BY <1>1, RestTidy DEF Moves, Loyal, Tidy, TypeOK
  <1> QED
    BY <1>1, <1>2 DEF Told

LEMMA ActTells ==
  ASSUME Loyal, NEW t \in Tabs, Act(t)
  PROVE  Told(t)'
  <1>1. PICK e \in Tab :
          /\ Moves(t, e) /\ tab[t].session = "live" /\ e.session = "live"
          /\ e.cursor = tab[t].cursor /\ e.passed = tab[t].passed /\ e.request = tab[t].request
          /\ \/ e.stale /\ e.more = Domains
             \/ ~e.stale /\ e.running /\ e.active = Domains /\ e.base = Now
          /\ UNCHANGED <<stored, view, behind, faults>>
    BY ActMoves DEF Loyal
  <1>2. tab'[t] = e /\ UNCHANGED changes /\ Tidy /\ tab[t].cursor = tab[t].passed
    BY <1>1 DEF Moves, Loyal, Tidy, TypeOK, Told
  <1>3. ASSUME NEW k \in 1..e.passed
        PROVE  ShownOf(t, k)' /\ (e.stale \/ ~(e.base < k))
    <2>1. changes[k] \in Domains /\ k <= Now /\ k \in 1..Now /\ Now \in Nat
      BY <1>1, <1>2, PassedTypes
    <2> QED
      BY <1>1, <1>2, <2>1 DEF ShownOf, Coming
  <1> QED
    BY <1>1, <1>2, <1>3 DEF Told

LEMMA DirectTells ==
  ASSUME Loyal, NEW t \in Tabs, AnswerDirectly(t) \/ \E d \in Unguarded : AskDirectly(t, d)
  PROVE  Told(t)'
  <1>1. /\ Tidy /\ Tidy' /\ UNCHANGED <<changes, stored, tab>>
        /\ \A d \in Domains : view'[t][d] < view[t][d] => d \in behind'[t]
        /\ behind[t] \subseteq behind'[t]
    BY DirectTidy DEF Loyal
  <1>2. ASSUME NEW k \in 1..tab[t].passed, ShownOf(t, k) PROVE ShownOf(t, k)'
    <2>1. /\ changes[k] \in Domains /\ k \in 1..Now /\ Now \in Nat /\ Now' = Now
          /\ view[t][changes[k]] \in 0..Now
      BY <1>1, PassedTypes DEF Now
    <2>2. view'[t][changes[k]] \in 0..Now
      BY <1>1, <2>1 DEF Tidy, TypeOK
    <2>3. view[t][changes[k]] >= k => view'[t][changes[k]] >= k \/ changes[k] \in behind'[t]
      BY <1>1, <2>1, <2>2
    <2> QED
      BY <1>1, <1>2, <2>3 DEF ShownOf, Coming
  <1>3. Told(t)
    BY DEF Loyal
  <1> QED
    BY <1>1, <1>2, <1>3 DEF Told

LEMMA StepTells ==
  ASSUME Loyal, NEW t \in Tabs, TabStep(t)
  PROVE  Told(t)'
  <1>1. Tidy
    BY DEF Loyal
  <1>2. CASE Connected(t) \/ Message(t) \/ Reconnect(t) \/ CloseEditor(t) \/ OpenEditor(t)
             \/ Disconnect(t)
    BY <1>1, <1>2, ListensTells, ConnectedListens, MessageListens, ReconnectListens,
       CloseListens, EditorListens, DisconnectListens
  <1>3. CASE Timer(t)
    <2>1. CASE tab[t].live \/ tab[t].running \/ tab[t].locked
      BY <1>1, <1>3, <2>1, TimerListens, ListensTells
    <2>2. CASE ~(tab[t].live \/ tab[t].running \/ tab[t].locked)
      <3>1. PICK e \in Tab :
              /\ Moves(t, e) /\ tab[t].session = "live" /\ e.session = "live"
              /\ e.cursor = tab[t].cursor /\ e.passed = tab[t].passed
              /\ e.running /\ ~e.stale /\ e.active = tab[t].request /\ e.base = Now
              /\ tab[t].more = {} /\ UNCHANGED <<stored, view, behind, faults, visits>>
        BY <1>1, <1>3, <2>2, TimerBegins
      <3> QED
        BY <2>2, <3>1, BeginsTells
    <2> QED
      BY <2>1, <2>2
  <1> QED
    BY <1>2, <1>3, EndRunTells, FailRunTells, LoadTells, ActTells, DirectTells
    DEF TabStep, Network, Callback

LEMMA LoyalAlways == ASSUME OneTab PROVE Spec => []Loyal
  <1>1. ASSUME Loyal, [Next]_vars PROVE Loyal'
    <2>0. Tidy /\ \A t \in Tabs : Told(t)
      BY <1>1 DEF Loyal
    <2>1. CASE UNCHANGED vars
      BY <2>0, <2>1 DEF vars, Loyal, Tidy, TypeOK, Now, Told, ShownOf, Coming
    <2>2. ASSUME NEW d \in Domains, Change(d) PROVE Loyal'
      <3>1. UNCHANGED <<stored, tab, view, behind>>
        BY <2>2 DEF Change
      <3>2. ASSUME NEW t \in Tabs PROVE Told(t)'
        <4>1. \A k \in 1..tab[t].passed : changes'[k] = changes[k]
          BY <2>0, <2>2, ChangeTidy, PassedTypes
        <4> QED
          BY <2>0, <3>1, <4>1 DEF Told, ShownOf, Coming
      <3> QED
        BY <2>0, <2>2, <3>2, ChangeTidy DEF Loyal
    <2>3. ASSUME NEW t \in Tabs, TabStep(t) PROVE Loyal'
      <3>1. Tidy' /\ Told(t)'
        BY <1>1, <2>0, <2>3, StepTidy, StepTells
      <3> QED
        BY <3>1 DEF OneTab, Loyal
    <2> QED
      BY <1>1, <2>1, <2>2, <2>3 DEF Next, TabStep
  <1> QED
    BY <1>1, InitLoyal, PTL DEF Spec

(* One tab shows every change its stream has passed, or is about to, unless *)
(* a refresh of the domain failed or an answer without a refreshContext set *)
(* it back: no order of timers, editors, overlapping refreshes, failures,   *)
(* own loads and reconnects drops an event (queueLiveRefresh,               *)
(* refreshFamilyData, connectLiveUpdates).  With a second tab the stored    *)
(* cursor can run ahead of what a loading page has fetched.                 *)
THEOREM PassedAlwaysShown == ASSUME OneTab PROVE Spec => []PassedIsShown
  <1>1. Loyal => PassedIsShown
    BY DEF Loyal, Told, ShownOf, PassedIsShown
  <1> QED
    BY <1>1, LoyalAlways, PTL

=============================================================================

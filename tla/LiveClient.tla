----------------------------- MODULE LiveClient -----------------------------
(***************************************************************************)
(* How an open browser tab keeps what it shows up to date (app.js).        *)
(*                                                                         *)
(* A tab loads everything once, then follows the live stream.  Each event  *)
(* queues a refresh of the domains it concerns; a refresh waits for a      *)
(* debounce timer, for an open editor to close, and for a running refresh  *)
(* to end.  A step is one callback up to its next await; callbacks of one  *)
(* tab never overlap.  All tabs of a browser share the stored cursor.      *)
(*                                                                         *)
(* Some domains are also loaded without refreshFamilyData, by a ticker, by *)
(* a change of the tab or with the answer to a claim: such an answer is    *)
(* shown as it comes, whatever has been shown since it was asked for.      *)
(*                                                                         *)
(* The server is the one LiveStream describes for SQLite: changes numbered *)
(* in the order of their commits, each sent to a stream behind it.         *)
(***************************************************************************)
EXTENDS Integers, Sequences

CONSTANTS Tabs,
          Domains,     \* what is refreshed separately: tasks, points, rewards ...
          Unguarded,   \* those also loaded on their own: specialTasks, achievements, points...
          MaxChanges,  \* bound: changes on the server
          MaxFaults,   \* bound: connections that break and fetches that fail
          MaxVisits    \* bound: page loads, refreshes after an action, editors, own loads

ASSUME LiveClientAssumption ==
  {MaxChanges, MaxFaults, MaxVisits} \subseteq Nat /\ Unguarded \subseteq Domains

VARIABLES changes,  \* the domains of the committed changes, oldest first
          stored,   \* the cursor in localStorage
          tab,      \* the state of the scripts
          view,     \* the last change each tab shows of each domain
          behind,   \* domains whose last refresh failed, or that an own load set back
          direct,   \* own loads under way: the domain and what the server had
          faults,
          visits

vars == <<changes, stored, tab, view, behind, direct, faults, visits>>

-----------------------------------------------------------------------------
Now == Len(changes)

(* session: the app is loaded.  source, reconnect: the EventSource and the *)
(* timer that replaces it.  passed: what its stream has been sent.         *)
(* request, timer, live: queued live refresh, debounce timer, live refresh *)
(* under way.  running, active, base, stale, more: the refresh under way,  *)
(* its domains, what the server had when it began, whether a newer one has *)
(* been asked for and of which domains.  {} stands for no request.         *)
Tab == [session: {"out", "loading", "live"}, source: {"none", "connecting", "open"},
        reconnect: BOOLEAN, connectedOnce: BOOLEAN, cursor: 0..MaxChanges,
        passed: 0..MaxChanges, request: SUBSET Domains, timer: BOOLEAN, live: BOOLEAN,
        locked: BOOLEAN, running: BOOLEAN, active: SUBSET Domains, base: 0..MaxChanges,
        stale: BOOLEAN, more: SUBSET Domains]

NewTab == [session |-> "out", source |-> "none", reconnect |-> FALSE,
           connectedOnce |-> FALSE, cursor |-> 0, passed |-> 0, request |-> {},
           timer |-> FALSE, live |-> FALSE, locked |-> FALSE, running |-> FALSE,
           active |-> {}, base |-> 0, stale |-> FALSE, more |-> {}]

(* Nobody has seen a change that is not committed. *)
TypeOK ==
  /\ changes \in Seq(Domains) /\ Now <= MaxChanges
  /\ stored \in 0..Now
  /\ tab \in [Tabs -> Tab]
  /\ \A t \in Tabs : {tab[t].cursor, tab[t].passed, tab[t].base} \subseteq 0..Now
  /\ view \in [Tabs -> [Domains -> 0..Now]]
  /\ behind \in [Tabs -> SUBSET Domains]
  /\ direct \in [Tabs -> SUBSET (Unguarded \X (0..Now))]
  /\ faults \in 0..MaxFaults /\ visits \in 0..MaxVisits

-----------------------------------------------------------------------------
(* The functions of the scripts; each maps a tab to the tab it leaves.     *)

(* queueLiveRefresh *)
Queue(c, scope) ==
  IF c.session # "live" THEN c
  ELSE [c EXCEPT !.request = @ \union scope,
                 !.timer = @ \/ ~(c.locked \/ c.running)]

(* flushDeferredLiveRefresh *)
FlushDeferred(c) ==
  IF c.request = {} \/ c.live \/ c.running \/ c.locked THEN c ELSE Queue(c, c.request)

(* The loop of refreshFamilyData takes up what has been asked for.         *)
BeginRun(c) ==
  [c EXCEPT !.running = TRUE, !.active = c.more, !.base = Now, !.stale = FALSE, !.more = {}]

(* refreshFamilyData: a run under way becomes stale, its domains are kept. *)
RefreshData(c, scope) ==
  IF c.running THEN [c EXCEPT !.stale = TRUE, !.more = @ \union c.active \union scope]
  ELSE BeginRun([c EXCEPT !.more = scope])

(* connectLiveUpdates *)
ConnectFrom(c) == [c EXCEPT !.source = "connecting", !.passed = c.cursor]

(* refreshSession goes on with startLiveUpdates.                           *)
StartLive(c) ==
  IF c.session # "loading" THEN c
  ELSE ConnectFrom([c EXCEPT !.session = "live", !.cursor = stored])

(* Mutant: the end of a live refresh is not noted. *)
FinishLiveForever(c) == FlushDeferred([c EXCEPT !.running = FALSE, !.active = {}])

(* The end of refreshFamilyData, then of the live refresh that waits for   *)
(* it.                                                                     *)
Finish(c) ==
  LET done == FlushDeferred([c EXCEPT !.running = FALSE, !.active = {}])
  IN  IF done.live THEN FlushDeferred([done EXCEPT !.live = FALSE]) ELSE done

-----------------------------------------------------------------------------
(* The page *)

(* The page is loaded: refreshSession. *)
Load(t) ==
  /\ visits < MaxVisits
  /\ visits' = visits + 1
  /\ tab' = [tab EXCEPT ![t] = RefreshData([NewTab EXCEPT !.session = "loading"], Domains)]
  /\ view' = [view EXCEPT ![t] = [d \in Domains |-> 0]]
  /\ behind' = [behind EXCEPT ![t] = {}]
  /\ direct' = [direct EXCEPT ![t] = {}]
  /\ UNCHANGED <<changes, stored, faults>>

(* After an action of the user everything is loaded again. *)
Act(t) ==
  /\ tab[t].session = "live"
  /\ visits < MaxVisits
  /\ visits' = visits + 1
  /\ tab' = [tab EXCEPT ![t] = RefreshData(@, Domains)]
  /\ UNCHANGED <<changes, stored, view, behind, faults, direct>>

OpenEditor(t) ==
  /\ tab[t].session = "live" /\ ~tab[t].locked
  /\ visits < MaxVisits
  /\ visits' = visits + 1
  /\ tab' = [tab EXCEPT ![t].locked = TRUE]
  /\ UNCHANGED <<changes, stored, view, behind, faults, direct>>

(* Mutant: an editor that closes without a look at what was deferred. *)
CloseEditorQuietly(t) ==
  /\ tab[t].locked
  /\ tab' = [tab EXCEPT ![t].locked = FALSE]
  /\ UNCHANGED <<changes, stored, view, behind, faults, visits, direct>>

(* closeTaskEditor, closeRewardEditor, closeDashboardDetailModal ... *)
CloseEditor(t) ==
  /\ tab[t].locked
  /\ tab' = [tab EXCEPT ![t] = FlushDeferred([@ EXCEPT !.locked = FALSE])]
  /\ UNCHANGED <<changes, stored, view, behind, faults, visits, direct>>

-----------------------------------------------------------------------------
(* Refreshing *)

(* Mutant: a timer that comes at a bad moment forgets the request. *)
TimerForgets(t) ==
  LET c == tab[t] IN
  /\ c.timer
  /\ tab' = [tab EXCEPT ![t] =
       IF c.live \/ c.running \/ c.locked THEN [c EXCEPT !.timer = FALSE, !.request = {}]
       ELSE RefreshData([c EXCEPT !.timer = FALSE, !.live = TRUE, !.request = {}], c.request)]
  /\ UNCHANGED <<changes, stored, view, behind, faults, visits, direct>>

(* The debounce timer: begin, or keep the request for later. *)
Timer(t) ==
  LET c == tab[t] IN
  /\ c.timer
  /\ tab' = [tab EXCEPT ![t] =
       IF c.live \/ c.running \/ c.locked THEN [c EXCEPT !.timer = FALSE]
       ELSE RefreshData([c EXCEPT !.timer = FALSE, !.live = TRUE, !.request = {}], c.request)]
  /\ UNCHANGED <<changes, stored, view, behind, faults, visits, direct>>

(* The answers have come: they are shown, unless the run is stale. *)
EndRun(t) ==
  LET c == tab[t] IN
  /\ c.running
  /\ IF c.stale
     THEN tab' = [tab EXCEPT ![t] = BeginRun(c)] /\ UNCHANGED <<view, behind>>
     ELSE /\ tab' = [tab EXCEPT ![t] = StartLive(Finish(c))]
          /\ view' = [view EXCEPT ![t] = [d \in Domains |-> IF d \in c.active THEN c.base ELSE @[d]]]
          /\ behind' = [behind EXCEPT ![t] = @ \ c.active]
  /\ UNCHANGED <<changes, stored, faults, visits, direct>>

(* An answer is an error: a stale run is repeated, another one is not; a   *)
(* session that cannot be loaded ends.                                     *)
FailRun(t) ==
  LET c == tab[t] IN
  /\ c.running
  /\ faults < MaxFaults
  /\ faults' = faults + 1
  /\ IF c.stale
     THEN tab' = [tab EXCEPT ![t] = BeginRun(c)] /\ UNCHANGED behind
     ELSE /\ tab' = [tab EXCEPT ![t] = IF c.session = "loading" THEN NewTab ELSE Finish(c)]
          /\ behind' = [behind EXCEPT ![t] = @ \union c.active]
  /\ UNCHANGED <<changes, stored, view, visits, direct>>

-----------------------------------------------------------------------------
(* Loads without refreshFamilyData *)

(* loadSpecialTasks, loadAchievements, loadPointsBalances or a claim asks. *)
AskDirectly(t, d) ==
  /\ tab[t].session = "live"
  /\ visits < MaxVisits
  /\ visits' = visits + 1
  /\ direct' = [direct EXCEPT ![t] = @ \union {<<d, Now>>}]
  /\ UNCHANGED <<changes, stored, tab, view, behind, faults>>

(* The answer is shown: without a refreshContext nothing is too late.  One *)
(* that never comes stands for one that fails: that is only logged.        *)
AnswerDirectly(t) ==
  \E d \in Unguarded, n \in 0..Now :
    /\ <<d, n>> \in direct[t]
    /\ direct' = [direct EXCEPT ![t] = @ \ {<<d, n>>}]
    /\ view' = [view EXCEPT ![t] = [@ EXCEPT ![d] = n]]
    /\ behind' = [behind EXCEPT ![t] = IF n < view[t][d] THEN @ \union {d} ELSE @]
    /\ UNCHANGED <<changes, stored, tab, faults, visits>>

-----------------------------------------------------------------------------
(* The stream *)

Change(d) ==
  /\ Now < MaxChanges
  /\ changes' = Append(changes, d)
  /\ UNCHANGED <<stored, tab, view, behind, faults, visits, direct>>

(* The "connected" event: all but the first connection of a session ask    *)
(* for everything.                                                         *)
Connected(t) ==
  LET c == [tab[t] EXCEPT !.source = "open", !.connectedOnce = TRUE] IN
  /\ tab[t].source = "connecting"
  /\ tab' = [tab EXCEPT ![t] = IF tab[t].connectedOnce THEN Queue(c, Domains) ELSE c]
  /\ UNCHANGED <<changes, stored, view, behind, faults, visits, direct>>

(* Mutant: the cursor runs one ahead. *)
MessageAhead(t) ==
  LET k == tab[t].passed + 1
      c == [tab[t] EXCEPT !.passed = k, !.cursor = k + 1]
  IN
  /\ tab[t].source = "open" /\ k <= Now
  /\ tab' = [tab EXCEPT ![t] = Queue(c, {changes[k]})]
  /\ stored' = k + 1
  /\ UNCHANGED <<changes, view, behind, faults, visits, direct>>

(* A "family_update" event. *)
Message(t) ==
  LET k == tab[t].passed + 1
      c == [tab[t] EXCEPT !.passed = k, !.cursor = k]
  IN
  /\ tab[t].source = "open" /\ k <= Now
  /\ tab' = [tab EXCEPT ![t] = Queue(c, {changes[k]})]
  /\ stored' = k
  /\ UNCHANGED <<changes, view, behind, faults, visits, direct>>

(* onerror *)
Disconnect(t) ==
  /\ tab[t].source # "none"
  /\ faults < MaxFaults
  /\ faults' = faults + 1
  /\ tab' = [tab EXCEPT ![t].source = "none", ![t].reconnect = TRUE]
  /\ UNCHANGED <<changes, stored, view, behind, visits, direct>>

(* scheduleLiveReconnect *)
Reconnect(t) ==
  /\ tab[t].reconnect
  /\ tab' = [tab EXCEPT ![t] = ConnectFrom([@ EXCEPT !.reconnect = FALSE])]
  /\ UNCHANGED <<changes, stored, view, behind, faults, visits, direct>>

-----------------------------------------------------------------------------
Init ==
  /\ changes = <<>> /\ stored = 0
  /\ tab = [t \in Tabs |-> NewTab]
  /\ view = [t \in Tabs |-> [d \in Domains |-> 0]]
  /\ behind = [t \in Tabs |-> {}] /\ direct = [t \in Tabs |-> {}]
  /\ faults = 0 /\ visits = 0

Network(t) == Connected(t) \/ Message(t) \/ Reconnect(t)
Callback(t) == Timer(t) \/ EndRun(t) \/ CloseEditor(t)

Next == \/ \E d \in Domains : Change(d)
        \/ \E t \in Tabs : \/ Network(t) \/ Callback(t)
                           \/ Load(t) \/ Act(t) \/ OpenEditor(t)
                           \/ FailRun(t) \/ Disconnect(t)
                           \/ AnswerDirectly(t)
                           \/ \E d \in Unguarded : AskDirectly(t, d)

Spec == Init /\ [][Next]_vars

(* The stream delivers, timers expire, requests are answered, and the user *)
(* closes an editor again.                                                 *)
Fairness == \A t \in Tabs : /\ WF_vars(Network(t))
                            /\ WF_vars(Timer(t)) /\ WF_vars(EndRun(t)) /\ WF_vars(CloseEditor(t))

LiveSpec == Spec /\ Fairness

-----------------------------------------------------------------------------
(* Properties *)

(* A refresh that will show change k of domain d is queued or under way.   *)
Coming(t, d, k) ==
  \/ d \in tab[t].request \union tab[t].more
  \/ tab[t].running /\ ~tab[t].stale /\ d \in tab[t].active /\ tab[t].base >= k

(* Whatever the stream of a tab has passed is shown or about to be, unless *)
(* a refresh of its domain failed or an own load set the domain back:      *)
(* neither the debouncing, nor an editor, nor overlapping refreshes, nor a *)
(* reconnect drop an event.                                                *)
PassedIsShown ==
  \A t \in Tabs : tab[t].session = "live" =>
    \A k \in 1..tab[t].passed :
      LET d == changes[k] IN view[t][d] >= k \/ d \in behind[t] \/ Coming(t, d, k)

(* A queued refresh always has somebody who will start it: the timer, the  *)
(* end of the run under way, or the editor that closes.                    *)
QueuedIsServed ==
  \A t \in Tabs : tab[t].request # {} => tab[t].timer \/ tab[t].running \/ tab[t].locked

(* Every committed change is shown in the end, or a refresh of its domain  *)
(* failed, or an own load set it back, or the page is loaded again.        *)
EventuallyShown ==
  \A t \in Tabs, d \in Domains, k \in 1..MaxChanges :
    (tab[t].session = "live" /\ k <= Now /\ changes[k] = d)
      ~> (view[t][d] >= k \/ d \in behind[t] \/ tab[t].session # "live")

=============================================================================

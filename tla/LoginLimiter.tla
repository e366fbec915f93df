---------------------------- MODULE LoginLimiter ----------------------------
(***************************************************************************)
(* The limit on login attempts (login_limiter.py and the login of          *)
(* routers/auth.py).  It is kept in memory and guarded by a lock of its    *)
(* own, which is held for one call at a time: between the check and the    *)
(* record of a failure other requests for the same key come and go, and    *)
(* each call reads the clock before it takes the lock.                     *)
(*                                                                         *)
(* Left out: who the user is and his password (any outcome may follow),    *)
(* the hash that makes the key, the seconds told to the client.            *)
(***************************************************************************)
EXTENDS Handlers, SequencesExt

CONSTANTS Keys,      \* pairs of an address and a name
          MaxKeys,   \* _MAX_KEYS
          Attempts,  \* login_rate_limit_attempts
          Window,    \* login_rate_limit_window_seconds
          Block,     \* login_rate_limit_block_seconds
          MaxLag,    \* bound: how long a call waits for the limiter's lock
          MaxTime    \* bound: the last moment

ASSUME LoginAssumption ==
  /\ None \notin Keys
  /\ {MaxKeys, Attempts, Window, Block, MaxLag, MaxTime} \subseteq Nat \ {0}

VARIABLES clock,    \* time.monotonic()
          limiter,  \* _states: what is known of the keys that are tracked
          login,    \* the requests
          guesses   \* history: when wrong guesses for a key were made, since it was last
                    \* evicted or cleared

loginVars == <<clock, limiter, login, guesses>>

-----------------------------------------------------------------------------
Moments == 0..MaxTime

AttemptState == [attempts: Seq(Moments), blockedUntil: 0..MaxTime + Block, lastSeen: Moments]

NewAttemptState == [attempts |-> <<>>, blockedUntil |-> 0, lastSeen |-> 0]

NoLogin == [pc |-> "idle", key |-> None, now |-> 0]

LoginInit ==
  /\ clock = 0
  /\ limiter = [k \in {} |-> NewAttemptState]
  /\ login = [t \in Threads |-> NoLogin]
  /\ guesses = [k \in Keys |-> <<>>]

-----------------------------------------------------------------------------
(* _prune_attempts stops at the first attempt that is young enough.        *)
Prune(s, now) ==
  LET old == {i \in 1..Len(s) : \A j \in 1..i : s[j] < now - Window}
  IN SubSeq(s, Cardinality(old) + 1, Len(s))

AskRetryAfter(t) ==
  /\ login[t].pc = "idle"
  /\ \E k \in Keys : login' = [login EXCEPT ![t] = [pc |-> "asking", key |-> k, now |-> clock]]
  /\ UNCHANGED <<clock, limiter, guesses>>

RetryAfter(t) ==
  /\ login[t].pc = "asking"
  /\ LET k == login[t].key
         now == login[t].now
     IN \/ /\ k \notin DOMAIN limiter
           /\ login' = [login EXCEPT ![t].pc = "verifying"]
           /\ UNCHANGED limiter
        \/ /\ k \in DOMAIN limiter
           /\ LET s == [limiter[k] EXCEPT !.attempts = Prune(@, now), !.lastSeen = now] IN
              \/ /\ s.blockedUntil <= now
                 /\ limiter' = [limiter EXCEPT ![k] = [s EXCEPT !.blockedUntil = 0]]
                 /\ login' = [login EXCEPT ![t].pc = "verifying"]
              \/ /\ s.blockedUntil > now
                 /\ limiter' = [limiter EXCEPT ![k] = s]
                 /\ login' = [login EXCEPT ![t] = NoLogin]
  /\ UNCHANGED <<clock, guesses>>

(* A name that two users share is refused before any password is tried.    *)
VerifyPassword(t) ==
  /\ login[t].pc = "verifying"
  /\ \/ login' = [login EXCEPT ![t] = [@ EXCEPT !.pc = "failed", !.now = clock]]
     \/ login' = [login EXCEPT ![t].pc = "matched"]
     \/ login' = [login EXCEPT ![t] = NoLogin]
  /\ UNCHANGED <<clock, limiter, guesses>>

-----------------------------------------------------------------------------
(* Mutant: nothing is ever evicted. *)
EvictionsNone(states) == {{}}

(* _evict_if_needed: the keys seen least recently go, a batch at a time;   *)
(* of keys seen at the same moment any may go.                             *)
Evictions(states) ==
  LET overflow == Cardinality(DOMAIN states) - MaxKeys
      batch == IF overflow <= 0 THEN 0
               ELSE IF overflow < MaxKeys \div 10 THEN MaxKeys \div 10 ELSE overflow
  IN {gone \in SUBSET DOMAIN states :
        /\ Cardinality(gone) = batch
        /\ \A k \in gone, j \in DOMAIN states \ gone : states[k].lastSeen <= states[j].lastSeen}

Forget(states, gone) == [k \in DOMAIN states \ gone |-> states[k]]

(* Mutant: the state of the key begins anew instead of being looked up. *)
KnownForgotten(k) == NewAttemptState

Known(k) == IF k \in DOMAIN limiter THEN limiter[k] ELSE NewAttemptState

RecordFailure(t) ==
  /\ login[t].pc = "failed"
  /\ LET k == login[t].key
         now == login[t].now
         tried == Append(Prune(Known(k).attempts, now), now)
         after == IF Len(tried) >= Attempts
                  THEN [attempts |-> <<>>, blockedUntil |-> now + Block, lastSeen |-> now]
                  ELSE [Known(k) EXCEPT !.attempts = tried, !.lastSeen = now]
         states == [j \in DOMAIN limiter \union {k} |-> IF j = k THEN after ELSE limiter[j]]
     IN \E gone \in Evictions(states) :
          /\ limiter' = Forget(states, gone)
          /\ guesses' = [j \in Keys |-> IF j \in gone THEN <<>>
                                        ELSE IF j = k THEN Append(guesses[k], now)
                                        ELSE guesses[j]]
  /\ login' = [login EXCEPT ![t] = NoLogin]
  /\ UNCHANGED clock

Clear(t) ==
  /\ login[t].pc = "matched"
  /\ limiter' = Forget(limiter, {login[t].key})
  /\ guesses' = [guesses EXCEPT ![login[t].key] = <<>>]
  /\ login' = [login EXCEPT ![t] = NoLogin]
  /\ UNCHANGED clock

Tick ==
  /\ clock < MaxTime
  /\ \A t \in Threads :
       login[t].pc \in {"asking", "failed"} => clock < login[t].now + MaxLag
  /\ clock' = clock + 1
  /\ UNCHANGED <<limiter, login, guesses>>

LoginNext ==
  \/ \E t \in Threads : AskRetryAfter(t) \/ RetryAfter(t) \/ VerifyPassword(t)
                        \/ RecordFailure(t) \/ Clear(t)
  \/ Tick

LoginSpec == LoginInit /\ [][LoginNext]_loginVars

-----------------------------------------------------------------------------
LoginTypeOK ==
  /\ clock \in Moments
  /\ DOMAIN limiter \subseteq Keys /\ Cardinality(DOMAIN limiter) <= MaxKeys
  /\ \A k \in DOMAIN limiter : limiter[k] \in AttemptState
  /\ login \in [Threads -> [pc: {"idle", "asking", "verifying", "failed", "matched"},
                            key: Keys \union {None}, now: Moments]]
  /\ guesses \in [Keys -> Seq(Moments)]

(* The positions in s of what is later than a time.                        *)
Since(s, time) == {i \in 1..Len(s) : s[i] > time}

(* How far back the limit reaches.  A block forgets the attempts that led  *)
(* to it, so when it ends before they are a window old, as the settings    *)
(* allow, only those since it began count.                                 *)
Reach == IF Block >= Window + MaxLag THEN Window ELSE Block - MaxLag

(* The limit holds although nothing is locked while a password is tried:   *)
(* while a key is not evicted or cleared, it gets within the reach of the  *)
(* limit as many wrong guesses as are allowed, and one more for each other *)
(* request that was already past the check when the key was blocked.       *)
GuessesBounded ==
  \A k \in Keys :
    Cardinality(Since(guesses[k], clock - Reach)) <= Attempts + Cardinality(Threads) - 1

=============================================================================

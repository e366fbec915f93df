------------------------------ MODULE Handlers ------------------------------
(***************************************************************************)
(* What the endpoints have in common: each request runs in a thread of the *)
(* pool with a database session of its own, and the database either grants *)
(* row locks (PostgreSQL) or ignores SELECT ... FOR UPDATE (SQLite).       *)
(***************************************************************************)
EXTENDS Integers, FiniteSets

CONSTANTS Threads,   \* threads that serve requests
          RowLocks,  \* TRUE on PostgreSQL, FALSE on SQLite
          None       \* nobody, nothing

ASSUME HandlersAssumption == /\ RowLocks \in BOOLEAN
                             /\ None \notin Threads

ASSUME ThreadsAssumption == IsFiniteSet(Threads)  \* the pool of the server

(* A lock that is held by nobody; row locks never make anybody wait on     *)
(* SQLite.                                                                 *)
RowIsFree(owner) == RowLocks => owner = None

Taken(t) == IF RowLocks THEN t ELSE None

=============================================================================

----------------------------- MODULE TasksProofs -----------------------------
(***************************************************************************)
(* Under row locks a task is paid for once, its penalty for one due date   *)
(* is taken once, and a submission is not lost to the maintenance; for     *)
(* every number of threads, tasks and series.                              *)
(*                                                                         *)
(* The inductive invariant, Inv, says what a request relies on between its *)
(* steps (Locking: the rows it holds permit it, and are as it read them),  *)
(* and how the ledger and the rows agree (PaidOnce, ChargesKept).          *)
(*                                                                         *)
(* What a request decides is a session: GoodAt(s, O, i) is what must hold  *)
(* of its row i when it commits, O being the rows it locked.  Each part of *)
(* a request keeps every row good but those it is at work on (GoodBut), so *)
(* that the proof follows the functions of the code.                       *)
(***************************************************************************)
EXTENDS Tasks, FiniteSetTheorems, WellFoundedInduction, TLAPS

-----------------------------------------------------------------------------
(* Folds over finite sets                                                  *)

(* Induction over the natural numbers, for a set of numbers. *)
LEMMA NatSetInduction ==
  ASSUME NEW S, 0 \in S, \A n \in S \intersect Nat : n + 1 \in S
  PROVE  Nat \subseteq S
  <1> DEFINE R == {p \in Nat \X Nat : p[1] < p[2]}
             Bad == Nat \ S
  <1>1. IsWellFoundedOn(R, Nat)
    <2>1. R = OpToRel(<, Nat)
      BY DEF OpToRel
    <2> QED
      BY <2>1, NatLessThanWellFounded
  <1>2. SUFFICES ASSUME Bad # {} PROVE FALSE
    OBVIOUS
  <1>3. PICK m \in Bad : \A n \in Bad : ~(<<n, m>> \in R)
    <2> HIDE DEF R
    <2> QED
      BY <1>1, <1>2, WFMin
  <1>4. m \in Nat /\ m # 0
    OBVIOUS
  <1>5. m - 1 \in Nat /\ m - 1 < m
    BY <1>4
  <1>6. m - 1 \notin Bad
    BY <1>3, <1>5
  <1>7. m = (m - 1) + 1
    BY <1>4
  <1> QED
    BY <1>5, <1>6, <1>7

(* What a fold keeps, when pick names the element that is folded in last.  *)
LEMMA FoldKeeps ==
  ASSUME NEW S, IsFiniteSet(S), NEW X, NEW pick, NEW h,
         \A U \in SUBSET S : U # {} => pick[U] \in U,
         h[{}] \in X[{}],
         \A U \in SUBSET S : U # {} /\ h[U \ {pick[U]}] \in X[U \ {pick[U]}] => h[U] \in X[U]
  PROVE  \A U \in SUBSET S : h[U] \in X[U]
  <1> DEFINE Good == {n \in Nat : \A U \in SUBSET S : Cardinality(U) = n => h[U] \in X[U]}
  <1>0. \A U \in SUBSET S : IsFiniteSet(U) /\ Cardinality(U) \in Nat
    BY FS_Subset, FS_CardinalityType
  <1>1. 0 \in Good
    <2>1. \A U \in SUBSET S : Cardinality(U) = 0 => U = {}
      BY <1>0, FS_EmptySet
    <2> QED
      BY <2>1
  <1>2. ASSUME NEW n \in Good \intersect Nat PROVE n + 1 \in Good
    <2>1. ASSUME NEW U \in SUBSET S, Cardinality(U) = n + 1 PROVE h[U] \in X[U]
      <3>1. U # {}
        BY <2>1, FS_EmptySet
      <3> DEFINE V == U \ {pick[U]}
      <3>2. V \in SUBSET S /\ Cardinality(V) = n
        <4>1. Cardinality(V) = Cardinality(U) - 1
          BY <1>0, <2>1, <3>1, FS_RemoveElement
        <4> QED
          BY <2>1, <4>1
      <3>3. h[V] \in X[V]
        BY <3>2
      <3> QED
        BY <3>1, <3>3
    <2> QED
      BY <2>1
  <1>3. Nat \subseteq Good
    <2> HIDE DEF Good
    <2> QED
      BY <1>1, <1>2, NatSetInduction
  <1> QED
    BY <1>0, <1>3

(* The recursion of a fold has a solution.                                 *)
Solves(g, S, base, pick, step) ==
  g = [U \in SUBSET S |-> IF U = {} THEN base ELSE step[pick[U]][g[U \ {pick[U]}]]]

(* The function that MapThenFoldSet chooses exists, for a finite set. *)
LEMMA FoldExists ==
  ASSUME NEW S, IsFiniteSet(S), NEW base, NEW pick, NEW step,
         \A U \in SUBSET S : U # {} => pick[U] \in U
  PROVE  \E g : Solves(g, S, base, pick, step)
  <1> DEFINE Body(g, U) == IF U = {} THEN base ELSE step[pick[U]][g[U \ {pick[U]}]]
             UpTo(n) == {U \in SUBSET S : Cardinality(U) <= n}
             Good == {n \in Nat : \E g : g = [U \in SUBSET S |-> g[U]] /\ \A U \in UpTo(n) : g[U] = Body(g, U)}
  <1>0. \A U \in SUBSET S : IsFiniteSet(U) /\ Cardinality(U) \in Nat
    BY FS_Subset, FS_CardinalityType
  <1>1. 0 \in Good
    <2> DEFINE g == [U \in SUBSET S |-> base]
    <2>1. \A U \in UpTo(0) : U = {}
      BY <1>0, FS_EmptySet
    <2>2. \A U \in UpTo(0) : g[U] = Body(g, U)
      BY <2>1
    <2>3. g = [U \in SUBSET S |-> g[U]]
      OBVIOUS
    <2> QED
      BY <2>2, <2>3
  <1>2. ASSUME NEW n \in Good \intersect Nat PROVE n + 1 \in Good
    <2>1. PICK g : g = [U \in SUBSET S |-> g[U]] /\ \A U \in UpTo(n) : g[U] = Body(g, U)
      OBVIOUS
    <2> DEFINE h == [U \in SUBSET S |-> Body(g, U)]
    <2>2. ASSUME NEW U \in UpTo(n + 1) PROVE h[U] = Body(h, U)
      <3>1. CASE U = {}
        BY <3>1
      <3>2. CASE U # {}
        <4> DEFINE V == U \ {pick[U]}
        <4>1. V \in UpTo(n)
          <5>1. Cardinality(V) = Cardinality(U) - 1
            BY <3>2, <1>0, FS_RemoveElement
          <5> QED
            BY <5>1, <1>0
        <4>2. h[V] = g[V]
          BY <2>1, <4>1
        <4> QED
          BY <3>2, <4>2
      <3> QED
        BY <3>1, <3>2
    <2>3. h = [U \in SUBSET S |-> h[U]]
      OBVIOUS
    <2>4. n + 1 \in Nat
      OBVIOUS
    <2> HIDE DEF h, Body, UpTo
    <2> QED
      BY <2>2, <2>3, <2>4
  <1>3. Cardinality(S) \in Good
    <2> HIDE DEF Good
    <2> QED
      BY <1>0, <1>1, <1>2, NatSetInduction
  <1>4. PICK g : g = [U \in SUBSET S |-> g[U]] /\ \A U \in UpTo(Cardinality(S)) : g[U] = Body(g, U)
    BY <1>3
  <1>5. \A U \in SUBSET S : g[U] = Body(g, U)
    BY <1>0, <1>4, FS_Subset
  <1>6. g = [U \in SUBSET S |-> Body(g, U)]
    BY <1>4, <1>5
  <1>7. Solves(g, S, base, pick, step)
    BY <1>6 DEF Solves
  <1> QED
    BY <1>7

(* A finite set of rows has a last one. *)
IsLatest(i, rows, U) ==
  i \in U /\ \A j \in U : \/ rows[j].due < rows[i].due
                          \/ rows[j].due = rows[i].due /\ j <= i

(* Among finitely many rows one is due last. *)
LEMMA LatestIsLatest ==
  ASSUME NEW S, IsFiniteSet(S), NEW rows, \A i \in S : i \in Nat /\ rows[i].due \in Int
  PROVE  \A U \in SUBSET S : U # {} => IsLatest(Latest(rows, U), rows, U)
  <1> DEFINE Good == {n \in Nat : \A U \in SUBSET S :
                                    U # {} /\ Cardinality(U) = n => \E i : IsLatest(i, rows, U)}
  <1>0. \A U \in SUBSET S : IsFiniteSet(U) /\ Cardinality(U) \in Nat
    BY FS_Subset, FS_CardinalityType
  <1>1. 0 \in Good
    <2>1. \A U \in SUBSET S : Cardinality(U) = 0 => U = {}
      BY <1>0, FS_EmptySet
    <2> QED
      BY <2>1
  <1>2. ASSUME NEW n \in Good \intersect Nat PROVE n + 1 \in Good
    <2>1. ASSUME NEW U \in SUBSET S, U # {}, Cardinality(U) = n + 1 PROVE \E i : IsLatest(i, rows, U)
      <3>1. PICK x \in U : TRUE
        BY <2>1
      <3>2. Cardinality(U \ {x}) = n /\ U \ {x} \in SUBSET S
        <4>1. Cardinality(U \ {x}) = Cardinality(U) - 1
          BY <1>0, <3>1, FS_RemoveElement
        <4> QED
          BY <2>1, <4>1
      <3>3. CASE U \ {x} = {}
        <4>1. IsLatest(x, rows, U)
          BY <3>3 DEF IsLatest
        <4> QED
          BY <4>1
      <3>4. CASE U \ {x} # {}
        <4>1. PICK i : IsLatest(i, rows, U \ {x})
          BY <3>2, <3>4
        <4>2. IsLatest(i, rows, U) \/ IsLatest(x, rows, U)
          BY <4>1 DEF IsLatest
        <4> QED
          BY <4>2
      <3> QED
        BY <3>3, <3>4
    <2> QED
      BY <2>1
  <1>3. Nat \subseteq Good
    <2> HIDE DEF Good
    <2> QED
      BY <1>1, <1>2, NatSetInduction
  <1>4. \A U \in SUBSET S : U # {} => \E i : IsLatest(i, rows, U)
    BY <1>0, <1>3
  <1> QED
    BY <1>4, Zenon DEF Latest, IsLatest

-----------------------------------------------------------------------------
(* Rows and the columns that a session sets *)

(* What With makes of a row, for each set of columns that a request sets. *)
LEMMA WithStatus ==
  ASSUME NEW row \in Row, NEW x, x \in {"submitted", "missed_submitted", "approved", "rejected"}
  PROVE  With(row, [status |-> x]) = [row EXCEPT !.status = x]
  BY DEF With, Row

LEMMA WithActive ==
  ASSUME NEW row \in Row, NEW x \in BOOLEAN
  PROVE  With(row, [active |-> x]) = [row EXCEPT !.active = x]
  BY DEF With, Row

LEMMA WithDue ==
  ASSUME NEW row \in Row, NEW x \in Due
  PROVE  With(row, [due |-> x]) = [row EXCEPT !.due = x]
  BY DEF With, Row

LEMMA WithApplied ==
  ASSUME NEW row \in Row, NEW x \in Due
  PROVE  With(row, [applied |-> x]) = [row EXCEPT !.applied = x]
  BY DEF With, Row

LEMMA WithDeleted ==
  ASSUME NEW row \in Row
  PROVE  With(row, [status |-> "deleted", active |-> FALSE])
         = [[row EXCEPT !.status = "deleted"] EXCEPT !.active = FALSE]
  <1> DEFINE c == [status |-> "deleted", active |-> FALSE]
             w == With(row, c)
  <1>1. DOMAIN c = {"status", "active"} /\ c["status"] = "deleted" /\ c["active"] = FALSE
    OBVIOUS
  <1> HIDE DEF c
  <1>2. w = [f \in DOMAIN row |-> IF f = "status" THEN "deleted" ELSE IF f = "active" THEN FALSE ELSE row[f]]
    BY <1>1 DEF With
  <1> HIDE DEF w
  <1>3. w = [[row EXCEPT !.status = "deleted"] EXCEPT !.active = FALSE]
    BY <1>2 DEF Row
  <1> QED
    BY <1>3 DEF c, w

LEMMA WithActiveDue ==
  ASSUME NEW row \in Row, NEW x \in Due
  PROVE  With(row, [active |-> TRUE, due |-> x])
         = [[row EXCEPT !.active = TRUE] EXCEPT !.due = x]
  <1> DEFINE c == [active |-> TRUE, due |-> x]
             w == With(row, c)
  <1>1. DOMAIN c = {"due", "active"} /\ c["due"] = x /\ c["active"] = TRUE
    OBVIOUS
  <1> HIDE DEF c
  <1>2. w = [f \in DOMAIN row |-> IF f = "due" THEN x ELSE IF f = "active" THEN TRUE ELSE row[f]]
    BY <1>1 DEF With
  <1> HIDE DEF w
  <1>3. w = [[row EXCEPT !.active = TRUE] EXCEPT !.due = x]
    BY <1>2 DEF Row
  <1> QED
    BY <1>3 DEF c, w

(* Where a session reads what is committed, it writes the row it has. *)
LEMMA WrittenIsWith ==
  ASSUME NEW row \in Row, NEW columns
  PROVE  Written(row, row, columns) = With(row, columns)
  BY DEF With, Written, Row

(* What update_task makes of a row. *)
LEMMA Edited ==
  ASSUME NEW row \in Row, NEW k \in Kinds, NEW d \in Due, NEW p \in BOOLEAN, NEW w \in BOOLEAN,
         NEW a \in BOOLEAN, NEW n \in Nat, NEW v \in Due, NEW x,
         x \in {"open", "submitted", "missed_submitted", "approved", "rejected"}
  PROVE  With(row, [kind |-> k, penalty |-> p, always |-> w, due |-> d, series |-> n,
                    applied |-> v, active |-> a, status |-> x])
         = [status |-> x, kind |-> k, due |-> d, penalty |-> p, always |-> w, active |-> a,
            series |-> n, applied |-> v, created |-> row.created]
  BY DEF With, Row

-----------------------------------------------------------------------------
(* Sessions *)

(* What a session is made of.                                              *)
SessionType ==
  [own: [Ids -> Row], found: [Ids -> Row], last: Nat, serial: Nat,
   candidates: SUBSET Ids, credit: SUBSET Ids, charge: SUBSET Ids]

(* A row that exists, of one of the first n series.                        *)
WellFormed(row, n) ==
  /\ row.status # "none"
  /\ row.kind \in Recurring => row.series # 0 /\ row.due # NoDue
  /\ row.series <= n

(* The row i, as the session leaves it, agrees with what the session pays. *)
PaidRow(i, row, credit) ==
  /\ i \in credit => row.status = "approved" /\ task[i].status \notin {"approved", "deleted"}
  /\ i \notin credit => /\ row.status = "approved" => task[i].status = "approved"
                        /\ task[i].status = "approved" => row.status \in {"approved", "deleted"}

(* A parent is editing the task.                                           *)
EditedNow(i) ==
  \E t \in Threads : pc[t] = "write" /\ request[t].op = "update" /\ request[t].id = i

(* A penalty is taken for a due date after the last one, and remembered,   *)
(* unless an edit of the task makes the row forget it.                     *)
ChargedRow(i, row, charge) ==
  /\ i \in charge =>
       /\ row.due = task[i].due => task[i].due = NoDue \/ task[i].applied < task[i].due
       /\ row.status = "deleted" \/ (row.due # NoDue /\ row.applied >= row.due)
  /\ i \notin charge /\ row.due = task[i].due =>
       \/ row.status = "deleted"
       \/ row.applied >= task[i].applied
       \/ row.applied = NoDue /\ EditedNow(i)

(* What must hold of the row i of a session that locked the rows O: it     *)
(* owns the row, or inserts it, or the id is free.                         *)
GoodAt(s, O, i) ==
  /\ i \in O =>
       /\ s.own[i] = s.found[i]
       /\ WellFormed(s.own[i], s.serial)
       /\ PaidRow(i, s.own[i], s.credit)
       /\ ChargedRow(i, s.own[i], s.charge)
       /\ task[i].status = "submitted" /\ s.own[i].status = "missed_submitted" => EditedNow(i)
  /\ last < i /\ i <= s.last =>
       /\ s.own[i] = s.found[i]
       /\ WellFormed(s.own[i], s.serial)
       /\ s.own[i].status = "open"
       /\ i \in s.charge => s.own[i].due # NoDue /\ s.own[i].applied >= s.own[i].due
  /\ i > s.last => s.own[i] = NoRow /\ s.found[i] = NoRow

(* The session pays and charges for its own rows only.                     *)
Bounded(s, O) ==
  /\ s \in SessionType
  /\ s.last >= last /\ s.serial >= serial
  /\ s.credit \subseteq O
  /\ s.charge \subseteq O \union {i \in Ids : last < i /\ i <= s.last}

(* The rows E are being worked on.                                         *)
GoodBut(s, O, E) == Bounded(s, O) /\ \A i \in Ids \ E : GoodAt(s, O, i)

(* Outside S, the rows of the session r are those of s.                    *)
AlikeBut(s, r, S) ==
  \A i \in Ids \ S : /\ r.own[i] = s.own[i] /\ r.found[i] = s.found[i]
                     /\ (i \in r.credit <=> i \in s.credit)
                     /\ (i \in r.charge <=> i \in s.charge)

(* A session stays good when its rows outside S are left alone. *)
LEMMA GoodChange ==
  ASSUME NEW s, NEW r, NEW O, NEW E, NEW F, NEW S, E \subseteq S,
         GoodBut(s, O, E), Bounded(r, O), r.last = s.last, r.serial >= s.serial,
         AlikeBut(s, r, S),
         \A i \in Ids : i \in S /\ i \notin F => GoodAt(r, O, i)
  PROVE  GoodBut(r, O, F)
  <1>1. ASSUME NEW i \in Ids \ S PROVE GoodAt(r, O, i)
    <2>1. GoodAt(s, O, i)
      BY DEF GoodBut
    <2>2. s.own[i] \in Row /\ s.serial \in Nat /\ r.serial \in Nat
      BY DEF GoodBut, Bounded, SessionType
    <2>3. s.own[i].series <= s.serial => s.own[i].series <= r.serial
      BY <2>2 DEF Row
    <2>4. WellFormed(s.own[i], s.serial) => WellFormed(s.own[i], r.serial)
      BY <2>3 DEF WellFormed
    <2> QED
      BY <2>1, <2>4 DEF GoodAt, PaidRow, ChargedRow, AlikeBut
  <1> QED
    BY <1>1 DEF GoodBut

(* A session r is s with new columns in its rows S.                        *)
Rewritten(s, r, S, rows) ==
  /\ r \in SessionType
  /\ r.last = s.last /\ r.serial = s.serial /\ r.candidates = s.candidates
  /\ r.credit = s.credit /\ r.charge = s.charge
  /\ \A i \in S : r.own[i] = rows[i] /\ r.found[i] = rows[i]
  /\ \A i \in Ids \ S : r.own[i] = s.own[i] /\ r.found[i] = s.found[i]

(* SetEach writes the columns, in the rows of the session and in the         *)
(* database.                                                                 *)
LEMMA SetEachRewrites ==
  ASSUME NEW s \in SessionType, NEW S \in SUBSET Ids, NEW rows \in [S -> Row],
         NEW columns, DOMAIN columns = S,
         \A i \in S : s.own[i] = s.found[i] /\ With(s.own[i], columns[i]) = rows[i]
  PROVE  Rewritten(s, SetEach(s, columns), S, rows)
  <1> DEFINE own == [i \in Ids |-> IF i \in S THEN With(s.own[i], columns[i]) ELSE s.own[i]]
             found == [i \in Ids |-> IF i \in S THEN Written(s.found[i], s.own[i], columns[i])
                                     ELSE s.found[i]]
  <1>1. SetEach(s, columns) = [s EXCEPT !.own = own, !.found = found]
    BY DEF SetEach
  <1>2. \A i \in Ids : s.own[i] \in Row /\ s.found[i] \in Row
    BY DEF SessionType
  <1>3. \A i \in S : Written(s.found[i], s.own[i], columns[i]) = With(s.own[i], columns[i])
    BY <1>2, WrittenIsWith
  <1>4. own \in [Ids -> Row] /\ found \in [Ids -> Row]
    BY <1>2, <1>3
  <1>5. \A i \in S : own[i] = rows[i] /\ found[i] = rows[i]
    BY <1>3
  <1>6. \A i \in Ids \ S : own[i] = s.own[i] /\ found[i] = s.found[i]
    OBVIOUS
  <1> HIDE DEF own, found
  <1> QED
    BY <1>1, <1>4, <1>5, <1>6 DEF SessionType, Rewritten

(* Set is SetEach with the same columns for every row. *)
LEMMA SetRewrites ==
  ASSUME NEW s \in SessionType, NEW S \in SUBSET Ids, NEW rows \in [S -> Row], NEW columns,
         \A i \in S : s.own[i] = s.found[i] /\ With(s.own[i], columns) = rows[i]
  PROVE  Rewritten(s, Set(s, S, columns), S, rows)
  <1> DEFINE each == [i \in S |-> columns]
  <1>1. DOMAIN each = S
    OBVIOUS
  <1>2. \A i \in S : s.own[i] = s.found[i] /\ With(s.own[i], each[i]) = rows[i]
    OBVIOUS
  <1>3. Set(s, S, columns) = SetEach(s, each)
    BY DEF Set
  <1> HIDE DEF each
  <1>4. Rewritten(s, SetEach(s, each), S, rows)
    BY <1>1, <1>2, SetEachRewrites
  <1> QED
    BY <1>3, <1>4

-----------------------------------------------------------------------------
(* The next occurrence *)

(* A period is a positive number of ticks. *)
LEMMA StepType ==
  ASSUME NEW k \in Recurring
  PROVE  Step(k) \in Nat /\ Step(k) > 0
  <1>1. Period[k] \in 1..31 /\ TicksPerDay \in Nat /\ TicksPerDay > 0
    BY TasksAssumption
  <1>2. \A a \in 1..31, b \in Nat : b > 0 => a * b \in Nat /\ a * b > 0
    OBVIOUS
  <1> QED
    BY <1>1, <1>2 DEF Step

(* A due date that is moved on is a due date. *)
LEMMA AlignType ==
  ASSUME TypeOK, NEW d \in Due, NEW k \in Kinds
  PROVE  Align(d, k) \in Due /\ (d # NoDue => Align(d, k) # NoDue)
  <1>1. CASE d = NoDue \/ k = "none" \/ d > now
    BY <1>1 DEF Align
  <1>2. CASE ~(d = NoDue \/ k = "none" \/ d > now)
    <2>1. k \in Recurring /\ d \in Nat /\ now \in Nat /\ d <= now
      BY <1>2, TasksAssumption DEF TypeOK, Kinds, Due
    <2>2. Step(k) \in Nat /\ Step(k) > 0
      BY <2>1, StepType
    <2> DEFINE q == (now - d) \div Step(k)
    <2>3. q \in Nat
      <3>1. \A a \in Nat, b \in Nat : b > 0 => a \div b \in Nat
        OBVIOUS
      <3>2. now - d \in Nat
        BY <2>1
      <3> QED
        BY <3>1, <3>2, <2>2
    <2>4. Align(d, k) = d + Step(k) * (q + 1)
      BY <1>2 DEF Align
    <2> HIDE DEF q
    <2>5. \A a \in Nat, b \in Nat : a * b \in Nat
      OBVIOUS
    <2>6. Step(k) * (q + 1) \in Nat
      BY <2>2, <2>3, <2>5
    <2> QED
      BY <2>1, <2>4, <2>6 DEF Due, NoDue
  <1> QED
    BY <1>1, <1>2

(* r is s with the row of i changed, and rows inserted after the last.     *)
Only(s, r, O, i) ==
  /\ r.candidates = s.candidates
  /\ \A j \in O \ {i} : /\ r.own[j] = s.own[j]
                        /\ (j \in r.credit <=> j \in s.credit)
                        /\ (j \in r.charge <=> j \in s.charge)

(* r is s, with rows inserted after the last.                              *)
Grown(s, r) ==
  /\ r.last >= s.last /\ r.serial = s.serial
  /\ r.candidates = s.candidates /\ r.credit = s.credit /\ r.charge = s.charge
  /\ \A j \in Ids : j <= s.last => r.own[j] = s.own[j] /\ r.found[j] = s.found[j]

(* What Insert does to the parts of a session. *)
LEMMA InsertFields ==
  ASSUME NEW s \in SessionType, NEW row \in Row
  PROVE  /\ Insert(s, row) \in SessionType
         /\ Insert(s, row).last = s.last + 1
         /\ Insert(s, row).serial = s.serial
         /\ Insert(s, row).candidates = s.candidates
         /\ Insert(s, row).credit = s.credit
         /\ Insert(s, row).charge = s.charge
         /\ \A j \in Ids : /\ Insert(s, row).own[j] = IF j = s.last + 1 THEN row ELSE s.own[j]
                           /\ Insert(s, row).found[j] = IF j = s.last + 1 THEN row ELSE s.found[j]
  <1> DEFINE own == [i \in Ids |-> IF i = s.last + 1 THEN row ELSE s.own[i]]
             found == [i \in Ids |-> IF i = s.last + 1 THEN row ELSE s.found[i]]
             n == s.last + 1
  <1>1. Insert(s, row) = [s EXCEPT !.last = n, !.own = own, !.found = found]
    BY DEF Insert
  <1>2. own \in [Ids -> Row] /\ found \in [Ids -> Row] /\ n \in Nat
    BY DEF SessionType
  <1>3. \A j \in Ids : /\ own[j] = IF j = s.last + 1 THEN row ELSE s.own[j]
                       /\ found[j] = IF j = s.last + 1 THEN row ELSE s.found[j]
    OBVIOUS
  <1> HIDE DEF own, found
  <1> QED
    BY <1>1, <1>2, <1>3 DEF SessionType

(* A row that is inserted open and well formed does no harm. *)
LEMMA InsertGood ==
  ASSUME TypeOK, NEW O, O \subseteq 1..last, NEW E \in SUBSET O, NEW s, GoodBut(s, O, E),
         NEW row \in Row, WellFormed(row, s.serial), row.status = "open"
  PROVE  GoodBut(Insert(s, row), O, E) /\ Grown(s, Insert(s, row))
  <1> DEFINE r == Insert(s, row)
  <1>1. s \in SessionType /\ s.last \in Nat /\ s.last >= last /\ last \in Nat
    BY TasksAssumption DEF GoodBut, Bounded, SessionType, TypeOK
  <1>2. /\ r \in SessionType /\ r.last = s.last + 1 /\ r.serial = s.serial
        /\ r.candidates = s.candidates /\ r.credit = s.credit /\ r.charge = s.charge
        /\ \A j \in Ids : /\ r.own[j] = IF j = s.last + 1 THEN row ELSE s.own[j]
                          /\ r.found[j] = IF j = s.last + 1 THEN row ELSE s.found[j]
    BY <1>1, InsertFields
  <1> HIDE DEF r
  <1>3. Grown(s, r)
    BY <1>1, <1>2 DEF Grown, Ids
  <1>4. Bounded(r, O)
    BY <1>1, <1>2 DEF GoodBut, Bounded, Ids
  <1>5. ASSUME NEW j \in Ids \ E PROVE GoodAt(r, O, j)
    <2>1. GoodAt(s, O, j)
      BY DEF GoodBut
    <2>2. CASE j = s.last + 1
      <3>1. j \notin O /\ j \notin s.charge
        BY <1>1, <2>2 DEF GoodBut, Bounded, Ids
      <3> QED
        BY <1>1, <1>2, <2>2, <3>1 DEF GoodAt, Ids
    <2>3. CASE j # s.last + 1
      <3>1. r.own[j] = s.own[j] /\ r.found[j] = s.found[j]
        BY <1>2, <2>3
      <3>2. j <= r.last => j <= s.last
        BY <1>1, <1>2, <2>3 DEF Ids
      <3>3. j > r.last => j > s.last
        BY <1>1, <1>2 DEF Ids
      <3> QED
        BY <1>2, <2>1, <3>1, <3>2, <3>3 DEF GoodAt
    <2> QED
      BY <2>2, <2>3
  <1>6. GoodBut(r, O, E)
    BY <1>4, <1>5 DEF GoodBut
  <1> QED
    BY <1>3, <1>6 DEF r

(* The next occurrence of a series is inserted, or it is not. *)
LEMMA CreateNextGood ==
  ASSUME TypeOK, NEW O, O \subseteq 1..last, NEW E \in SUBSET O, NEW s, GoodBut(s, O, E),
         NEW i \in O, WellFormed(s.own[i], s.serial)
  PROVE  GoodBut(CreateNext(s, i), O, E) /\ Grown(s, CreateNext(s, i))
  <1> DEFINE old == s.own[i]
             row == [old EXCEPT !.status = "open", !.due = NextDue(old), !.applied = NoDue,
                                !.created = now]
  <1>1. s \in SessionType /\ i \in Ids /\ old \in Row
    <2>1. i \in Ids
      BY TasksAssumption DEF TypeOK, Ids
    <2>2. s \in SessionType
      BY DEF GoodBut, Bounded
    <2> QED
      BY <2>1, <2>2 DEF SessionType
  <1>2. CASE old.active /\ old.kind \in Recurring
    <2>1. old.due \in Nat /\ old.series # 0 /\ old.series \in Nat /\ old.series <= s.serial
      BY <1>1, <1>2 DEF WellFormed, Row, Due
    <2>2. NextDue(old) \in Nat
      BY <1>2, <2>1, StepType DEF NextDue
    <2>3. now \in 0..MaxTime
      BY DEF TypeOK
    <2> DEFINE d == NextDue(old)
    <2> HIDE DEF d, old
    <2>4. d \in Due /\ d # NoDue /\ NoDue \in Due
      BY <2>2 DEF d, Due, NoDue
    <2> DEFINE new == [old EXCEPT !.status = "open", !.due = d, !.applied = NoDue, !.created = now]
    <2>5. new \in Row /\ new.status = "open" /\ new.due = d /\ new.series = old.series
      BY <1>1, <2>3, <2>4 DEF Row
    <2>6. WellFormed(new, s.serial)
      BY <2>1, <2>4, <2>5 DEF WellFormed
    <2>7. new = row
      BY DEF d
    <2>8. GoodBut(Insert(s, row), O, E) /\ Grown(s, Insert(s, row))
      BY <2>5, <2>6, <2>7, InsertGood
    <2>9. CreateNext(s, i) = s \/ CreateNext(s, i) = Insert(s, row)
      BY DEF CreateNext, old
    <2>10. Grown(s, s)
      BY <1>1 DEF Grown, SessionType
    <2> QED
      BY <2>8, <2>9, <2>10
  <1>3. CASE ~(old.active /\ old.kind \in Recurring)
    <2>1. CreateNext(s, i) = s
      BY <1>3 DEF CreateNext
    <2>2. Grown(s, s)
      BY <1>1 DEF Grown, SessionType
    <2> QED
      BY <2>1, <2>2
  <1> QED
    BY <1>2, <1>3

-----------------------------------------------------------------------------
(* One row is approved, deleted or reviewed *)

(* A row that a session owns is a committed row. *)
LEMMA OwnedFacts ==
  ASSUME TypeOK, NEW O, O \subseteq 1..last, NEW i \in O, NEW E, NEW s, GoodBut(s, O, E)
  PROVE  /\ i \in Ids /\ i <= last /\ s \in SessionType /\ s.last \in Nat /\ last <= s.last /\ last \in Nat
         /\ s.own[i] \in Row /\ s.serial \in Nat
         /\ \A j \in O : j \in Ids /\ j <= s.last
  <1>1. last \in 0..MaxTasks /\ MaxTasks \in Nat
    BY TasksAssumption DEF TypeOK
  <1>2. s \in SessionType /\ s.last >= last
    BY DEF GoodBut, Bounded
  <1>3. s.last \in Nat /\ s.serial \in Nat
    BY <1>2 DEF SessionType
  <1>4. \A j \in O : j \in Ids /\ j <= s.last
    BY <1>1, <1>2, <1>3 DEF Ids
  <1>5. s.own[i] \in Row
    BY <1>2, <1>4 DEF SessionType
  <1> QED
    BY <1>1, <1>2, <1>3, <1>4, <1>5

(* The row of i alone is set. *)
LEMMA SetOne ==
  ASSUME NEW s \in SessionType, NEW i \in Ids, NEW columns, s.own[i] = s.found[i],
         With(s.own[i], columns) \in Row
  PROVE  Rewritten(s, Set(s, {i}, columns), {i}, [j \in {i} |-> With(s.own[i], columns)])
  <1> DEFINE rows == [j \in {i} |-> With(s.own[i], columns)]
  <1>1. rows \in [{i} -> Row] /\ {i} \in SUBSET Ids
    OBVIOUS
  <1>2. \A j \in {i} : s.own[j] = s.found[j] /\ With(s.own[j], columns) = rows[j]
    OBVIOUS
  <1> HIDE DEF rows
  <1> QED
    BY <1>1, <1>2, SetRewrites DEF rows

(* r is s with another row of i. *)
Changes(s, r, O, i, row) ==
  /\ Only(s, r, O, i) /\ r.own[i] = row /\ r.found[i] = row
  /\ r.last = s.last /\ r.serial = s.serial
  /\ r.credit = s.credit /\ r.charge = s.charge

(* One row is set; whether it is good is left to the caller. *)
LEMMA SetKeeps ==
  ASSUME TypeOK, NEW O, O \subseteq 1..last, NEW i \in O, NEW E \in SUBSET {i},
         NEW s, GoodBut(s, O, E), s.own[i] = s.found[i],
         NEW columns, NEW row \in Row, With(s.own[i], columns) = row
  PROVE  /\ GoodBut(Set(s, {i}, columns), O, {i})
         /\ Changes(s, Set(s, {i}, columns), O, i, row)
  <1> DEFINE r == Set(s, {i}, columns)
             rows == [j \in {i} |-> With(s.own[i], columns)]
  <1>1. i \in Ids /\ i <= last /\ s \in SessionType /\ s.last \in Nat /\ last <= s.last /\ last \in Nat
        /\ s.own[i] \in Row /\ s.serial \in Nat
        /\ \A j \in O : j \in Ids /\ j <= s.last
    BY OwnedFacts
  <1>2. Rewritten(s, r, {i}, rows)
    BY <1>1, SetOne
  <1>3. rows[i] = row
    OBVIOUS
  <1> HIDE DEF r, rows
  <1>4. r.own[i] = row /\ r.found[i] = row /\ r.last = s.last /\ r.serial = s.serial
        /\ r.credit = s.credit /\ r.charge = s.charge /\ r.candidates = s.candidates
        /\ r \in SessionType
    BY <1>2, <1>3 DEF Rewritten
  <1>5. \A j \in Ids \ {i} : r.own[j] = s.own[j] /\ r.found[j] = s.found[j]
    BY <1>2 DEF Rewritten
  <1>6. \A j \in Ids : j \in {i} /\ j \notin {i} => GoodAt(r, O, j)
    OBVIOUS
  <1>7. Bounded(r, O)
    BY <1>4 DEF GoodBut, Bounded
  <1>8. r.serial >= s.serial
    BY <1>4, <1>1
  <1>9. GoodBut(r, O, {i})
    <2>1. AlikeBut(s, r, {i})
      BY <1>4, <1>5 DEF AlikeBut
    <2> QED
      BY <1>4, <1>6, <1>7, <1>8, <2>1, GoodChange
  <1>10. Only(s, r, O, i)
    BY <1>1, <1>4, <1>5 DEF Only
  <1> QED
    BY <1>4, <1>9, <1>10 DEF r, Changes

(* The row that was left out is good again. *)
LEMMA GoodAgain ==
  ASSUME NEW O, NEW i, NEW s, GoodBut(s, O, {i}), i \in Ids, GoodAt(s, O, i)
  PROVE  GoodBut(s, O, {})
  BY DEF GoodBut

(* One row is set, and the new row is good. *)
LEMMA SetGood ==
  ASSUME TypeOK, NEW O, O \subseteq 1..last, NEW i \in O, NEW E \in SUBSET {i},
         NEW s, GoodBut(s, O, E), s.own[i] = s.found[i],
         NEW columns, NEW row \in Row, With(s.own[i], columns) = row, WellFormed(row, s.serial),
         PaidRow(i, row, s.credit), ChargedRow(i, row, s.charge),
         task[i].status = "submitted" /\ row.status = "missed_submitted" => EditedNow(i)
  PROVE  /\ GoodBut(Set(s, {i}, columns), O, {})
         /\ Changes(s, Set(s, {i}, columns), O, i, row)
  <1> DEFINE r == Set(s, {i}, columns)
  <1>1. i \in Ids /\ i <= last /\ s \in SessionType /\ s.last \in Nat /\ last <= s.last /\ last \in Nat
        /\ s.own[i] \in Row /\ s.serial \in Nat
        /\ \A j \in O : j \in Ids /\ j <= s.last
    BY OwnedFacts
  <1>2. /\ GoodBut(r, O, {i})
        /\ Changes(s, r, O, i, row)
    BY SetKeeps, Zenon
  <1> HIDE DEF r
  <1>3. GoodAt(r, O, i)
    BY <1>1, <1>2 DEF GoodAt, Changes
  <1>4. GoodBut(r, O, {})
    BY <1>1, <1>2, <1>3, GoodAgain
  <1> QED
    BY <1>2, <1>4 DEF r

(* A row that was not paid for is deleted; a penalty just taken was due. *)
LEMMA DeleteGood ==
  ASSUME TypeOK, NEW O, O \subseteq 1..last, NEW i \in O, NEW E \in SUBSET {i},
         NEW s, GoodBut(s, O, E), s.own[i] = s.found[i], WellFormed(s.own[i], s.serial),
         i \notin s.credit,
         i \in s.charge /\ s.own[i].due = task[i].due =>
           task[i].due = NoDue \/ task[i].applied < task[i].due
  PROVE  GoodBut(Delete(s, i), O, {}) /\ Only(s, Delete(s, i), O, i)
  <1>1. i \in Ids /\ s.own[i] \in Row
    <2>1. i \in Ids
      BY TasksAssumption DEF TypeOK, Ids
    <2>2. s \in SessionType
      BY DEF GoodBut, Bounded
    <2> QED
      BY <2>1, <2>2 DEF SessionType
  <1> DEFINE row == [[s.own[i] EXCEPT !.status = "deleted"] EXCEPT !.active = FALSE]
             columns == [status |-> "deleted", active |-> FALSE]
  <1>2. With(s.own[i], columns) = row
    BY <1>1, WithDeleted
  <1>3. row \in Row /\ row.status = "deleted" /\ row.due = s.own[i].due /\ row.kind = s.own[i].kind
        /\ row.series = s.own[i].series
    BY <1>1 DEF Row
  <1>4. Delete(s, i) = Set(s, {i}, columns)
    BY DEF Delete
  <1> HIDE DEF row, columns
  <1>5. WellFormed(row, s.serial)
    BY <1>3 DEF WellFormed
  <1>6. PaidRow(i, row, s.credit)
    BY <1>3 DEF PaidRow
  <1>7. ChargedRow(i, row, s.charge)
    BY <1>3 DEF ChargedRow
  <1>8. task[i].status = "submitted" /\ row.status = "missed_submitted" => EditedNow(i)
    BY <1>3
  <1>9. row \in Row
    BY <1>3
  <1>10. GoodBut(Set(s, {i}, columns), O, {}) /\ Changes(s, Set(s, {i}, columns), O, i, row)
    BY <1>2, <1>5, <1>6, <1>7, <1>8, <1>9, SetGood, Zenon
  <1> QED
    BY <1>4, <1>10 DEF Changes

(* A row that was neither approved nor deleted is approved and paid for. *)
LEMMA ApproveGood ==
  ASSUME TypeOK, NEW O, O \subseteq 1..last, NEW i \in O, NEW E \in SUBSET {i},
         NEW s, GoodBut(s, O, E), s.own[i] = s.found[i], WellFormed(s.own[i], s.serial),
         ChargedRow(i, s.own[i], s.charge),
         s.own[i].status # "deleted", task[i].status \notin {"approved", "deleted"}
  PROVE  GoodBut(Approve(s, i), O, {}) /\ Only(s, Approve(s, i), O, i)
  <1>1. i \in Ids /\ i <= last /\ s \in SessionType /\ s.last \in Nat /\ last <= s.last /\ last \in Nat
        /\ s.own[i] \in Row /\ s.serial \in Nat
        /\ \A j \in O : j \in Ids /\ j <= s.last
    BY OwnedFacts
  <1> DEFINE row == [s.own[i] EXCEPT !.status = "approved"]
             columns == [status |-> "approved"]
             p == Set(s, {i}, columns)
             rows == [j \in {i} |-> With(s.own[i], columns)]
             q == [p EXCEPT !.credit = @ \union {i}]
  <1>3. With(s.own[i], columns) = row
    BY <1>1, WithStatus
  <1>4. row \in Row /\ row.status = "approved" /\ row.due = s.own[i].due /\ row.kind = s.own[i].kind
        /\ row.series = s.own[i].series /\ row.applied = s.own[i].applied
        /\ (row.active <=> s.own[i].active)
    BY <1>1 DEF Row
  <1>5. Approve(s, i) = CreateNext(q, i)
    BY DEF Approve
  <1> HIDE DEF row, columns
  <1>6. Rewritten(s, p, {i}, rows)
    <2>1. With(s.own[i], columns) \in Row
      BY <1>3, <1>4
    <2> QED
      BY <1>1, <2>1, SetOne
  <1>7. rows[i] = row
    BY <1>3
  <1> HIDE DEF p, rows
  <1>8. /\ p.own[i] = row /\ p.found[i] = row /\ p.last = s.last /\ p.serial = s.serial
        /\ p.credit = s.credit /\ p.charge = s.charge /\ p.candidates = s.candidates
        /\ p \in SessionType
    BY <1>6, <1>7 DEF Rewritten
  <1>9. \A j \in Ids \ {i} : p.own[j] = s.own[j] /\ p.found[j] = s.found[j]
    BY <1>6 DEF Rewritten
  <1>10. /\ q.own[i] = row /\ q.found[i] = row /\ q.last = s.last /\ q.serial = s.serial
         /\ q.credit = s.credit \union {i} /\ q.charge = s.charge /\ q.candidates = s.candidates
         /\ q \in SessionType
         /\ \A j \in Ids \ {i} : q.own[j] = s.own[j] /\ q.found[j] = s.found[j]
    BY <1>1, <1>8, <1>9 DEF SessionType
  <1> HIDE DEF q
  <1>11. WellFormed(row, s.serial)
    BY <1>4 DEF WellFormed
  <1>12. ChargedRow(i, row, s.charge)
    BY <1>4 DEF ChargedRow
  <1>13. GoodAt(q, O, i)
    <2>1. PaidRow(i, row, q.credit)
      <3>1. i \in q.credit
        BY <1>10
      <3> QED
        BY <1>4, <3>1 DEF PaidRow
    <2>2. ~(i > q.last) /\ ~(last < i)
      BY <1>1, <1>10 DEF Ids
    <2>3. ChargedRow(i, row, q.charge)
      BY <1>10, <1>12
    <2>4. row.status # "missed_submitted"
      BY <1>4
    <2> QED
      BY <1>10, <1>11, <2>1, <2>2, <2>3, <2>4 DEF GoodAt
  <1>14. Bounded(q, O)
    BY <1>10 DEF GoodBut, Bounded
  <1>15. q.serial >= s.serial
    BY <1>1, <1>10
  <1>16. GoodBut(q, O, {})
    <2>1. AlikeBut(s, q, {i})
      <3>1. \A j \in Ids \ {i} : j \in s.credit \union {i} <=> j \in s.credit
        OBVIOUS
      <3>2. q.credit = s.credit \union {i} /\ q.charge = s.charge
        BY <1>10
      <3>3. \A j \in Ids \ {i} : q.own[j] = s.own[j] /\ q.found[j] = s.found[j]
        BY <1>10
      <3>4. \A j \in Ids \ {i} : j \in q.credit <=> j \in s.credit
        BY <3>1, <3>2
      <3> QED
        BY <3>2, <3>3, <3>4 DEF AlikeBut
    <2>2. \A j \in Ids : j \in {i} /\ j \notin {i} => GoodAt(q, O, j)
      OBVIOUS
    <2>3. GoodBut(q, O, {i})
      BY <1>10, <1>14, <1>15, <2>1, <2>2, GoodChange
    <2> QED
      BY <1>1, <1>13, <2>3, GoodAgain
  <1>17. WellFormed(q.own[i], q.serial)
    BY <1>10, <1>11
  <1>18. GoodBut(CreateNext(q, i), O, {}) /\ Grown(q, CreateNext(q, i))
    BY <1>16, <1>17, CreateNextGood
  <1>19. Only(s, CreateNext(q, i), O, i)
    BY <1>1, <1>10, <1>18 DEF Only, Grown, Ids
  <1> QED
    BY <1>5, <1>18, <1>19

(* A row that is not active has no next occurrence. *)
LEMMA ApproveInactive ==
  ASSUME NEW s \in SessionType, NEW i \in Ids, s.own[i] = s.found[i], ~s.own[i].active
  PROVE  Approve(s, i).last = s.last
  <1> DEFINE row == [s.own[i] EXCEPT !.status = "approved"]
             columns == [status |-> "approved"]
             p == Set(s, {i}, columns)
             rows == [j \in {i} |-> With(s.own[i], columns)]
             q == [p EXCEPT !.credit = @ \union {i}]
  <1>1. s.own[i] \in Row
    BY DEF SessionType
  <1>2. With(s.own[i], columns) = row
    BY <1>1, WithStatus
  <1>3. row \in Row /\ ~row.active
    BY <1>1 DEF Row
  <1>4. Approve(s, i) = CreateNext(q, i)
    BY DEF Approve
  <1> HIDE DEF row, columns
  <1>5. Rewritten(s, p, {i}, rows)
    BY <1>2, <1>3, SetOne
  <1>6. rows[i] = row
    BY <1>2
  <1> HIDE DEF p, rows
  <1>7. p.own[i] = row /\ p.last = s.last /\ p \in SessionType
    BY <1>5, <1>6 DEF Rewritten
  <1>8. q.own[i] = row /\ q.last = s.last
    BY <1>7 DEF SessionType
  <1> HIDE DEF q
  <1>9. CreateNext(q, i) = q
    BY <1>3, <1>8 DEF CreateNext
  <1> QED
    BY <1>4, <1>8, <1>9

(* A missed row is approved, or deleted with or without the penalty. *)
LEMMA ReviewMissedGood ==
  ASSUME TypeOK, NEW O, O \subseteq 1..last, NEW i \in O, NEW s, GoodBut(s, O, {}),
         s.own[i] = task[i], i \notin s.credit, i \notin s.charge, Missed(task[i]), NEW action
  PROVE  GoodBut(ReviewMissed(s, i, action), O, {}) /\ Only(s, ReviewMissed(s, i, action), O, i)
  <1>1. i \in Ids /\ i <= last /\ s \in SessionType /\ s.last \in Nat /\ last <= s.last /\ last \in Nat
        /\ s.own[i] \in Row /\ s.serial \in Nat
        /\ \A j \in O : j \in Ids /\ j <= s.last
    BY OwnedFacts
  <1>2. GoodAt(s, O, i)
    BY <1>1 DEF GoodBut
  <1>3. CASE action = "approve"
    <2>1. ReviewMissed(s, i, action) = Approve(s, i)
      BY <1>3 DEF ReviewMissed
    <2>2. s.own[i].status # "deleted" /\ task[i].status \notin {"approved", "deleted"}
      BY DEF Missed
    <2>3. /\ s.own[i] = s.found[i] /\ WellFormed(s.own[i], s.serial)
          /\ ChargedRow(i, s.own[i], s.charge)
      BY <1>2 DEF GoodAt
    <2>4. {} \in SUBSET {i}
      OBVIOUS
    <2>5. GoodBut(Approve(s, i), O, {}) /\ Only(s, Approve(s, i), O, i)
      BY <2>2, <2>3, <2>4, ApproveGood, Zenon
    <2> QED
      BY <2>1, <2>5
  <1>4. CASE action # "approve"
    <2> DEFINE charge == IF action = "penalty"
                            /\ (s.own[i].due = NoDue \/ s.own[i].applied < s.own[i].due)
                         THEN {i} ELSE {}
               p == [s EXCEPT !.charge = @ \union charge]
               q == CreateNext(p, i)
    <2>1. ReviewMissed(s, i, action) = Delete(q, i)
      BY <1>4 DEF ReviewMissed
    <2>2. charge \subseteq {i} /\ (i \in charge => task[i].due = NoDue \/ task[i].applied < task[i].due)
      OBVIOUS
    <2> HIDE DEF charge
    <2>3. /\ p.own = s.own /\ p.found = s.found /\ p.last = s.last /\ p.serial = s.serial
          /\ p.credit = s.credit /\ p.charge = s.charge \union charge
          /\ p.candidates = s.candidates /\ p \in SessionType
      BY <1>1, <2>2 DEF SessionType
    <2> HIDE DEF p
    <2>4. Bounded(p, O)
      BY <2>2, <2>3 DEF GoodBut, Bounded
    <2>5. ASSUME NEW j \in Ids \ {i} PROVE GoodAt(p, O, j)
      <3>1. GoodAt(s, O, j)
        BY DEF GoodBut
      <3>2. j \in p.charge <=> j \in s.charge
        BY <2>2, <2>3
      <3> QED
        BY <2>3, <3>1, <3>2 DEF GoodAt, PaidRow, ChargedRow
    <2>6. GoodBut(p, O, {i})
      BY <2>4, <2>5 DEF GoodBut
    <2>7. WellFormed(p.own[i], p.serial)
      BY <1>2, <2>3 DEF GoodAt
    <2>8. GoodBut(q, O, {i}) /\ Grown(p, q)
      BY <2>6, <2>7, CreateNextGood
    <2> HIDE DEF q
    <2>9. q.own[i] = s.own[i] /\ q.found[i] = s.found[i] /\ q.serial = s.serial /\ q.credit = s.credit
          /\ q.charge = s.charge \union charge
      BY <1>1, <2>3, <2>8 DEF Grown
    <2>10. q.own[i] = q.found[i] /\ WellFormed(q.own[i], q.serial) /\ i \notin q.credit
      BY <1>2, <2>9 DEF GoodAt
    <2>11. i \in q.charge => task[i].due = NoDue \/ task[i].applied < task[i].due
      BY <2>2, <2>9
    <2>12. GoodBut(Delete(q, i), O, {}) /\ Only(q, Delete(q, i), O, i)
      BY <2>8, <2>10, <2>11, DeleteGood
    <2>13. Only(s, q, O, i)
      BY <1>1, <2>2, <2>3, <2>8 DEF Only, Grown, Ids
    <2>14. Only(s, Delete(q, i), O, i)
      BY <2>12, <2>13 DEF Only
    <2> QED
      BY <2>1, <2>12, <2>14
  <1> QED
    BY <1>3, <1>4

-----------------------------------------------------------------------------
(* Series: created, deactivated, activated *)

(* The session of a request that begins with the rows O of the table.      *)
Starts(s, O) ==
  /\ GoodBut(s, O, {})
  /\ s.last = last /\ s.serial = serial /\ s.credit = {} /\ s.charge = {}
  /\ \A i \in O : s.own[i] = task[i]

(* What a session knows of a row it owns when it starts. *)
LEMMA StartsFacts ==
  ASSUME TypeOK, NEW O, O \subseteq 1..last, NEW i \in O, NEW s, Starts(s, O)
  PROVE  /\ i \in Ids /\ s \in SessionType /\ s.own[i] \in Row
         /\ s.own[i] = task[i] /\ s.own[i] = s.found[i] /\ WellFormed(s.own[i], s.serial)
         /\ s.credit = {} /\ s.charge = {} /\ GoodBut(s, O, {})
  <1>1. i \in Ids /\ s \in SessionType /\ s.own[i] \in Row
    BY OwnedFacts DEF Starts
  <1>2. GoodAt(s, O, i)
    BY <1>1 DEF Starts, GoodBut
  <1> QED
    BY <1>1, <1>2 DEF Starts, GoodAt

(* A series id is taken. *)
LEMMA NewSeriesGood ==
  ASSUME TypeOK, NEW O, NEW s, GoodBut(s, O, {})
  PROVE  /\ GoodBut(NewSeries(s), O, {})
         /\ NewSeries(s).own = s.own /\ NewSeries(s).found = s.found
         /\ NewSeries(s).last = s.last /\ NewSeries(s).serial = s.serial + 1
         /\ NewSeries(s).credit = s.credit /\ NewSeries(s).charge = s.charge
         /\ NewSeries(s) \in SessionType
  <1> DEFINE r == NewSeries(s)
  <1>1. s \in SessionType /\ s.serial \in Nat /\ serial \in Nat
    BY TasksAssumption DEF GoodBut, Bounded, SessionType, TypeOK
  <1>2. /\ r.own = s.own /\ r.found = s.found /\ r.last = s.last /\ r.serial = s.serial + 1
        /\ r.credit = s.credit /\ r.charge = s.charge /\ r \in SessionType
    BY <1>1 DEF NewSeries, SessionType
  <1> HIDE DEF r
  <1>3. Bounded(r, O)
    BY <1>1, <1>2 DEF GoodBut, Bounded
  <1>4. r.serial >= s.serial
    BY <1>1, <1>2
  <1>5. \A j \in Ids : j \in {} /\ j \notin {} => GoodAt(r, O, j)
    OBVIOUS
  <1>6. AlikeBut(s, r, {})
    BY <1>2 DEF AlikeBut
  <1>7. GoodBut(r, O, {})
    BY <1>2, <1>3, <1>4, <1>5, <1>6, GoodChange
  <1> QED
    BY <1>2, <1>7 DEF r

(* The other rows of a series become inactive. *)
LEMMA DeactivateGood ==
  ASSUME TypeOK, NEW i \in 1..last, NEW s, GoodBut(s, {i}, {}), s.last = last
  PROVE  GoodBut(DeactivateRelated(s, i), {i}, {})
  <1> DEFINE related(j) == j # i /\ s.found[j].series = s.own[i].series /\ s.found[j].active
             found == [j \in Ids |-> IF related(j) THEN [s.found[j] EXCEPT !.active = FALSE] ELSE s.found[j]]
             r == [s EXCEPT !.found = found]
  <1>1. s \in SessionType /\ i \in Ids /\ last \in Nat
    BY TasksAssumption DEF GoodBut, Bounded, SessionType, TypeOK, Ids
  <1>2. DeactivateRelated(s, i) = s \/ DeactivateRelated(s, i) = r
    BY <1>1 DEF DeactivateRelated, SessionType
  <1>3. \A j \in Ids : s.found[j] \in Row
    BY <1>1 DEF SessionType
  <1>4. found \in [Ids -> Row]
    <2>1. \A x \in Row : [x EXCEPT !.active = FALSE] \in Row
      BY DEF Row
    <2> QED
      BY <1>3, <2>1
  <1>5. \A j \in Ids : j > last => found[j] = s.found[j]
    <2>1. ASSUME NEW j \in Ids, j > last PROVE ~s.found[j].active
      <3>1. GoodAt(s, {i}, j)
        BY DEF GoodBut
      <3>2. s.found[j] = NoRow
        BY <2>1, <3>1 DEF GoodAt
      <3> QED
        BY <3>2 DEF NoRow
    <2> QED
      BY <2>1
  <1>6. found[i] = s.found[i]
    BY <1>1
  <1> HIDE DEF found
  <1>7. /\ r \in SessionType /\ r.own = s.own /\ r.found = found /\ r.last = s.last /\ r.serial = s.serial
        /\ r.credit = s.credit /\ r.charge = s.charge
    BY <1>1, <1>4 DEF SessionType
  <1> HIDE DEF r
  <1>8. ASSUME NEW j \in Ids PROVE GoodAt(r, {i}, j)
    <2>1. GoodAt(s, {i}, j)
      BY DEF GoodBut
    <2>2. CASE j = i \/ j > last
      <3>1. r.found[j] = s.found[j]
        BY <1>5, <1>6, <1>7, <2>2
      <3> QED
        BY <1>7, <2>1, <3>1 DEF GoodAt
    <2>3. CASE j # i /\ ~(j > last)
      <3>1. j \notin {i} /\ ~(last < j) /\ ~(j > r.last)
        BY <1>7, <2>3
      <3> QED
        BY <3>1 DEF GoodAt
    <2> QED
      BY <2>2, <2>3
  <1>9. Bounded(r, {i})
    BY <1>7 DEF GoodBut, Bounded
  <1>10. GoodBut(r, {i}, {})
    BY <1>8, <1>9 DEF GoodBut
  <1> QED
    BY <1>2, <1>10

(* set_task_active *)
LEMMA SetActiveGood ==
  ASSUME TypeOK, NEW i \in 1..last, NEW s, Starts(s, {i}), NEW to \in BOOLEAN,
         task[i].status # "deleted"
  PROVE  GoodBut(SetActive(s, i, to), {i}, {})
  <1> DEFINE old == s.own[i]
  <1>1. /\ i \in Ids /\ s \in SessionType /\ old \in Row
        /\ old = task[i] /\ old = s.found[i] /\ WellFormed(old, s.serial)
        /\ s.credit = {} /\ s.charge = {} /\ GoodBut(s, {i}, {})
    BY StartsFacts
  <1>2. CASE to
    <2> DEFINE d == Align(old.due, old.kind)
               columns == [active |-> TRUE, due |-> d]
               row == [[old EXCEPT !.active = TRUE] EXCEPT !.due = d]
    <2>1. d \in Due /\ (old.due # NoDue => d # NoDue)
      BY <1>1, AlignType DEF Row
    <2> HIDE DEF d
    <2>2. With(old, columns) = row
      BY <1>1, <2>1, WithActiveDue
    <2>3. /\ row \in Row /\ row.status = old.status /\ row.due = d /\ row.kind = old.kind
          /\ row.series = old.series /\ row.applied = old.applied
      BY <1>1, <2>1 DEF Row
    <2>4. SetActive(s, i, to) = Set(s, {i}, columns)
      BY <1>2 DEF SetActive, d
    <2> HIDE DEF row, columns
    <2>5. WellFormed(row, s.serial)
      BY <1>1, <2>1, <2>3 DEF WellFormed
    <2>6. PaidRow(i, row, s.credit)
      BY <1>1, <2>3 DEF PaidRow
    <2>7. ChargedRow(i, row, s.charge)
      BY <1>1, <2>3 DEF ChargedRow, Row, Due, NoDue
    <2>8. ~(task[i].status = "submitted" /\ row.status = "missed_submitted")
      BY <1>1, <2>3
    <2>9. {} \in SUBSET {i} /\ i \in {i} /\ {i} \subseteq 1..last
      OBVIOUS
    <2>10. GoodBut(Set(s, {i}, columns), {i}, {})
      BY <1>1, <2>2, <2>3, <2>5, <2>6, <2>7, <2>8, <2>9, SetGood, Zenon
    <2> QED
      BY <2>4, <2>10
  <1>3. CASE ~to
    <2> DEFINE columns == [active |-> FALSE]
               row == [old EXCEPT !.active = FALSE]
               r == Set(s, {i}, columns)
    <2>1. With(old, columns) = row
      BY <1>1, WithActive
    <2>2. /\ row \in Row /\ row.status = old.status /\ row.due = old.due /\ row.kind = old.kind
          /\ row.series = old.series /\ row.applied = old.applied
      BY <1>1 DEF Row
    <2>3. SetActive(s, i, to) = r \/ SetActive(s, i, to) = DeactivateRelated(r, i)
      BY <1>3 DEF SetActive
    <2> HIDE DEF row, columns
    <2>4. WellFormed(row, s.serial)
      BY <1>1, <2>2 DEF WellFormed
    <2>5. PaidRow(i, row, s.credit)
      BY <1>1, <2>2 DEF PaidRow
    <2>6. ChargedRow(i, row, s.charge)
      BY <1>1, <2>2 DEF ChargedRow, Row, Due, NoDue
    <2>7. ~(task[i].status = "submitted" /\ row.status = "missed_submitted")
      BY <1>1, <2>2
    <2>8. {} \in SUBSET {i} /\ i \in {i} /\ {i} \subseteq 1..last
      OBVIOUS
    <2>9. GoodBut(r, {i}, {}) /\ Changes(s, r, {i}, i, row)
      BY <1>1, <2>1, <2>2, <2>4, <2>5, <2>6, <2>7, <2>8, SetGood, Zenon
    <2> HIDE DEF r
    <2>10. r.last = last
      BY <2>9 DEF Changes, Starts
    <2>11. GoodBut(DeactivateRelated(r, i), {i}, {})
      BY <2>9, <2>10, DeactivateGood
    <2> QED
      BY <2>3, <2>9, <2>11
  <1> QED
    BY <1>2, <1>3

(* create_task *)
LEMMA CreateGood ==
  ASSUME TypeOK, NEW s, Starts(s, {}), NEW input \in Input
  PROVE  GoodBut(Create(s, input), {}, {})
  <1> DEFINE next == IF input.kind \in Recurring THEN NewSeries(s) ELSE s
             d == Align(input.due, input.kind)
             n == IF input.kind \in Recurring THEN next.serial ELSE 0
             row == [status |-> "open", kind |-> input.kind, due |-> d,
                     penalty |-> input.penalty, always |-> input.always, active |-> TRUE,
                     series |-> n, applied |-> NoDue, created |-> now]
  <1>1. GoodBut(s, {}, {}) /\ s \in SessionType /\ s.serial \in Nat
    BY DEF Starts, GoodBut, Bounded, SessionType
  <1>2. /\ input.kind \in Kinds /\ input.due \in Due /\ input.penalty \in BOOLEAN
        /\ input.always \in BOOLEAN /\ (input.kind \in Recurring => input.due # NoDue)
    BY DEF Input
  <1>3. d \in Due /\ (input.due # NoDue => d # NoDue)
    BY <1>2, AlignType
  <1>4. now \in 0..MaxTime /\ NoDue \in Due
    BY DEF TypeOK, Due
  <1>5. GoodBut(next, {}, {}) /\ next.serial \in Nat /\ (input.kind \in Recurring => next.serial # 0)
    BY <1>1, NewSeriesGood
  <1>6. Create(s, input) = Insert(next, row)
    BY DEF Create
  <1> HIDE DEF next, d
  <1>7. n \in Nat /\ n <= next.serial /\ (input.kind \in Recurring => n # 0)
    BY <1>5
  <1> HIDE DEF n
  <1>8. /\ row \in Row /\ row.status = "open" /\ row.kind = input.kind /\ row.due = d /\ row.series = n
    BY <1>2, <1>3, <1>4, <1>7 DEF Row
  <1> HIDE DEF row
  <1>9. WellFormed(row, next.serial)
    BY <1>2, <1>3, <1>7, <1>8 DEF WellFormed
  <1>10. {} \subseteq 1..last /\ {} \in SUBSET {}
    OBVIOUS
  <1>11. GoodBut(Insert(next, row), {}, {})
    BY <1>5, <1>8, <1>9, <1>10, InsertGood, Zenon
  <1> QED
    BY <1>6, <1>11

-----------------------------------------------------------------------------
(* Edits *)

(* update_task, of a row that was neither approved nor deleted. *)
LEMMA UpdateGood ==
  ASSUME TypeOK, NEW i \in 1..last, NEW s, Starts(s, {i}), NEW e \in Edits,
         task[i].status \notin {"approved", "deleted"}, EditedNow(i)
  PROVE  GoodBut(Update(s, i, e), {i}, {})
  <1> DEFINE old == s.own[i]
             recurring == e.input.kind \in Recurring
             next == IF recurring /\ old.series = 0 THEN NewSeries(s) ELSE s
             d == IF e.active THEN Align(e.input.due, e.input.kind) ELSE e.input.due
             n == IF ~recurring THEN 0 ELSE IF old.series = 0 THEN next.serial ELSE old.series
             v == IF e.input.penalty THEN old.applied ELSE NoDue
             columns == [kind |-> e.input.kind, penalty |-> e.input.penalty, always |-> e.input.always,
                         due |-> d, series |-> n, applied |-> v, active |-> e.active, status |-> e.status]
             row == [status |-> e.status, kind |-> e.input.kind, due |-> d, penalty |-> e.input.penalty,
                     always |-> e.input.always, active |-> e.active, series |-> n, applied |-> v,
                     created |-> old.created]
             edited == Set(next, {i}, columns)
             decided == IF e.status = "approved" THEN Approve(edited, i) ELSE edited
  <1>1. /\ i \in Ids /\ s \in SessionType /\ old \in Row
        /\ old = task[i] /\ old = s.found[i] /\ WellFormed(old, s.serial)
        /\ s.credit = {} /\ s.charge = {} /\ GoodBut(s, {i}, {})
    BY StartsFacts
  <1>2. /\ e.input \in Input /\ e.active \in BOOLEAN
        /\ e.status \in {"open", "submitted", "missed_submitted", "approved", "rejected"}
    BY TasksAssumption
  <1>3. /\ e.input.kind \in Kinds /\ e.input.due \in Due /\ e.input.penalty \in BOOLEAN
        /\ e.input.always \in BOOLEAN /\ (e.input.kind \in Recurring => e.input.due # NoDue)
    BY <1>2 DEF Input
  <1>4. Update(s, i, e) = IF old.active /\ ~e.active THEN DeactivateRelated(decided, i) ELSE decided
    BY DEF Update
  <1>5. /\ GoodBut(next, {i}, {}) /\ next.own = s.own /\ next.found = s.found /\ next.last = last
        /\ next.credit = {} /\ next.charge = {} /\ next.serial \in Nat /\ next.serial >= s.serial
        /\ (recurring /\ old.series = 0 => next.serial # 0)
    <2>1. s.serial \in Nat /\ s.last = last
      BY <1>1 DEF SessionType, Starts
    <2>2. CASE recurring /\ old.series = 0
      BY <1>1, <2>1, <2>2, NewSeriesGood
    <2>3. CASE ~(recurring /\ old.series = 0)
      BY <1>1, <2>1, <2>3
    <2> QED
      BY <2>2, <2>3
  <1>6. d \in Due /\ (recurring => d # NoDue)
    BY <1>2, <1>3, AlignType
  <1>7. n \in Nat /\ n <= next.serial /\ (recurring => n # 0)
    <2>1. old.series \in Nat /\ old.series <= s.serial /\ s.serial \in Nat
      BY <1>1 DEF WellFormed, Row, SessionType
    <2> HIDE DEF next
    <2> QED
      BY <1>5, <2>1
  <1>8. v \in Due /\ (e.input.penalty => v = old.applied)
    BY <1>1 DEF Row, Due
  <1> HIDE DEF next, d, n, v
  <1>9. With(old, columns) = row
    BY <1>1, <1>2, <1>3, <1>6, <1>7, <1>8, Edited
  <1>10. /\ row \in Row /\ row.status = e.status /\ row.kind = e.input.kind /\ row.due = d
         /\ (row.active <=> e.active) /\ row.series = n /\ row.applied = v
    <2>1. old.created \in 0..MaxTime
      BY <1>1 DEF Row
    <2> HIDE DEF old
    <2> QED
      BY <1>2, <1>3, <1>6, <1>7, <1>8, <2>1 DEF Row
  <1> HIDE DEF row, columns
  <1>11. WellFormed(row, next.serial)
    BY <1>2, <1>6, <1>7, <1>10 DEF WellFormed
  <1>12. ChargedRow(i, row, {})
    <2>1. v = NoDue \/ v = old.applied
      BY DEF v
    <2>2. old.applied \in Int
      BY <1>1 DEF Row, Due, NoDue
    <2> QED
      BY <1>1, <1>10, <2>1, <2>2 DEF ChargedRow
  <1>13. {} \in SUBSET {i} /\ {i} \in SUBSET {i} /\ i \in {i} /\ {i} \subseteq 1..last
    OBVIOUS
  <1>14. GoodBut(edited, {i}, {i}) /\ Changes(next, edited, {i}, i, row)
    <2>1. next.own[i] = next.found[i] /\ With(next.own[i], columns) = row
      BY <1>1, <1>5, <1>9
    <2> QED
      BY <1>5, <1>10, <1>13, <2>1, SetKeeps, Zenon
  <1> HIDE DEF edited
  <1>15. /\ edited.own[i] = row /\ edited.found[i] = row /\ edited.last = last
         /\ edited.serial = next.serial /\ edited.credit = {} /\ edited.charge = {}
    BY <1>5, <1>14 DEF Changes
  <1>16. CASE e.status = "approved"
    <2>1. row.status # "deleted"
      BY <1>10, <1>16
    <2>2. /\ edited.own[i] = edited.found[i] /\ WellFormed(edited.own[i], edited.serial)
          /\ ChargedRow(i, edited.own[i], edited.charge)
          /\ edited.own[i].status # "deleted"
      BY <1>11, <1>12, <1>15, <2>1
    <2> DEFINE r == Approve(edited, i)
    <2>3. GoodBut(r, {i}, {}) /\ (~edited.own[i].active => r.last = edited.last)
      <3>1. GoodBut(r, {i}, {})
        BY <1>13, <1>14, <2>2, ApproveGood, Zenon
      <3>2. edited \in SessionType
        BY <1>14 DEF GoodBut, Bounded
      <3> QED
        BY <1>1, <2>2, <3>1, <3>2, ApproveInactive
    <2>4. decided = r
      BY <1>16
    <2> HIDE DEF r, decided
    <2>5. ~e.active => decided.last = last
      BY <1>10, <1>15, <2>3, <2>4
    <2>6. GoodBut(decided, {i}, {})
      BY <2>3, <2>4
    <2>7. ~e.active => GoodBut(DeactivateRelated(decided, i), {i}, {})
      BY <2>5, <2>6, DeactivateGood
    <2> QED
      BY <1>4, <2>6, <2>7
  <1>17. CASE e.status # "approved"
    <2>1. PaidRow(i, row, {})
      BY <1>10, <1>17 DEF PaidRow
    <2>2. GoodAt(edited, {i}, i)
      <3>1. ~(last < i) /\ ~(i > last)
        BY TasksAssumption DEF TypeOK
      <3> QED
        BY <1>11, <1>12, <1>15, <2>1, <3>1 DEF GoodAt
    <2>3. GoodBut(edited, {i}, {})
      BY <1>1, <1>14, <2>2, GoodAgain
    <2>4. decided = edited
      BY <1>17
    <2> HIDE DEF decided
    <2>5. GoodBut(DeactivateRelated(edited, i), {i}, {})
      BY <1>15, <2>3, DeactivateGood
    <2> QED
      BY <1>4, <2>3, <2>4, <2>5
  <1> QED
    BY <1>16, <1>17

-----------------------------------------------------------------------------
(* The maintenance: what it keeps until it takes the penalties *)

(* What the maintenance keeps until it takes the penalties. *)
Quiet(s, O) ==
  /\ GoodBut(s, O, {})
  /\ s.credit = {} /\ s.charge = {} /\ s.candidates = O
  /\ \A i \in O : s.own[i].status # "deleted" /\ ~EditedNow(i)

(* What the maintenance knows of its rows. *)
LEMMA QuietFacts ==
  ASSUME TypeOK, NEW O, O \subseteq 1..last, NEW s, Quiet(s, O)
  PROVE  /\ s \in SessionType /\ O \subseteq Ids /\ IsFiniteSet(O)
         /\ \A i \in O : /\ s.own[i] = s.found[i] /\ WellFormed(s.own[i], s.serial)
                         /\ s.own[i] \in Row /\ GoodAt(s, O, i)
         /\ s.serial \in Nat /\ s.last \in Nat /\ last \in Nat /\ last <= s.last
  <1>1. last \in 0..MaxTasks /\ MaxTasks \in Nat
    BY TasksAssumption DEF TypeOK
  <1>2. O \subseteq Ids
    BY <1>1 DEF Ids
  <1>3. IsFiniteSet(O)
    <2>1. IsFiniteSet(1..last)
      BY <1>1, FS_Interval
    <2> QED
      BY <2>1, FS_Subset
  <1>4. s \in SessionType /\ \A i \in Ids : GoodAt(s, O, i)
    BY DEF Quiet, GoodBut, Bounded
  <1>5. \A i \in O : s.own[i] = s.found[i] /\ WellFormed(s.own[i], s.serial)
    BY <1>2, <1>4 DEF GoodAt
  <1>6. \A i \in O : s.own[i] \in Row
    BY <1>2, <1>4 DEF SessionType
  <1>7. s.serial \in Nat /\ s.last \in Nat /\ last <= s.last
    BY <1>1, <1>4 DEF SessionType, Quiet, GoodBut, Bounded
  <1> QED
    BY <1>1, <1>2, <1>3, <1>4, <1>5, <1>6, <1>7

(* _realign_daily_tasks_for_family: rows are changed, but not their status. *)
LEMMA RealignQuiet ==
  ASSUME TypeOK, NEW O, O \subseteq 1..last, NEW s, Starts(s, O), Quiet(s, O)
  PROVE  Quiet(Realign(s), O)
  <1> DEFINE early(i) == /\ s.own[i].kind = "daily"
                         /\ Date(s.own[i].created) < Date(now)
                         /\ Date(s.own[i].due) = Date(now) + 1
                         /\ s.own[i].due - TicksPerDay > now
             S == {i \in s.candidates : early(i)}
             columns == [i \in S |-> [due |-> s.own[i].due - TicksPerDay]]
             rows == [i \in S |-> [s.own[i] EXCEPT !.due = s.own[i].due - TicksPerDay]]
             r == SetEach(s, columns)
  <1>1. /\ s \in SessionType /\ O \subseteq Ids
        /\ \A i \in O : /\ s.own[i] = s.found[i] /\ WellFormed(s.own[i], s.serial)
                        /\ s.own[i] \in Row /\ GoodAt(s, O, i)
        /\ s.serial \in Nat /\ s.last \in Nat /\ last \in Nat
    BY QuietFacts
  <1>2. now \in Nat /\ TicksPerDay \in Nat /\ TicksPerDay > 0
    BY TasksAssumption DEF TypeOK
  <1>3. S \subseteq O /\ \A i \in S : s.own[i].due - TicksPerDay > now
    BY DEF Quiet
  <1>4. Realign(s) = r
    BY DEF Realign
  <1> HIDE DEF S
  <1>5. ASSUME NEW i \in S
        PROVE  /\ s.own[i].due - TicksPerDay \in Nat /\ s.own[i].due - TicksPerDay # NoDue
               /\ s.own[i].due - TicksPerDay # s.own[i].due
    <2>1. s.own[i].due \in Int
      BY <1>1, <1>3 DEF Row, Due, NoDue
    <2> QED
      BY <1>2, <1>3, <2>1 DEF NoDue
  <1>6. ASSUME NEW i \in S
        PROVE  /\ rows[i] \in Row /\ rows[i].status = s.own[i].status /\ rows[i].kind = s.own[i].kind
               /\ rows[i].due = s.own[i].due - TicksPerDay /\ rows[i].series = s.own[i].series
               /\ With(s.own[i], columns[i]) = rows[i]
    <2> DEFINE d == s.own[i].due - TicksPerDay
               old == s.own[i]
    <2>1. rows[i] = [old EXCEPT !.due = d] /\ columns[i] = [due |-> d]
      OBVIOUS
    <2>2. d \in Due
      BY <1>5 DEF Due
    <2>3. old \in Row
      BY <1>1, <1>3
    <2> HIDE DEF d, old, rows, columns
    <2>4. With(old, columns[i]) = rows[i]
      BY <2>1, <2>2, <2>3, WithDue
    <2>5. /\ rows[i] \in Row /\ rows[i].status = old.status /\ rows[i].kind = old.kind
          /\ rows[i].due = d /\ rows[i].series = old.series
      BY <2>1, <2>2, <2>3 DEF Row
    <2> QED
      BY <2>4, <2>5 DEF old, d
  <1>7. rows \in [S -> Row] /\ DOMAIN columns = S /\ S \in SUBSET Ids
    <2>1. \A i \in S : rows[i] \in Row
      BY <1>6
    <2>2. S \in SUBSET Ids
      BY <1>1, <1>3
    <2> QED
      BY <2>1, <2>2
  <1> HIDE DEF rows, columns
  <1>8. \A i \in S : s.own[i] = s.found[i] /\ With(s.own[i], columns[i]) = rows[i]
    BY <1>1, <1>3, <1>6
  <1>9. Rewritten(s, r, S, rows)
    BY <1>1, <1>7, <1>8, SetEachRewrites
  <1> HIDE DEF r
  <1>10. /\ r \in SessionType /\ r.last = s.last /\ r.serial = s.serial /\ r.candidates = s.candidates
         /\ r.credit = s.credit /\ r.charge = s.charge
         /\ \A i \in S : r.own[i] = rows[i] /\ r.found[i] = rows[i]
         /\ \A i \in Ids \ S : r.own[i] = s.own[i] /\ r.found[i] = s.found[i]
    BY <1>9 DEF Rewritten
  <1>11. ASSUME NEW i \in S PROVE GoodAt(r, O, i)
    <2>1. s.own[i] = task[i] /\ i \in O /\ ~(last < i) /\ ~(i > s.last)
      <3>1. i \in O /\ i \in 1..last
        BY <1>3
      <3>2. s.own[i] = task[i] /\ s.last = last
        BY <3>1 DEF Starts
      <3> QED
        BY <1>1, <3>1, <3>2
    <2>2. WellFormed(rows[i], r.serial)
      <3>1. WellFormed(s.own[i], s.serial)
        BY <1>1, <1>3
      <3>2. rows[i].due # NoDue
        BY <1>5, <1>6
      <3> QED
        BY <1>6, <1>10, <3>1, <3>2 DEF WellFormed
    <2>3. PaidRow(i, rows[i], r.credit)
      BY <1>6, <1>10, <2>1 DEF PaidRow, Quiet
    <2>4. ChargedRow(i, rows[i], r.charge)
      <3>1. rows[i].due # task[i].due
        BY <1>5, <1>6, <2>1
      <3> QED
        BY <1>10, <3>1 DEF ChargedRow, Quiet
    <2>5. ~(task[i].status = "submitted" /\ rows[i].status = "missed_submitted")
      BY <1>6, <2>1
    <2> QED
      BY <1>10, <2>1, <2>2, <2>3, <2>4, <2>5 DEF GoodAt
  <1>12. Bounded(r, O)
    BY <1>10 DEF Quiet, GoodBut, Bounded
  <1>13. \A i \in Ids : i \in S /\ i \notin {} => GoodAt(r, O, i)
    BY <1>11
  <1>14. AlikeBut(s, r, S)
    BY <1>10 DEF AlikeBut
  <1>15. r.serial >= s.serial /\ r.last = s.last /\ {} \subseteq S /\ GoodBut(s, O, {})
    BY <1>1, <1>10 DEF Quiet
  <1>16. GoodBut(r, O, {})
    BY <1>12, <1>13, <1>14, <1>15, GoodChange
  <1>17. ASSUME NEW i \in O PROVE r.own[i].status # "deleted"
    <2>1. i \in Ids /\ s.own[i].status # "deleted"
      BY <1>1 DEF Quiet
    <2>2. CASE i \in S
      BY <1>6, <1>10, <2>1, <2>2
    <2>3. CASE i \notin S
      BY <1>10, <2>1, <2>3
    <2> QED
      BY <2>2, <2>3
  <1> QED
    BY <1>4, <1>10, <1>16, <1>17 DEF Quiet

-----------------------------------------------------------------------------
(* The maintenance: the rollover, row by row *)

(* The rollover of one task. *)
Miss(i, r) == CreateNext(Set(r, {i}, [status |-> "missed_submitted"]), i)

(* One expired row is rolled over. *)
LEMMA MissQuiet ==
  ASSUME TypeOK, NEW O, O \subseteq 1..last, NEW i \in O, NEW s, Quiet(s, O), Pending(task[i])
  PROVE  Quiet(Miss(i, s), O)
  <1> DEFINE columns == [status |-> "missed_submitted"]
             row == [s.own[i] EXCEPT !.status = "missed_submitted"]
             r == Set(s, {i}, columns)
  <1>1. /\ s \in SessionType /\ O \subseteq Ids
        /\ s.own[i] = s.found[i] /\ WellFormed(s.own[i], s.serial)
        /\ s.own[i] \in Row /\ GoodAt(s, O, i) /\ i \in Ids
        /\ s.serial \in Nat /\ s.last \in Nat /\ last \in Nat
    BY QuietFacts
  <1>2. With(s.own[i], columns) = row
    BY <1>1, WithStatus
  <1>3. /\ row \in Row /\ row.status = "missed_submitted" /\ row.due = s.own[i].due
        /\ row.kind = s.own[i].kind /\ row.series = s.own[i].series /\ row.applied = s.own[i].applied
    BY <1>1 DEF Row
  <1>4. Miss(i, s) = CreateNext(r, i)
    BY DEF Miss
  <1> HIDE DEF columns, row
  <1>5. WellFormed(row, s.serial)
    BY <1>1, <1>3 DEF WellFormed
  <1>6. PaidRow(i, row, s.credit)
    BY <1>3 DEF Quiet, PaidRow, Pending
  <1>7. ChargedRow(i, row, s.charge)
    BY <1>1, <1>3 DEF GoodAt, ChargedRow, Quiet
  <1>8. ~(task[i].status = "submitted" /\ row.status = "missed_submitted")
    BY DEF Pending
  <1>9. {} \in SUBSET {i} /\ GoodBut(s, O, {})
    BY DEF Quiet
  <1>10. GoodBut(r, O, {}) /\ Changes(s, r, O, i, row)
    BY <1>1, <1>2, <1>3, <1>5, <1>6, <1>7, <1>8, <1>9, SetGood, Zenon
  <1> HIDE DEF r
  <1>11. /\ r.credit = {} /\ r.charge = {} /\ r.candidates = O /\ r.own[i] = row /\ r.serial = s.serial
    BY <1>10 DEF Changes, Only, Quiet
  <1>12. WellFormed(r.own[i], r.serial) /\ {} \in SUBSET O
    BY <1>5, <1>11
  <1>13. GoodBut(CreateNext(r, i), O, {}) /\ Grown(r, CreateNext(r, i))
    BY <1>10, <1>12, CreateNextGood
  <1>14. ASSUME NEW j \in O PROVE CreateNext(r, i).own[j].status # "deleted"
    <2>1. r.own[j].status # "deleted"
      <3>1. CASE j = i
        BY <1>3, <1>11, <3>1
      <3>2. CASE j # i
        BY <1>10, <3>2 DEF Changes, Only, Quiet
      <3> QED
        BY <3>1, <3>2
    <2>2. CreateNext(r, i).own[j] = r.own[j]
      <3>1. j \in Ids /\ j <= r.last
        BY <1>10, OwnedFacts
      <3> QED
        BY <1>13, <3>1 DEF Grown
    <2> QED
      BY <2>1, <2>2
  <1> QED
    BY <1>4, <1>11, <1>13, <1>14 DEF Quiet, Grown

(* The function that MapThenFoldSet chooses, for the rollover.             *)
Rolling(g, s, S) ==
  g = [U \in SUBSET S |-> IF U = {} THEN s ELSE Miss(Latest(s.own, U), g[U \ {Latest(s.own, U)}])]

Rolled(s, S) == CHOOSE g : Rolling(g, s, S)

(* The rollover is the fold of Miss over the expired rows. *)
LEMMA RolloverIsRolled ==
  ASSUME NEW s, NEW S, S = {i \in s.candidates : Expired(s.own[i])}
  PROVE  Rollover(s) = Rolled(s, S)[S]
  BY Zenon DEF Rollover, MapThenFoldSet, Rolled, Rolling, Miss

(* _rollover_missed_tasks_for_family keeps what the maintenance relies on. *)
LEMMA RolloverQuiet ==
  ASSUME TypeOK, NEW O, O \subseteq 1..last, NEW s, Quiet(s, O), \A i \in O : Pending(task[i])
  PROVE  Quiet(Rollover(s), O)
  <1> DEFINE S == {i \in s.candidates : Expired(s.own[i])}
             pick == [U \in SUBSET S |-> Latest(s.own, U)]
             step == [i \in S |-> [r \in SessionType |-> Miss(i, r)]]
             X == [U \in SUBSET S |-> {r \in SessionType : Quiet(r, O)}]
  <1>1. /\ s \in SessionType /\ O \subseteq Ids /\ IsFiniteSet(O)
        /\ \A i \in O : s.own[i] \in Row
    BY QuietFacts
  <1>2. S \subseteq O /\ S \subseteq Ids
    BY <1>1 DEF Quiet
  <1>3. IsFiniteSet(S)
    BY <1>1, <1>2, FS_Subset
  <1>4. Rollover(s) = Rolled(s, S)[S]
    BY RolloverIsRolled
  <1> HIDE DEF S
  <1>5. \A U \in SUBSET S : U # {} => Latest(s.own, U) \in U
    <2>1. ASSUME NEW i \in S PROVE i \in Nat /\ s.own[i].due \in Int
      <3>1. i \in Nat
        BY <1>2, TasksAssumption DEF Ids
      <3>2. s.own[i].due \in Int
        BY <1>1, <1>2 DEF Row, Due, NoDue
      <3> QED
        BY <3>1, <3>2
    <2>2. \A U \in SUBSET S : U # {} => IsLatest(Latest(s.own, U), s.own, U)
      BY <1>3, <2>1, LatestIsLatest
    <2> QED
      BY <2>2 DEF IsLatest
  <1>6. \A U \in SUBSET S : U # {} => pick[U] \in U
    BY <1>5
  <1>7. ASSUME NEW i \in S, NEW r \in SessionType, Quiet(r, O)
        PROVE  Quiet(Miss(i, r), O) /\ Miss(i, r) \in SessionType
    <2>1. Quiet(Miss(i, r), O)
      BY <1>2, <1>7, MissQuiet
    <2> QED
      BY <2>1 DEF Quiet, GoodBut, Bounded
  <1>8. PICK g : Solves(g, S, s, pick, step)
    <2> HIDE DEF pick, step
    <2> QED
      BY <1>3, <1>6, FoldExists, Zenon
  <1>a. g = [U \in SUBSET S |-> IF U = {} THEN s ELSE step[pick[U]][g[U \ {pick[U]}]]]
    BY <1>8 DEF Solves
  <1>9. \A U \in SUBSET S : g[U] \in X[U]
    <2>1. g[{}] \in X[{}]
      <3>1. g[{}] = s
        BY <1>a
      <3> QED
        BY <1>1, <3>1
    <2>2. ASSUME NEW U \in SUBSET S, U # {}, g[U \ {pick[U]}] \in X[U \ {pick[U]}]
          PROVE  g[U] \in X[U]
      <3>1. pick[U] \in S /\ g[U \ {pick[U]}] \in SessionType /\ Quiet(g[U \ {pick[U]}], O)
        BY <1>6, <2>2
      <3>2. g[U] = Miss(pick[U], g[U \ {pick[U]}])
        BY <1>a, <2>2, <3>1
      <3>3. Quiet(g[U], O) /\ g[U] \in SessionType
        BY <1>7, <3>1, <3>2
      <3> QED
        BY <3>3
    <2> HIDE DEF pick, X
    <2> QED
      BY <1>3, <1>6, <2>1, <2>2, FoldKeeps
  <1>10. Rolling(g, s, S)
    <2>1. ASSUME NEW U \in SUBSET S, U # {}
          PROVE  step[pick[U]][g[U \ {pick[U]}]] = Miss(Latest(s.own, U), g[U \ {Latest(s.own, U)}])
      <3>1. U \ {pick[U]} \in SUBSET S /\ pick[U] \in S /\ pick[U] = Latest(s.own, U)
        BY <1>6, <2>1
      <3>2. g[U \ {pick[U]}] \in SessionType
        BY <1>9, <3>1
      <3> QED
        BY <3>1, <3>2
    <2> HIDE DEF pick, step
    <2> QED
      BY <1>a, <2>1 DEF Rolling
  <1>11. Rolling(Rolled(s, S), s, S)
    BY <1>10, Zenon DEF Rolled
  <1> DEFINE h == Rolled(s, S)
  <1>12. h = [U \in SUBSET S |-> IF U = {} THEN s ELSE Miss(Latest(s.own, U), h[U \ {Latest(s.own, U)}])]
    BY <1>11 DEF Rolling
  <1> HIDE DEF h
  <1>13. \A U \in SUBSET S : h[U] \in X[U]
    <2>1. h[{}] \in X[{}]
      <3>1. h[{}] = s
        BY <1>12
      <3> QED
        BY <1>1, <3>1
    <2>2. ASSUME NEW U \in SUBSET S, U # {}, h[U \ {pick[U]}] \in X[U \ {pick[U]}]
          PROVE  h[U] \in X[U]
      <3>1. pick[U] \in S /\ h[U \ {pick[U]}] \in SessionType /\ Quiet(h[U \ {pick[U]}], O)
        BY <1>6, <2>2
      <3>2. h[U] = Miss(pick[U], h[U \ {pick[U]}])
        BY <1>12, <2>2
      <3>3. Quiet(h[U], O) /\ h[U] \in SessionType
        BY <1>7, <3>1, <3>2
      <3> QED
        BY <3>3
    <2> HIDE DEF pick, X
    <2> QED
      BY <1>3, <1>6, <2>1, <2>2, FoldKeeps
  <1>14. h[S] \in X[S]
    BY <1>13
  <1>15. Quiet(h[S], O)
    BY <1>14
  <1> QED
    BY <1>4, <1>15 DEF h

-----------------------------------------------------------------------------
(* All missed rows reviewed at once *)

(* The row that is reviewed last, as MapThenFoldSet has it. *)
Greatest(U) == CHOOSE i \in U : \A j \in U : j <= i

(* A finite set of numbers has a greatest one. *)
LEMMA GreatestIsMember ==
  ASSUME NEW S \in SUBSET Nat, IsFiniteSet(S)
  PROVE  \A U \in SUBSET S : U # {} => Greatest(U) \in U
  <1> DEFINE rows == [i \in S |-> [due |-> 0]]
  <1>1. \A i \in S : i \in Nat /\ rows[i].due \in Int
    OBVIOUS
  <1>2. \A i \in S : rows[i].due = 0
    OBVIOUS
  <1> HIDE DEF rows
  <1>3. \A U \in SUBSET S : U # {} => IsLatest(Latest(rows, U), rows, U)
    BY <1>1, LatestIsLatest
  <1>4. ASSUME NEW U \in SUBSET S, U # {} PROVE \E i \in U : \A j \in U : j <= i
    <2> DEFINE i == Latest(rows, U)
    <2>1. IsLatest(i, rows, U)
      BY <1>3, <1>4
    <2> HIDE DEF i
    <2>2. i \in U /\ rows[i].due = 0
      BY <1>2, <2>1 DEF IsLatest
    <2>3. ASSUME NEW j \in U PROVE j <= i
      <3>1. rows[j].due = 0
        BY <1>2
      <3> QED
        BY <2>1, <2>2, <3>1 DEF IsLatest
    <2> QED
      BY <2>2, <2>3
  <1> QED
    BY <1>4, Zenon DEF Greatest

(* The function that MapThenFoldSet chooses, for the review.               *)
Reviewing(g, s, S, action) ==
  g = [U \in SUBSET S |-> IF U = {} THEN s ELSE ReviewMissed(g[U \ {Greatest(U)}], Greatest(U), action)]

Reviewed(s, S, action) == CHOOSE g : Reviewing(g, s, S, action)

(* The review of all missed rows is a fold of the review of one. *)
LEMMA ReviewAllIsReviewed ==
  ASSUME NEW s, NEW S, NEW action
  PROVE  ReviewAllMissed(s, S, action) = Reviewed(s, S, action)[S]
  BY Zenon DEF ReviewAllMissed, MapThenFoldSet, Reviewed, Reviewing, Greatest

(* The rows that are still to be reviewed.                                 *)
Untouched(r, O) == \A i \in O : r.own[i] = task[i] /\ i \notin r.credit /\ i \notin r.charge

(* review_all_missed_tasks *)
LEMMA ReviewAllGood ==
  ASSUME TypeOK, NEW O, O \subseteq 1..last, NEW s, Starts(s, O), \A i \in O : Missed(task[i]), NEW action
  PROVE  GoodBut(ReviewAllMissed(s, O, action), O, {})
  <1> DEFINE Family(U) == {r \in SessionType : GoodBut(r, O, {}) /\ Untouched(r, O \ U)}
             pick == [U \in SUBSET O |-> Greatest(U)]
             step == [i \in O |-> [r \in SessionType |-> ReviewMissed(r, i, action)]]
             X == [U \in SUBSET O |-> Family(U)]
  <1>1. O \subseteq Nat /\ IsFiniteSet(O)
    <2>1. last \in Nat
      BY TasksAssumption DEF TypeOK
    <2>2. IsFiniteSet(1..last)
      BY <2>1, FS_Interval
    <2>3. IsFiniteSet(O)
      BY <2>2, FS_Subset
    <2>4. O \subseteq Nat
      BY <2>1
    <2> QED
      BY <2>3, <2>4
  <1>2. s \in Family({})
    BY DEF Starts, GoodBut, Bounded, Untouched
  <1>3. ReviewAllMissed(s, O, action) = Reviewed(s, O, action)[O]
    BY ReviewAllIsReviewed
  <1>4. \A U \in SUBSET O : U # {} => Greatest(U) \in U
    BY <1>1, GreatestIsMember
  <1>5. \A U \in SUBSET O : U # {} => pick[U] \in U
    BY <1>4
  <1>6. ASSUME NEW U \in SUBSET O, NEW i \in U, NEW r \in Family(U \ {i})
        PROVE  ReviewMissed(r, i, action) \in Family(U)
    <2> DEFINE q == ReviewMissed(r, i, action)
    <2>1. i \in O /\ r.own[i] = task[i] /\ i \notin r.credit /\ i \notin r.charge /\ Missed(task[i])
          /\ GoodBut(r, O, {}) /\ Untouched(r, O \ (U \ {i}))
      BY <1>6 DEF Untouched
    <2>2. GoodBut(q, O, {}) /\ Only(r, q, O, i)
      BY <2>1, ReviewMissedGood, Zenon
    <2> HIDE DEF q
    <2>3. Untouched(q, O \ U)
      BY <2>1, <2>2 DEF Untouched, Only
    <2>4. q \in SessionType
      BY <2>2 DEF GoodBut, Bounded
    <2> QED
      BY <2>2, <2>3, <2>4 DEF q
  <1>7. PICK g : Solves(g, O, s, pick, step)
    <2> HIDE DEF pick, step
    <2> QED
      BY <1>1, <1>5, FoldExists, Zenon
  <1>8. \A r, U : r \in Family(U) => r \in SessionType
    OBVIOUS
  <1> HIDE DEF Family
  <1>a. g = [U \in SUBSET O |-> IF U = {} THEN s ELSE step[pick[U]][g[U \ {pick[U]}]]]
    BY <1>7 DEF Solves
  <1>9. \A U \in SUBSET O : g[U] \in X[U]
    <2>1. g[{}] \in X[{}]
      <3>1. g[{}] = s
        BY <1>a
      <3> QED
        BY <1>2, <3>1
    <2>2. ASSUME NEW U \in SUBSET O, U # {}, g[U \ {pick[U]}] \in X[U \ {pick[U]}]
          PROVE  g[U] \in X[U]
      <3>1. pick[U] \in U /\ g[U \ {pick[U]}] \in Family(U \ {pick[U]})
        BY <1>5, <2>2
      <3>2. g[U] = ReviewMissed(g[U \ {pick[U]}], pick[U], action)
        BY <1>a, <1>8, <2>2, <3>1
      <3>3. g[U] \in Family(U)
        BY <1>6, <3>1, <3>2
      <3> QED
        BY <3>3
    <2> HIDE DEF pick, X
    <2> QED
      BY <1>1, <1>5, <2>1, <2>2, FoldKeeps
  <1>10. Reviewing(g, s, O, action)
    <2>1. ASSUME NEW U \in SUBSET O, U # {}
          PROVE  step[pick[U]][g[U \ {pick[U]}]] = ReviewMissed(g[U \ {Greatest(U)}], Greatest(U), action)
      <3>1. U \ {pick[U]} \in SUBSET O /\ pick[U] \in O /\ pick[U] = Greatest(U)
        BY <1>5, <2>1
      <3>2. g[U \ {pick[U]}] \in SessionType
        BY <1>8, <1>9, <3>1
      <3> QED
        BY <3>1, <3>2
    <2> HIDE DEF pick, step
    <2> QED
      BY <1>a, <2>1 DEF Reviewing
  <1>11. Reviewing(Reviewed(s, O, action), s, O, action)
    BY <1>10, Zenon DEF Reviewed
  <1> DEFINE h == Reviewed(s, O, action)
  <1>12. h = [U \in SUBSET O |-> IF U = {} THEN s ELSE ReviewMissed(h[U \ {Greatest(U)}], Greatest(U), action)]
    BY <1>11 DEF Reviewing
  <1> HIDE DEF h
  <1>13. \A U \in SUBSET O : h[U] \in X[U]
    <2>1. h[{}] \in X[{}]
      <3>1. h[{}] = s
        BY <1>12
      <3> QED
        BY <1>2, <3>1
    <2>2. ASSUME NEW U \in SUBSET O, U # {}, h[U \ {pick[U]}] \in X[U \ {pick[U]}]
          PROVE  h[U] \in X[U]
      <3>1. pick[U] \in U /\ h[U \ {pick[U]}] \in Family(U \ {pick[U]})
        BY <1>5, <2>2
      <3>2. h[U] = ReviewMissed(h[U \ {pick[U]}], pick[U], action)
        BY <1>12, <2>2
      <3>3. h[U] \in Family(U)
        BY <1>6, <3>1, <3>2
      <3> QED
        BY <3>3
    <2> HIDE DEF pick, X
    <2> QED
      BY <1>1, <1>5, <2>1, <2>2, FoldKeeps
  <1>14. h[O] \in X[O]
    BY <1>13
  <1>15. GoodBut(h[O], O, {})
    BY <1>14 DEF Family
  <1> QED
    BY <1>3, <1>15 DEF h

-----------------------------------------------------------------------------
(* The maintenance: duplicates and penalties *)

(* A row that is still pending is a candidate, or the session inserted it. *)
LEMMA StillPendingFacts ==
  ASSUME TypeOK, NEW O, O \subseteq 1..last, NEW s, Quiet(s, O), NEW i \in StillPending(s)
  PROVE  /\ i \in Ids /\ s.own[i] \in Row /\ GoodAt(s, O, i)
         /\ i \in O \/ (last < i /\ i <= s.last)
         /\ s.own[i] = s.found[i] /\ WellFormed(s.own[i], s.serial) /\ Pending(s.own[i])
  <1>1. i \in Ids /\ (i \in O \/ i > last) /\ Pending(s.own[i])
    BY DEF StillPending, Quiet
  <1>2. s \in SessionType /\ s.last \in Nat /\ last \in Nat /\ last <= s.last /\ i \in Nat
    <2>1. i \in Nat
      BY <1>1 DEF Ids
    <2>2. s \in SessionType /\ s.last \in Nat /\ last \in Nat /\ last <= s.last
      BY QuietFacts
    <2> QED
      BY <2>1, <2>2
  <1>3. GoodAt(s, O, i) /\ s.own[i] \in Row
    BY <1>1, <1>2 DEF Quiet, GoodBut, SessionType
  <1>4. ~(i > s.last)
    <2>1. ~Pending(NoRow)
      BY DEF Pending, NoRow
    <2> QED
      BY <1>1, <1>3, <2>1 DEF GoodAt
  <1>5. i \in O \/ (last < i /\ i <= s.last)
    BY <1>1, <1>2, <1>4
  <1> QED
    BY <1>1, <1>3, <1>5 DEF GoodAt

(* _deduplicate_active_open_recurring_tasks changes is_active only. *)
LEMMA DeduplicateQuiet ==
  ASSUME TypeOK, NEW O, O \subseteq 1..last, NEW s, Quiet(s, O)
  PROVE  Quiet(Deduplicate(s), O)
  <1> DEFINE S == {i \in StillPending(s) : s.own[i].series # 0
                     /\ \E j \in StillPending(s) : s.own[j].series = s.own[i].series /\ j > i}
             columns == [active |-> FALSE]
             rows == [i \in S |-> [s.own[i] EXCEPT !.active = FALSE]]
             r == Set(s, S, columns)
  <1>1. /\ s \in SessionType /\ O \subseteq Ids
        /\ s.serial \in Nat /\ s.last \in Nat /\ last \in Nat /\ last <= s.last
    BY QuietFacts
  <1>2. ASSUME NEW i \in S
        PROVE  /\ i \in Ids /\ s.own[i] \in Row /\ GoodAt(s, O, i)
               /\ i \in O \/ (last < i /\ i <= s.last)
               /\ s.own[i] = s.found[i] /\ WellFormed(s.own[i], s.serial) /\ Pending(s.own[i])
    BY StillPendingFacts
  <1>3. Deduplicate(s) = r
    BY DEF Deduplicate
  <1> HIDE DEF S
  <1>4. ASSUME NEW i \in S
        PROVE  /\ rows[i] \in Row /\ rows[i].status = s.own[i].status /\ rows[i].kind = s.own[i].kind
               /\ rows[i].due = s.own[i].due /\ rows[i].series = s.own[i].series
               /\ rows[i].applied = s.own[i].applied
               /\ With(s.own[i], columns) = rows[i]
    <2> DEFINE old == s.own[i]
    <2>1. rows[i] = [old EXCEPT !.active = FALSE]
      OBVIOUS
    <2>2. old \in Row
      BY <1>2
    <2> HIDE DEF old, rows
    <2>3. With(old, columns) = rows[i]
      BY <2>1, <2>2, WithActive
    <2>4. /\ rows[i] \in Row /\ rows[i].status = old.status /\ rows[i].kind = old.kind
          /\ rows[i].due = old.due /\ rows[i].series = old.series /\ rows[i].applied = old.applied
      BY <2>1, <2>2 DEF Row
    <2> QED
      BY <2>3, <2>4 DEF old
  <1>5. rows \in [S -> Row] /\ S \in SUBSET Ids
    <2>1. \A i \in S : rows[i] \in Row
      BY <1>4
    <2>2. S \in SUBSET Ids
      BY <1>2
    <2> QED
      BY <2>1, <2>2
  <1> HIDE DEF rows, columns
  <1>6. \A i \in S : s.own[i] = s.found[i] /\ With(s.own[i], columns) = rows[i]
    BY <1>2, <1>4
  <1>7. Rewritten(s, r, S, rows)
    BY <1>1, <1>5, <1>6, SetRewrites
  <1> HIDE DEF r
  <1>8. /\ r \in SessionType /\ r.last = s.last /\ r.serial = s.serial /\ r.candidates = s.candidates
        /\ r.credit = s.credit /\ r.charge = s.charge
        /\ \A i \in S : r.own[i] = rows[i] /\ r.found[i] = rows[i]
        /\ \A i \in Ids \ S : r.own[i] = s.own[i] /\ r.found[i] = s.found[i]
    BY <1>7 DEF Rewritten
  <1>9. ASSUME NEW i \in S PROVE GoodAt(r, O, i)
    <2>1. GoodAt(s, O, i) /\ (i \in O \/ (last < i /\ i <= s.last)) /\ i \in Nat
      BY <1>2 DEF Ids
    <2>2. WellFormed(rows[i], r.serial)
      BY <1>2, <1>4, <1>8 DEF WellFormed
    <2>3. PaidRow(i, s.own[i], s.credit) => PaidRow(i, rows[i], r.credit)
      BY <1>4, <1>8 DEF PaidRow
    <2>4. ChargedRow(i, s.own[i], s.charge) => ChargedRow(i, rows[i], r.charge)
      BY <1>4, <1>8 DEF ChargedRow
    <2>5. i \notin r.charge /\ ~(i > r.last)
      <3>1. i <= s.last
        <4>1. i \in O => i <= last
          BY <1>1
        <4> QED
          BY <1>1, <2>1, <4>1
      <3> QED
        BY <1>8, <2>1, <3>1, <1>1 DEF Quiet
    <2> QED
      BY <1>4, <1>8, <2>1, <2>2, <2>3, <2>4, <2>5 DEF GoodAt
  <1>10. Bounded(r, O)
    BY <1>8 DEF Quiet, GoodBut, Bounded
  <1>11. \A i \in Ids : i \in S /\ i \notin {} => GoodAt(r, O, i)
    BY <1>9
  <1>12. AlikeBut(s, r, S)
    BY <1>8 DEF AlikeBut
  <1>13. r.serial >= s.serial /\ r.last = s.last /\ {} \subseteq S /\ GoodBut(s, O, {})
    BY <1>1, <1>8 DEF Quiet
  <1>14. GoodBut(r, O, {})
    BY <1>10, <1>11, <1>12, <1>13, GoodChange
  <1>15. ASSUME NEW i \in O PROVE r.own[i].status # "deleted"
    <2>1. i \in Ids /\ s.own[i].status # "deleted"
      BY <1>1 DEF Quiet
    <2>2. CASE i \in S
      BY <1>4, <1>8, <2>1, <2>2
    <2>3. CASE i \notin S
      BY <1>8, <2>1, <2>3
    <2> QED
      BY <2>2, <2>3
  <1> QED
    BY <1>3, <1>8, <1>14, <1>15 DEF Quiet

(* _apply_penalties_for_family takes a penalty only for a due date after the *)
(* last one.                                                                 *)
LEMMA PenaliseGood ==
  ASSUME TypeOK, NEW O, O \subseteq 1..last, NEW s, Quiet(s, O)
  PROVE  GoodBut(Penalise(s), O, {})
  <1> DEFINE S == {i \in StillPending(s) : /\ s.own[i].penalty /\ s.own[i].kind \in {"daily", "weekly"}
                                           /\ s.own[i].due <= now /\ s.own[i].applied < s.own[i].due}
             charge == [s EXCEPT !.charge = @ \union S]
             columns == [i \in S |-> [applied |-> s.own[i].due]]
             rows == [i \in S |-> [s.own[i] EXCEPT !.applied = s.own[i].due]]
             r == SetEach(charge, columns)
  <1>1. /\ s \in SessionType /\ O \subseteq Ids
        /\ s.serial \in Nat /\ s.last \in Nat /\ last \in Nat /\ last <= s.last
    BY QuietFacts
  <1>2. ASSUME NEW i \in S
        PROVE  /\ i \in Ids /\ s.own[i] \in Row /\ GoodAt(s, O, i)
               /\ i \in O \/ (last < i /\ i <= s.last)
               /\ s.own[i] = s.found[i] /\ WellFormed(s.own[i], s.serial) /\ Pending(s.own[i])
    BY StillPendingFacts
  <1>3. \A i \in S : s.own[i].applied < s.own[i].due
    OBVIOUS
  <1>4. Penalise(s) = r
    BY DEF Penalise
  <1> HIDE DEF S
  <1>5. ASSUME NEW i \in S
        PROVE  /\ rows[i] \in Row /\ rows[i].status = s.own[i].status /\ rows[i].kind = s.own[i].kind
               /\ rows[i].due = s.own[i].due /\ rows[i].series = s.own[i].series
               /\ rows[i].applied = s.own[i].due
               /\ With(s.own[i], columns[i]) = rows[i]
    <2> DEFINE old == s.own[i]
               d == s.own[i].due
    <2>1. rows[i] = [old EXCEPT !.applied = d] /\ columns[i] = [applied |-> d]
      OBVIOUS
    <2>2. old \in Row /\ d \in Due
      BY <1>2 DEF Row
    <2> HIDE DEF old, d, rows, columns
    <2>3. With(old, columns[i]) = rows[i]
      BY <2>1, <2>2, WithApplied
    <2>4. /\ rows[i] \in Row /\ rows[i].status = old.status /\ rows[i].kind = old.kind
          /\ rows[i].due = old.due /\ rows[i].series = old.series /\ rows[i].applied = d
      BY <2>1, <2>2 DEF Row
    <2> QED
      BY <2>3, <2>4 DEF old, d
  <1>6. rows \in [S -> Row] /\ S \in SUBSET Ids /\ DOMAIN columns = S
    <2>1. \A i \in S : rows[i] \in Row
      BY <1>5
    <2>2. S \in SUBSET Ids
      BY <1>2
    <2> QED
      BY <2>1, <2>2
  <1> HIDE DEF rows, columns
  <1>7. /\ charge \in SessionType /\ charge.own = s.own /\ charge.found = s.found
        /\ charge.last = s.last /\ charge.serial = s.serial /\ charge.credit = {} /\ charge.charge = S
        /\ charge.candidates = s.candidates
    BY <1>1, <1>6 DEF SessionType, Quiet
  <1> HIDE DEF charge
  <1>8. \A i \in S : charge.own[i] = charge.found[i] /\ With(charge.own[i], columns[i]) = rows[i]
    BY <1>2, <1>5, <1>7
  <1>9. Rewritten(charge, r, S, rows)
    BY <1>6, <1>7, <1>8, SetEachRewrites
  <1> HIDE DEF r
  <1>10. /\ r \in SessionType /\ r.last = s.last /\ r.serial = s.serial
         /\ r.credit = s.credit /\ r.charge = S
         /\ \A i \in S : r.own[i] = rows[i] /\ r.found[i] = rows[i]
         /\ \A i \in Ids \ S : r.own[i] = s.own[i] /\ r.found[i] = s.found[i]
    BY <1>7, <1>9 DEF Rewritten, Quiet
  <1>11. ASSUME NEW i \in S PROVE GoodAt(r, O, i)
    <2>1. GoodAt(s, O, i) /\ (i \in O \/ (last < i /\ i <= s.last)) /\ i \in Nat
      BY <1>2 DEF Ids
    <2>2. WellFormed(rows[i], r.serial)
      BY <1>2, <1>5, <1>10 DEF WellFormed
    <2>3. PaidRow(i, s.own[i], s.credit) => PaidRow(i, rows[i], r.credit)
      BY <1>5, <1>10 DEF PaidRow
    <2>4. s.own[i].due \in Int /\ s.own[i].applied \in Int /\ s.own[i].applied >= -1
          /\ s.own[i].applied < s.own[i].due
      BY <1>2, <1>3 DEF Row, Due, NoDue
    <2>5. rows[i].due # NoDue /\ rows[i].applied >= rows[i].due
      BY <1>5, <2>4 DEF NoDue
    <2>6. ChargedRow(i, s.own[i], {}) /\ i \in O => ChargedRow(i, rows[i], r.charge)
      <3>1. SUFFICES ASSUME ChargedRow(i, s.own[i], {}), i \in O PROVE ChargedRow(i, rows[i], r.charge)
        OBVIOUS
      <3>2. task[i] \in Row
        BY <1>2 DEF TypeOK
      <3>3. task[i].applied \in Int /\ task[i].due \in Int
        BY <3>2 DEF Row, Due, NoDue
      <3>4. s.own[i].status # "deleted"
        BY <1>2 DEF Pending
      <3>5. s.own[i].due = task[i].due => s.own[i].applied >= task[i].applied
        BY <3>1, <3>4 DEF ChargedRow, Quiet
      <3>6. rows[i].due = task[i].due => task[i].applied < task[i].due
        BY <1>5, <2>4, <3>3, <3>5
      <3> QED
        BY <1>10, <2>5, <3>6 DEF ChargedRow
    <2>7. ~(i > r.last)
      <3>1. i \in O => i <= last
        BY <1>1
      <3> QED
        BY <1>1, <1>10, <2>1, <3>1
    <2>8. s.charge = {}
      BY DEF Quiet
    <2> QED
      BY <1>5, <1>10, <2>1, <2>2, <2>3, <2>5, <2>6, <2>7, <2>8 DEF GoodAt
  <1>12. Bounded(r, O)
    <2>1. S \subseteq O \union {i \in Ids : last < i /\ i <= s.last}
      BY <1>2
    <2> QED
      BY <1>10, <2>1 DEF Quiet, GoodBut, Bounded
  <1>13. \A i \in Ids : i \in S /\ i \notin {} => GoodAt(r, O, i)
    BY <1>11
  <1>14. AlikeBut(s, r, S)
    BY <1>10 DEF Quiet, AlikeBut
  <1>15. r.serial >= s.serial /\ r.last = s.last /\ {} \subseteq S /\ GoodBut(s, O, {})
    BY <1>1, <1>10 DEF Quiet
  <1>16. GoodBut(r, O, {})
    BY <1>12, <1>13, <1>14, <1>15, GoodChange
  <1> QED
    BY <1>4, <1>16

(* _run_family_task_maintenance *)
LEMMA MaintainGood ==
  ASSUME RowLocks, TypeOK, NEW O, O \subseteq 1..last, NEW s, Starts(s, O), s.candidates = O,
         \A i \in O : Pending(task[i]) /\ ~EditedNow(i)
  PROVE  GoodBut(Maintain(s), O, {})
  <1>1. Quiet(s, O)
    BY DEF Starts, Quiet, Pending
  <1>2. Quiet(Realign(s), O)
    BY <1>1, RealignQuiet
  <1>3. Quiet(Rollover(Realign(s)), O)
    BY <1>2, RolloverQuiet
  <1>4. Quiet(Deduplicate(Rollover(Realign(s))), O)
    BY <1>3, DeduplicateQuiet
  <1>5. Maintain(s) = Penalise(Deduplicate(Rollover(Realign(s))))
    BY DEF Maintain, Reload
  <1> QED
    BY <1>4, <1>5, PenaliseGood

-----------------------------------------------------------------------------
(* Locks: what a request relies on between its steps *)

(* The state of a row that a request locked, for as long as it holds it. *)
Fits(req, i) ==
  CASE req.op = "maintain"           -> Pending(task[i])
    [] req.op = "review all missed"  -> Missed(task[i])
    [] req.op = "update"             -> i \in Named(req) /\ task[i].status # "approved"
    [] req.op = "submit"             -> i \in Named(req) /\ (Pending(task[i]) \/ Missed(task[i]))
    [] req.op = "submit and approve" -> i \in Named(req) /\ Pending(task[i])
    [] req.op = "report missed"      -> i \in Named(req) /\ Pending(task[i])
    [] req.op = "review"             -> i \in Named(req) /\ task[i].status = "submitted"
    [] req.op = "review missed"      -> i \in Named(req) /\ Missed(task[i])
    [] OTHER                         -> i \in Named(req)

HeldRow(t, i) ==
  /\ owner[i] = t =>
       /\ pc[t] # "idle" /\ i <= last /\ Exists(task[i]) /\ Fits(request[t], i)
       /\ pc[t] = "write" /\ Looks(request[t]) => seen[t][i] = task[i]
  /\ pc[t] # "idle" /\ i \in Named(request[t]) => owner[i] = t
  /\ pc[t] = "write" /\ Looks(request[t]) /\ i > last => seen[t][i] = NoRow

Locking ==
  \A t \in Threads : /\ pc[t] # "idle" => request[t] \in Request
                     /\ \A i \in Ids : HeldRow(t, i)

Owned(t) == {i \in Ids : owner[i] = t}

WithId == {"update", "set active", "submit", "submit and approve", "report missed", "delete",
           "delete instance", "review", "review missed"}

(* The fields of a request. *)
LEMMA RequestFacts ==
  ASSUME NEW req \in Request
  PROVE  /\ req.op \in WithId \union {"create", "review all missed", "maintain"}
         /\ req.op \in WithId => req.id \in Ids /\ Named(req) = {req.id}
         /\ req.op \notin WithId => Named(req) = {}
         /\ req.op = "create" => req.input \in Inputs
         /\ req.op = "update" => req.edit \in Edits
         /\ req.op = "set active" => req.to \in BOOLEAN
  <1>1. CASE req \in [op: {"create"}, input: Inputs]
    BY <1>1 DEF Named, WithId
  <1>2. CASE req \in [op: {"update"}, id: Ids, edit: Edits]
    BY <1>2 DEF Named, WithId
  <1>3. CASE req \in [op: {"set active"}, id: Ids, to: BOOLEAN]
    BY <1>3 DEF Named, WithId
  <1>4. CASE req \in [op: {"submit", "submit and approve", "report missed", "delete", "delete instance"}, id: Ids]
    BY <1>4 DEF Named, WithId
  <1>5. CASE req \in [op: {"review"}, id: Ids, decision: {"approved", "rejected"}]
    BY <1>5 DEF Named, WithId
  <1>6. CASE req \in [op: {"review missed"}, id: Ids, action: {"approve", "delete", "penalty"}]
    BY <1>6 DEF Named, WithId
  <1>7. CASE req \in [op: {"review all missed"}, action: {"approve", "delete", "penalty"}]
    BY <1>7 DEF Named, WithId
  <1>8. CASE req \in [op: {"maintain"}]
    BY <1>8 DEF Named, WithId
  <1> QED
    BY <1>1, <1>2, <1>3, <1>4, <1>5, <1>6, <1>7, <1>8 DEF Request

(* A session that is about to decide owns its rows, and they are as it read  *)
(* them.                                                                     *)
LEMMA SessionFacts ==
  ASSUME RowLocks, TypeOK, Locking, NEW t \in Threads, pc[t] = "write"
  PROVE  /\ Owned(t) \subseteq 1..last /\ request[t] \in Request
         /\ \A i \in Owned(t) : i \in Ids /\ Exists(task[i]) /\ Fits(request[t], i) /\ Found(t)[i] = task[i]
         /\ Starts(Session(t), Owned(t)) /\ Session(t).candidates = Owned(t)
         /\ Session(t).found = Found(t)
         /\ Named(request[t]) \subseteq Owned(t)
         /\ request[t].op \in WithId => Owned(t) = {request[t].id}
         /\ request[t].op = "create" => Owned(t) = {}
  <1> DEFINE O == Owned(t)
             s == Session(t)
             req == request[t]
  <1>1. req \in Request /\ \A i \in Ids : HeldRow(t, i)
    BY DEF Locking
  <1>2. /\ last \in Nat /\ serial \in Nat /\ last \in 0..MaxTasks /\ MaxTasks \in Nat
        /\ task \in [Ids -> Row] /\ seen[t] \in [Ids -> Row]
    BY TasksAssumption DEF TypeOK
  <1>3. ASSUME NEW i \in O
        PROVE  i \in Ids /\ i \in 1..last /\ Exists(task[i]) /\ Fits(req, i) /\ Found(t)[i] = task[i]
    <2>1. i \in Ids /\ owner[i] = t /\ HeldRow(t, i) /\ i \in Nat /\ i >= 1
      BY <1>1 DEF Owned, Ids
    <2>2. i <= last /\ Exists(task[i]) /\ Fits(req, i) /\ (Looks(req) => seen[t][i] = task[i])
      BY <2>1 DEF HeldRow
    <2>3. i \in 1..last
      BY <1>2, <2>1, <2>2
    <2> QED
      BY <2>1, <2>2, <2>3 DEF Found
  <1>4. ASSUME NEW i \in Ids, i > last PROVE task[i] = NoRow /\ Found(t)[i] = NoRow
    <2>1. task[i] = NoRow
      BY <1>4 DEF TypeOK
    <2>2. Looks(req) => seen[t][i] = NoRow
      BY <1>1, <1>4 DEF HeldRow
    <2> QED
      BY <2>1, <2>2 DEF Found
  <1>5. /\ s.own = task /\ s.found = Found(t) /\ s.last = last /\ s.serial = serial
        /\ s.candidates = O /\ s.credit = {} /\ s.charge = {}
    BY DEF Session, Own, Owned
  <1>6. s \in SessionType
    <2>1. Found(t) \in [Ids -> Row]
      BY <1>2 DEF Found
    <2>2. O \in SUBSET Ids
      BY <1>3
    <2>3. s = [own |-> task, found |-> Found(t), last |-> last, serial |-> serial,
               candidates |-> O, credit |-> {}, charge |-> {}]
      BY DEF Session, Own, Owned
    <2> HIDE DEF O, s
    <2> QED
      BY <1>2, <2>1, <2>2, <2>3 DEF SessionType
  <1> HIDE DEF s, req
  <1>7. ASSUME NEW i \in Ids PROVE GoodAt(s, O, i)
    <2>1. i \in Nat /\ task[i] \in Row
      BY <1>2 DEF Ids
    <2>2. ASSUME i \in O
          PROVE  /\ s.own[i] = s.found[i] /\ s.own[i] = task[i]
                 /\ WellFormed(s.own[i], s.serial)
                 /\ PaidRow(i, s.own[i], s.credit)
                 /\ ChargedRow(i, s.own[i], s.charge)
      <3>1. s.own[i] = task[i] /\ s.found[i] = task[i]
        BY <1>3, <1>5, <2>2
      <3>2. Exists(task[i])
        BY <1>3, <2>2
      <3>3. WellFormed(task[i], serial)
        BY <3>2 DEF WellFormed, Exists, TypeOK
      <3>4. PaidRow(i, task[i], {})
        BY DEF PaidRow
      <3>5. task[i].applied \in Int
        BY <2>1 DEF Row, Due, NoDue
      <3>6. ChargedRow(i, task[i], {})
        BY <3>5 DEF ChargedRow
      <3> QED
        BY <1>5, <3>1, <3>3, <3>4, <3>6
    <2>3. ~(last < i /\ i <= s.last)
      BY <1>2, <1>5, <2>1
    <2>4. i > s.last => s.own[i] = NoRow /\ s.found[i] = NoRow
      BY <1>4, <1>5
    <2>5. i \in O => ~(task[i].status = "submitted" /\ s.own[i].status = "missed_submitted")
      BY <2>2
    <2> QED
      BY <2>2, <2>3, <2>4, <2>5 DEF GoodAt
  <1>8. Starts(s, O)
    <2>1. Bounded(s, O)
      BY <1>2, <1>5, <1>6 DEF Bounded
    <2> QED
      BY <1>5, <1>7, <2>1 DEF Starts, GoodBut
  <1>9. Named(req) \subseteq O
    <2>1. \A i \in Named(req) : i \in Ids
      BY <1>1, RequestFacts DEF req
    <2> QED
      BY <1>1, <2>1 DEF HeldRow, Owned, req
  <1>10. req.op \in WithId => O = {req.id}
    <2>1. SUFFICES ASSUME req.op \in WithId PROVE O = {req.id}
      OBVIOUS
    <2>2. Named(req) = {req.id}
      BY <1>1, <2>1, RequestFacts DEF req
    <2>3. \A i \in O : i \in Named(req)
      BY <1>3, <2>1 DEF Fits, WithId
    <2> QED
      BY <1>9, <2>2, <2>3
  <1>11. req.op = "create" => O = {}
    <2>1. SUFFICES ASSUME req.op = "create" PROVE O = {}
      OBVIOUS
    <2>2. Named(req) = {}
      BY <1>1, <2>1, RequestFacts DEF WithId, req
    <2>3. \A i \in O : i \in Named(req)
      BY <1>3, <2>1 DEF Fits
    <2> QED
      BY <2>2, <2>3
  <1> HIDE DEF O
  <1>12. O \subseteq 1..last
    BY <1>3
  <1>13. \A i \in O : i \in Ids /\ Exists(task[i]) /\ Fits(req, i) /\ Found(t)[i] = task[i]
    BY <1>3
  <1> QED
    BY <1>1, <1>5, <1>8, <1>9, <1>10, <1>11, <1>12, <1>13 DEF O, s, req

-----------------------------------------------------------------------------
(* Every request leaves good rows *)

(* Another status, for a row that was neither approved nor deleted.        *)
LEMMA StatusGood ==
  ASSUME TypeOK, NEW i \in 1..last, NEW s, Starts(s, {i}), task[i].status # "approved",
         NEW x \in {"submitted", "missed_submitted", "rejected"},
         task[i].status = "submitted" => x # "missed_submitted"
  PROVE  /\ GoodBut(Set(s, {i}, [status |-> x]), {i}, {})
         /\ WellFormed(Set(s, {i}, [status |-> x]).own[i], Set(s, {i}, [status |-> x]).serial)
  <1> DEFINE old == s.own[i]
             columns == [status |-> x]
             row == [old EXCEPT !.status = x]
  <1>1. /\ i \in Ids /\ s \in SessionType /\ old \in Row
        /\ old = task[i] /\ old = s.found[i] /\ WellFormed(old, s.serial)
        /\ s.credit = {} /\ s.charge = {} /\ GoodBut(s, {i}, {})
    BY StartsFacts
  <1>2. With(old, columns) = row
    BY <1>1, WithStatus
  <1>3. /\ row \in Row /\ row.status = x /\ row.due = old.due /\ row.kind = old.kind
        /\ row.series = old.series /\ row.applied = old.applied
    BY <1>1 DEF Row
  <1>4. old.applied \in Int
    BY <1>1 DEF Row, Due, NoDue
  <1> HIDE DEF row, columns, old
  <1>5. WellFormed(row, s.serial)
    BY <1>1, <1>3 DEF WellFormed
  <1>6. PaidRow(i, row, s.credit)
    BY <1>1, <1>3 DEF PaidRow
  <1>7. ChargedRow(i, row, s.charge)
    BY <1>1, <1>3, <1>4 DEF ChargedRow
  <1>8. ~(task[i].status = "submitted" /\ row.status = "missed_submitted")
    BY <1>3
  <1>9. {} \in SUBSET {i} /\ {i} \subseteq 1..last /\ i \in {i}
    OBVIOUS
  <1>10. s.own[i] = s.found[i] /\ With(s.own[i], columns) = row
    BY <1>1, <1>2 DEF old
  <1>11. GoodBut(Set(s, {i}, columns), {i}, {}) /\ Changes(s, Set(s, {i}, columns), {i}, i, row)
    BY <1>1, <1>3, <1>5, <1>6, <1>7, <1>8, <1>9, <1>10, SetGood
  <1> QED
    BY <1>5, <1>11 DEF Changes, columns

(* The facts about a session that owns the row i alone.                    *)
LEMMA AloneFacts ==
  ASSUME TypeOK, NEW i \in 1..last, NEW s, Starts(s, {i})
  PROVE  /\ {} \in SUBSET {i} /\ {i} \subseteq 1..last /\ i \in {i} /\ i \in Ids
         /\ s \in SessionType /\ GoodBut(s, {i}, {})
         /\ s.own[i] = task[i] /\ s.own[i] = s.found[i] /\ WellFormed(s.own[i], s.serial)
         /\ i \notin s.credit /\ i \notin s.charge
         /\ ChargedRow(i, s.own[i], s.charge)
  <1>1. {} \in SUBSET {i} /\ {i} \subseteq 1..last /\ i \in {i}
    OBVIOUS
  <1>2. /\ i \in Ids /\ s \in SessionType /\ s.own[i] \in Row
        /\ s.own[i] = task[i] /\ s.own[i] = s.found[i] /\ WellFormed(s.own[i], s.serial)
        /\ s.credit = {} /\ s.charge = {} /\ GoodBut(s, {i}, {})
    BY StartsFacts
  <1>3. task[i].applied \in Int
    BY <1>2 DEF Row, Due, NoDue
  <1>4. ChargedRow(i, s.own[i], s.charge)
    BY <1>2, <1>3 DEF ChargedRow
  <1> QED
    BY <1>1, <1>2, <1>4

(* The requests for one row, in the session that owns it. *)
LEMMA ApproveAlone ==
  ASSUME TypeOK, NEW i \in 1..last, NEW s, Starts(s, {i}),
         task[i].status \notin {"approved", "deleted"}
  PROVE  GoodBut(Approve(s, i), {i}, {})
  <1>1. /\ {} \in SUBSET {i} /\ {i} \subseteq 1..last /\ i \in {i} /\ i \in Ids
        /\ s \in SessionType /\ GoodBut(s, {i}, {})
        /\ s.own[i] = task[i] /\ s.own[i] = s.found[i] /\ WellFormed(s.own[i], s.serial)
        /\ ChargedRow(i, s.own[i], s.charge)
    BY AloneFacts
  <1>2. s.own[i].status # "deleted"
    BY <1>1
  <1> QED
    BY <1>1, <1>2, ApproveGood

LEMMA ReportAlone ==
  ASSUME TypeOK, NEW i \in 1..last, NEW s, Starts(s, {i}), Pending(task[i])
  PROVE  GoodBut(CreateNext(Set(s, {i}, [status |-> "missed_submitted"]), i), {i}, {})
  <1> DEFINE r == Set(s, {i}, [status |-> "missed_submitted"])
  <1>1. task[i].status # "approved" /\ task[i].status # "submitted"
    BY DEF Pending
  <1>2. GoodBut(r, {i}, {}) /\ WellFormed(r.own[i], r.serial)
    BY <1>1, StatusGood
  <1>3. {} \in SUBSET {i} /\ {i} \subseteq 1..last /\ i \in {i}
    OBVIOUS
  <1> HIDE DEF r
  <1>4. GoodBut(CreateNext(r, i), {i}, {})
    BY <1>2, <1>3, CreateNextGood
  <1> QED
    BY <1>4 DEF r

LEMMA ReviewAlone ==
  ASSUME TypeOK, NEW i \in 1..last, NEW s, Starts(s, {i}), Missed(task[i]), NEW action
  PROVE  GoodBut(ReviewMissed(s, i, action), {i}, {})
  <1>1. /\ {i} \subseteq 1..last /\ i \in {i} /\ GoodBut(s, {i}, {})
        /\ s.own[i] = task[i] /\ i \notin s.credit /\ i \notin s.charge
    BY AloneFacts
  <1> QED
    BY <1>1, ReviewMissedGood

LEMMA DeleteAlone ==
  ASSUME TypeOK, NEW i \in 1..last, NEW s, Starts(s, {i})
  PROVE  GoodBut(Delete(s, i), {i}, {})
  <1>1. /\ {} \in SUBSET {i} /\ {i} \subseteq 1..last /\ i \in {i}
        /\ GoodBut(s, {i}, {}) /\ s.own[i] = s.found[i] /\ WellFormed(s.own[i], s.serial)
        /\ i \notin s.credit /\ i \notin s.charge
    BY AloneFacts
  <1> QED
    BY <1>1, DeleteGood

LEMMA DeleteInstanceAlone ==
  ASSUME TypeOK, NEW i \in 1..last, NEW s, Starts(s, {i})
  PROVE  GoodBut(Delete(CreateNext(s, i), i), {i}, {})
  <1> DEFINE r == CreateNext(s, i)
  <1>1. /\ {} \in SUBSET {i} /\ {i} \subseteq 1..last /\ i \in {i} /\ i \in Ids
        /\ s \in SessionType /\ GoodBut(s, {i}, {})
        /\ s.own[i] = s.found[i] /\ WellFormed(s.own[i], s.serial)
        /\ i \notin s.credit /\ i \notin s.charge
    BY AloneFacts
  <1>2. i <= s.last
    BY <1>1, OwnedFacts
  <1>3. GoodBut(r, {i}, {}) /\ Grown(s, r)
    BY <1>1, CreateNextGood
  <1> HIDE DEF r
  <1>4. /\ r.own[i] = r.found[i] /\ WellFormed(r.own[i], r.serial)
        /\ i \notin r.credit /\ i \notin r.charge
    BY <1>1, <1>2, <1>3 DEF Grown
  <1>5. GoodBut(Delete(r, i), {i}, {})
    BY <1>1, <1>3, <1>4, DeleteGood
  <1> QED
    BY <1>5 DEF r

(* Nobody edits a row that a request of another kind holds. *)
LEMMA HeldAlone ==
  ASSUME Locking, NEW t \in Threads, request[t].op # "update"
  PROVE  \A i \in Owned(t) : ~EditedNow(i)
  <1>1. SUFFICES ASSUME NEW i \in Ids, owner[i] = t,
                        NEW u \in Threads, pc[u] = "write", request[u].op = "update", request[u].id = i
                 PROVE  FALSE
    BY DEF EditedNow, Owned
  <1>2. request[u] \in Request /\ HeldRow(u, i)
    BY <1>1 DEF Locking
  <1>3. i \in Named(request[u])
    BY <1>1, <1>2, RequestFacts DEF WithId
  <1>4. owner[i] = u
    BY <1>1, <1>2, <1>3 DEF HeldRow
  <1> QED
    BY <1>1, <1>4

(* Whatever a request decides, the rows it owns and inserts stay good. *)
LEMMA OutcomeGood ==
  ASSUME RowLocks, TypeOK, Locking, NEW t \in Threads, pc[t] = "write"
  PROVE  GoodBut(Outcome(t), Owned(t), {})
  <1> DEFINE O == Owned(t)
             s == Session(t)
             req == request[t]
             i == req.id
  <1>1. /\ O \subseteq 1..last /\ req \in Request
        /\ \A j \in O : j \in Ids /\ Exists(task[j]) /\ Fits(req, j)
        /\ Starts(s, O) /\ s.candidates = O
        /\ req.op \in WithId => O = {i}
        /\ req.op = "create" => O = {}
    BY SessionFacts
  <1>2. /\ req.op \in WithId \union {"create", "review all missed", "maintain"}
        /\ req.op = "create" => req.input \in Inputs
        /\ req.op = "update" => req.edit \in Edits
        /\ req.op = "set active" => req.to \in BOOLEAN
    BY <1>1, RequestFacts
  <1>3. ASSUME req.op \in WithId
        PROVE  O = {i} /\ i \in 1..last /\ Exists(task[i]) /\ Fits(req, i) /\ Starts(s, {i})
    BY <1>1, <1>3
  <1>4. req.op = "update" => EditedNow(i)
    BY DEF EditedNow
  <1>5. Outcome(t) =
          CASE req.op = "create"             -> Create(s, req.input)
            [] req.op = "update"             -> Update(s, i, req.edit)
            [] req.op = "set active"         -> SetActive(s, i, req.to)
            [] req.op = "submit"             -> Set(s, {i}, [status |-> "submitted"])
            [] req.op = "submit and approve" -> Approve(s, i)
            [] req.op = "report missed"      ->
                 CreateNext(Set(s, {i}, [status |-> "missed_submitted"]), i)
            [] req.op = "review"             ->
                 IF req.decision = "approved" THEN Approve(s, i)
                 ELSE Set(s, {i}, [status |-> "rejected"])
            [] req.op = "review missed"      -> ReviewMissed(s, i, req.action)
            [] req.op = "review all missed"  -> ReviewAllMissed(s, O, req.action)
            [] req.op = "delete"             -> Delete(s, i)
            [] req.op = "delete instance"    -> Delete(CreateNext(s, i), i)
            [] req.op = "maintain"           -> Maintain(s)
    BY DEF Outcome, Owned
  <1> HIDE DEF O, s, i, req
  <1>6. CASE req.op = "create"
    <2>1. req.input \in Input /\ O = {} /\ Starts(s, {})
      BY <1>1, <1>2, <1>6, TasksAssumption
    <2>2. Outcome(t) = Create(s, req.input)
      BY <1>5, <1>6
    <2>3. GoodBut(Create(s, req.input), {}, {})
      BY <2>1, CreateGood
    <2> QED
      BY <2>1, <2>2, <2>3 DEF O
  <1>7. CASE req.op = "update"
    <2>1. /\ O = {i} /\ i \in 1..last /\ Starts(s, {i}) /\ EditedNow(i) /\ req.edit \in Edits
          /\ task[i].status \notin {"approved", "deleted"}
      BY <1>2, <1>3, <1>4, <1>7 DEF WithId, Fits, Exists
    <2>2. Outcome(t) = Update(s, i, req.edit)
      BY <1>5, <1>7
    <2>3. GoodBut(Update(s, i, req.edit), {i}, {})
      BY <2>1, UpdateGood
    <2> QED
      BY <2>1, <2>2, <2>3 DEF O
  <1>8. CASE req.op = "set active"
    <2>1. /\ O = {i} /\ i \in 1..last /\ Starts(s, {i}) /\ req.to \in BOOLEAN
          /\ task[i].status # "deleted"
      BY <1>2, <1>3, <1>8 DEF WithId, Exists
    <2>2. Outcome(t) = SetActive(s, i, req.to)
      BY <1>5, <1>8
    <2>3. GoodBut(SetActive(s, i, req.to), {i}, {})
      BY <2>1, SetActiveGood
    <2> QED
      BY <2>1, <2>2, <2>3 DEF O
  <1>9. CASE req.op = "submit"
    <2>1. O = {i} /\ i \in 1..last /\ Starts(s, {i}) /\ task[i].status # "approved"
      BY <1>3, <1>9 DEF WithId, Fits, Pending, Missed
    <2>2. Outcome(t) = Set(s, {i}, [status |-> "submitted"])
      BY <1>5, <1>9
    <2>3. GoodBut(Set(s, {i}, [status |-> "submitted"]), {i}, {})
      BY <2>1, StatusGood
    <2> QED
      BY <2>1, <2>2, <2>3 DEF O
  <1>10. CASE req.op = "submit and approve"
    <2>1. /\ O = {i} /\ i \in 1..last /\ Starts(s, {i})
          /\ task[i].status \notin {"approved", "deleted"}
      BY <1>3, <1>10 DEF WithId, Fits, Pending
    <2>2. Outcome(t) = Approve(s, i)
      BY <1>5, <1>10
    <2>3. GoodBut(Approve(s, i), {i}, {})
      BY <2>1, ApproveAlone
    <2> QED
      BY <2>1, <2>2, <2>3 DEF O
  <1>11. CASE req.op = "report missed"
    <2>1. O = {i} /\ i \in 1..last /\ Starts(s, {i}) /\ Pending(task[i])
      BY <1>3, <1>11 DEF WithId, Fits
    <2>2. Outcome(t) = CreateNext(Set(s, {i}, [status |-> "missed_submitted"]), i)
      BY <1>5, <1>11
    <2>3. GoodBut(CreateNext(Set(s, {i}, [status |-> "missed_submitted"]), i), {i}, {})
      BY <2>1, ReportAlone
    <2> QED
      BY <2>1, <2>2, <2>3 DEF O
  <1>12. CASE req.op = "review"
    <2>1. O = {i} /\ i \in 1..last /\ Starts(s, {i}) /\ task[i].status = "submitted"
      BY <1>3, <1>12 DEF WithId, Fits
    <2>2. GoodBut(Approve(s, i), {i}, {})
      BY <2>1, ApproveAlone
    <2>3. GoodBut(Set(s, {i}, [status |-> "rejected"]), {i}, {})
      BY <2>1, StatusGood
    <2>4. Outcome(t) \in {Approve(s, i), Set(s, {i}, [status |-> "rejected"])}
      BY <1>5, <1>12
    <2> QED
      BY <2>1, <2>2, <2>3, <2>4 DEF O
  <1>13. CASE req.op = "review missed"
    <2>1. O = {i} /\ i \in 1..last /\ Starts(s, {i}) /\ Missed(task[i])
      BY <1>3, <1>13 DEF WithId, Fits
    <2>2. Outcome(t) = ReviewMissed(s, i, req.action)
      BY <1>5, <1>13
    <2>3. GoodBut(ReviewMissed(s, i, req.action), {i}, {})
      BY <2>1, ReviewAlone
    <2> QED
      BY <2>1, <2>2, <2>3 DEF O
  <1>14. CASE req.op = "review all missed"
    <2>1. O \subseteq 1..last /\ Starts(s, O) /\ \A j \in O : Missed(task[j])
      BY <1>1, <1>14 DEF Fits
    <2>2. Outcome(t) = ReviewAllMissed(s, O, req.action)
      BY <1>5, <1>14
    <2>3. GoodBut(ReviewAllMissed(s, O, req.action), O, {})
      BY <2>1, ReviewAllGood
    <2> QED
      BY <2>2, <2>3 DEF O
  <1>15. CASE req.op = "delete"
    <2>1. O = {i} /\ i \in 1..last /\ Starts(s, {i})
      BY <1>3, <1>15 DEF WithId
    <2>2. Outcome(t) = Delete(s, i)
      BY <1>5, <1>15
    <2>3. GoodBut(Delete(s, i), {i}, {})
      BY <2>1, DeleteAlone
    <2> QED
      BY <2>1, <2>2, <2>3 DEF O
  <1>16. CASE req.op = "delete instance"
    <2>1. O = {i} /\ i \in 1..last /\ Starts(s, {i})
      BY <1>3, <1>16 DEF WithId
    <2>2. Outcome(t) = Delete(CreateNext(s, i), i)
      BY <1>5, <1>16
    <2>3. GoodBut(Delete(CreateNext(s, i), i), {i}, {})
      BY <2>1, DeleteInstanceAlone
    <2> QED
      BY <2>1, <2>2, <2>3 DEF O
  <1>17. CASE req.op = "maintain"
    <2>1. O \subseteq 1..last /\ Starts(s, O) /\ s.candidates = O /\ \A j \in O : Pending(task[j])
      BY <1>1, <1>17 DEF Fits
    <2>2. \A j \in O : ~EditedNow(j)
      <3>1. request[t].op # "update"
        BY <1>17 DEF req
      <3> QED
        BY <3>1, HeldAlone DEF O
    <2>3. Outcome(t) = Maintain(s)
      BY <1>5, <1>17
    <2>4. GoodBut(Maintain(s), O, {})
      BY <2>1, <2>2, MaintainGood
    <2> QED
      BY <2>3, <2>4 DEF O
  <1>18. req.op \in WithId => req.op \in {"update", "set active", "submit", "submit and approve",
           "report missed", "delete", "delete instance", "review", "review missed"}
    BY DEF WithId
  <1> QED
    BY <1>2, <1>6, <1>7, <1>8, <1>9, <1>10, <1>11, <1>12, <1>13, <1>14, <1>15, <1>16, <1>17, <1>18

-----------------------------------------------------------------------------
(* A commit *)

(* A charge is remembered in the row until its due date changes.           *)
ChargesKept ==
  \A i \in Ids :
    /\ charged[i] <= 1
    /\ charged[i] = 1 => \/ task[i].status = "deleted"
                         \/ task[i].due # NoDue /\ task[i].applied >= task[i].due

(* The inductive invariant.                                                *)
Inv == TypeOK /\ Locking /\ PaidOnce /\ ChargesKept

(* The row that is not there. *)
LEMMA BlankType ==
  NoRow \in Row /\ Blank \in [Ids -> Row] /\ NoRow.status = "none"
  BY TasksAssumption DEF NoRow, Row, Blank, Kinds, Recurring, Due, NoDue

(* What a commit does to a row: it is written as the session has it, or a  *)
(* row that nobody locked becomes inactive, or it stays as it is.          *)
LEMMA WriteRows ==
  ASSUME RowLocks, TypeOK, Locking, NEW t \in Threads, Write(t)
  PROVE  /\ GoodBut(Outcome(t), Owned(t), {})
         /\ task' \in [Ids -> Row]
         /\ \A i \in Ids : i \in Owned(t) \/ i > last => task'[i] = Outcome(t).own[i]
         /\ \A i \in Ids : i <= last /\ i \notin Owned(t) =>
              \/ task'[i] = task[i]
              \/ /\ owner[i] = None /\ Exists(task[i])
                 /\ task'[i] = [task[i] EXCEPT !.active = FALSE]
  <1> DEFINE s == Outcome(t)
  <1>1. pc[t] = "write" /\ task' = Merged(t, s)
        /\ \A i \in Updated(t, s) : owner[i] \in {t, None} /\ Exists(task[i])
    BY DEF Write
  <1>2. GoodBut(s, Owned(t), {})
    BY <1>1, OutcomeGood
  <1> HIDE DEF s
  <1>3. s \in SessionType /\ s.last \in Nat /\ last \in Nat /\ last <= s.last
        /\ \A i \in Ids : s.own[i] \in Row /\ s.found[i] \in Row /\ GoodAt(s, Owned(t), i)
    BY <1>2, TasksAssumption DEF GoodBut, Bounded, SessionType, TypeOK
  <1>4. ASSUME NEW i \in Ids, i \in Owned(t)
        PROVE  /\ Found(t)[i] = task[i] /\ s.found[i] = s.own[i] /\ ~(i > last) /\ i \in 1..last
               /\ owner[i] = t
    <2>1. Found(t)[i] = task[i] /\ i \in 1..last
      BY <1>1, <1>4, SessionFacts
    <2>2. s.found[i] = s.own[i]
      BY <1>3, <1>4 DEF GoodAt
    <2> QED
      BY <1>3, <1>4, <2>1, <2>2 DEF Owned
  <1>5. ASSUME NEW i \in Ids, i > last PROVE s.found[i] = s.own[i]
    <2>1. GoodAt(s, Owned(t), i) /\ i \in Nat
      BY <1>3 DEF Ids
    <2> QED
      BY <1>3, <1>5, <2>1 DEF GoodAt
  <1>6. \A i \in Ids : task'[i] = IF i > last THEN s.found[i]
                                  ELSE IF i \notin Updated(t, s) THEN task[i]
                                  ELSE IF owner[i] # t THEN [task[i] EXCEPT !.active = FALSE]
                                  ELSE s.found[i]
    BY <1>1 DEF Merged
  <1>7. ASSUME NEW i \in Ids, i \in Owned(t) \/ i > last PROVE task'[i] = s.own[i]
    <2>1. CASE i > last
      BY <1>5, <1>6, <2>1
    <2>2. CASE i \in Owned(t)
      BY <1>4, <1>6, <2>2 DEF Updated
    <2> QED
      BY <1>7, <2>1, <2>2
  <1>8. ASSUME NEW i \in Ids, i <= last, i \notin Owned(t)
        PROVE  \/ task'[i] = task[i]
               \/ /\ owner[i] = None /\ Exists(task[i])
                  /\ task'[i] = [task[i] EXCEPT !.active = FALSE]
    <2>1. ~(i > last) /\ owner[i] # t
      BY <1>3, <1>8 DEF Owned, Ids
    <2>2. CASE i \notin Updated(t, s)
      BY <1>6, <2>1, <2>2
    <2>3. CASE i \in Updated(t, s)
      BY <1>1, <1>6, <2>1, <2>3
    <2> QED
      BY <2>2, <2>3
  <1>9. task' \in [Ids -> Row]
    <2>1. \A i \in Ids : task'[i] \in Row
      <3>1. SUFFICES ASSUME NEW i \in Ids PROVE task'[i] \in Row
        OBVIOUS
      <3>2. task[i] \in Row
        BY DEF TypeOK
      <3>3. [task[i] EXCEPT !.active = FALSE] \in Row
        BY <3>2 DEF Row
      <3> QED
        BY <1>3, <1>6, <3>2, <3>3
    <2>2. task' = [i \in Ids |-> task'[i]]
      BY <1>1 DEF Merged
    <2> QED
      BY <2>1, <2>2
  <1> QED
    BY <1>2, <1>7, <1>8, <1>9 DEF s

(* A commit writes rows that are well formed, and hands out their ids.     *)
LEMMA WriteTypes ==
  ASSUME RowLocks, TypeOK, Locking, NEW t \in Threads, Write(t)
  PROVE  TypeOK'
  <1> DEFINE s == Outcome(t)
  <1>1. /\ pc[t] = "write" /\ last' = s.last /\ serial' = s.serial /\ s.last <= MaxTasks /\ s.serial <= MaxSeries
        /\ credited' = [i \in Ids |-> IF i \in s.credit THEN UpTo2(credited[i] + 1) ELSE credited[i]]
        /\ charged' = [i \in Ids |->
             LET before == IF task'[i].due # task[i].due \/ Forgotten(i) THEN 0 ELSE charged[i]
             IN  IF i \in s.charge THEN UpTo2(before + 1) ELSE before]
        /\ ended' = ended \union Ending(request[t])
        /\ End(t) /\ now' = now
    BY DEF Write
  <1>2. /\ GoodBut(s, Owned(t), {}) /\ task' \in [Ids -> Row]
        /\ \A i \in Ids : i \in Owned(t) \/ i > last => task'[i] = s.own[i]
        /\ \A i \in Ids : i <= last /\ i \notin Owned(t) =>
             \/ task'[i] = task[i]
             \/ Exists(task[i]) /\ task'[i] = [task[i] EXCEPT !.active = FALSE]
    BY WriteRows
  <1> HIDE DEF s
  <1>3. /\ s \in SessionType /\ s.last \in Nat /\ s.serial \in Nat /\ last \in Nat /\ serial \in Nat
        /\ last <= s.last /\ serial <= s.serial /\ MaxTasks \in Nat /\ MaxSeries \in Nat
    BY <1>2, TasksAssumption DEF GoodBut, Bounded, SessionType, TypeOK
  <1>4. last' \in 0..MaxTasks /\ serial' \in 0..MaxSeries
    BY <1>1, <1>3
  <1>5. ASSUME NEW i \in Ids
        PROVE  /\ (task'[i] = NoRow <=> i > last')
               /\ task'[i].kind \in Recurring => task'[i].series # 0 /\ task'[i].due # NoDue
               /\ task'[i].series <= serial'
    <2>1. i \in Nat /\ GoodAt(s, Owned(t), i) /\ task[i] \in Row
      BY <1>2 DEF GoodBut, Ids, TypeOK
    <2>2. NoRow.status = "none" /\ NoRow.kind \notin Recurring /\ NoRow.series = 0
      BY DEF NoRow, Recurring
    <2>3. CASE i > s.last
      <3>1. task'[i] = NoRow
        BY <1>2, <1>3, <2>1, <2>3 DEF GoodAt
      <3> QED
        BY <1>1, <1>3, <2>2, <2>3, <3>1
    <2>4. CASE last < i /\ i <= s.last
      <3>1. task'[i] = s.own[i] /\ WellFormed(s.own[i], s.serial)
        BY <1>2, <1>3, <2>1, <2>4 DEF GoodAt
      <3> QED
        BY <1>1, <1>3, <2>1, <2>2, <2>4, <3>1 DEF WellFormed
    <2>5. CASE i <= last /\ i \in Owned(t)
      <3>1. task'[i] = s.own[i] /\ WellFormed(s.own[i], s.serial)
        BY <1>2, <2>1, <2>5 DEF GoodAt
      <3> QED
        BY <1>1, <1>3, <2>1, <2>2, <2>5, <3>1 DEF WellFormed
    <2>6. CASE i <= last /\ i \notin Owned(t)
      <3>1. /\ task[i] # NoRow
            /\ task[i].kind \in Recurring => task[i].series # 0 /\ task[i].due # NoDue
            /\ task[i].series <= serial
        BY <1>3, <2>1, <2>6 DEF TypeOK
      <3>2. /\ task'[i].kind = task[i].kind /\ task'[i].series = task[i].series
            /\ task'[i].due = task[i].due /\ task'[i] # NoRow
        <4>1. CASE task'[i] = task[i]
          BY <3>1, <4>1
        <4>2. CASE Exists(task[i]) /\ task'[i] = [task[i] EXCEPT !.active = FALSE]
          <5>1. task'[i].status # "none"
            BY <2>1, <4>2 DEF Exists, Row
          <5> QED
            BY <2>1, <2>2, <4>2, <5>1 DEF Row
        <4> QED
          BY <1>2, <2>6, <4>1, <4>2
      <3>3. task[i].series \in Nat
        BY <2>1 DEF Row
      <3> QED
        BY <1>1, <1>3, <2>1, <2>6, <3>1, <3>2, <3>3
    <2> QED
      BY <1>3, <2>1, <2>3, <2>4, <2>5, <2>6
  <1>6. credited' \in [Ids -> 0..2] /\ charged' \in [Ids -> 0..2]
    <2>1. \A n \in 0..2 : UpTo2(n + 1) \in 0..2
      BY DEF UpTo2
    <2>2. credited \in [Ids -> 0..2] /\ charged \in [Ids -> 0..2]
      BY DEF TypeOK
    <2>3. credited' \in [Ids -> 0..2]
      BY <1>1, <2>1, <2>2
    <2>4. charged' \in [Ids -> 0..2]
      BY <1>1, <2>1, <2>2
    <2> QED
      BY <2>3, <2>4
  <1>7. ended' \subseteq 1..serial'
    <2>1. request[t] \in Request
      BY <1>1, SessionFacts
    <2>2. ASSUME NEW i \in Ids PROVE {task[i].series} \ {0} \subseteq 1..serial'
      <3>1. task[i].series \in Nat /\ task[i].series <= serial
        BY DEF TypeOK, Row
      <3> QED
        BY <1>1, <1>3, <3>1
    <2>3. request[t].op \in {"delete", "set active", "update"} => request[t].id \in Ids
      BY <2>1, RequestFacts DEF WithId
    <2>4. Ending(request[t]) \in {{}, {task[request[t].id].series} \ {0}}
      BY DEF Ending
    <2>5. request[t].op \notin {"delete", "set active", "update"} => Ending(request[t]) = {}
      BY DEF Ending
    <2>6. Ending(request[t]) \subseteq 1..serial'
      BY <2>2, <2>3, <2>4, <2>5
    <2>7. ended \subseteq 1..serial'
      BY <1>1, <1>3 DEF TypeOK
    <2> QED
      BY <1>1, <2>6, <2>7
  <1>8. /\ owner' \in [Ids -> Threads \union {None}] /\ begun' \in 0..MaxRequests
        /\ pc' \in [Threads -> {"idle", "query", "write"}]
        /\ request' \in [Threads -> Request \union {NoRequest}]
        /\ seen' \in [Threads -> [Ids -> Row]] /\ now' \in 0..MaxTime
    BY <1>1, BlankType DEF End, TypeOK
  <1> QED
    BY <1>2, <1>4, <1>5, <1>6, <1>7, <1>8 DEF TypeOK

-----------------------------------------------------------------------------
(* The steps, and what each keeps *)

(* The rows that a thread does not hold are let go by no other thread.     *)
LEMMA EndKeeps ==
  ASSUME TypeOK, Locking, NEW t \in Threads, End(t), last' \in Nat, last' >= last,
         \A i \in Ids, u \in Threads \ {t} : owner[i] = u => task'[i] = task[i]
  PROVE  Locking'
  <1>1. /\ pc' = [pc EXCEPT ![t] = "idle"] /\ request' = [request EXCEPT ![t] = NoRequest]
        /\ seen' = [seen EXCEPT ![t] = Blank]
        /\ owner' = [i \in Ids |-> IF owner[i] = t THEN None ELSE owner[i]]
        /\ None \notin Threads /\ last \in Nat
        /\ pc \in [Threads -> {"idle", "query", "write"}]
        /\ request \in [Threads -> Request \union {NoRequest}] /\ seen \in [Threads -> [Ids -> Row]]
    BY TasksAssumption DEF End, TypeOK
  <1>2. ASSUME NEW u \in Threads PROVE pc'[u] # "idle" => request'[u] \in Request
    BY <1>1 DEF Locking
  <1>3. ASSUME NEW u \in Threads, NEW i \in Ids PROVE HeldRow(u, i)'
    <2>1. CASE u = t
      BY <1>1, <2>1 DEF HeldRow
    <2>2. CASE u # t
      <3>1. HeldRow(u, i) /\ pc'[u] = pc[u] /\ request'[u] = request[u] /\ seen'[u] = seen[u]
        BY <1>1, <2>2 DEF Locking
      <3>2. owner'[i] = u <=> owner[i] = u
        BY <1>1, <2>2
      <3>3. owner[i] = u => task'[i] = task[i]
        BY <2>2
      <3>4. i \in Nat
        BY DEF Ids
      <3>5. (i <= last => i <= last') /\ (i > last' => i > last)
        BY <1>1, <3>4
      <3> QED
        BY <3>1, <3>2, <3>3, <3>5 DEF HeldRow, Fits
    <2> QED
      BY <2>1, <2>2
  <1> QED
    BY <1>2, <1>3 DEF Locking

(* A request begins: it locks rows that are free and permit it. *)
LEMMA BeginKeeps ==
  ASSUME RowLocks, TypeOK, Locking, NEW t \in Threads, NEW req \in Request, Begin(t, req)
  PROVE  TypeOK' /\ Locking'
  <1>1. /\ pc[t] = "idle" /\ Accepted(req)
        /\ \A i \in Selected(req) : owner[i] = None
        /\ owner' = [i \in Ids |-> IF i \in Selected(req) THEN t ELSE owner[i]]
        /\ pc' = [pc EXCEPT ![t] = IF Looks(req) THEN "query" ELSE "write"]
        /\ seen' = seen /\ request' = [request EXCEPT ![t] = req]
        /\ begun' \in 0..MaxRequests
        /\ now' = now /\ task' = task /\ last' = last /\ serial' = serial
        /\ credited' = credited /\ charged' = charged /\ ended' = ended
    <2>1. begun' \in 0..MaxRequests
      <3>1. begun \in 0..MaxRequests /\ MaxRequests \in Nat
        BY TasksAssumption DEF TypeOK
      <3>2. begun' = begun \/ (begun < MaxRequests /\ begun' = begun + 1)
        BY DEF Begin
      <3> QED
        BY <3>1, <3>2
    <2> QED
      BY <2>1 DEF Begin, tables
  <1>2. TypeOK'
    BY <1>1 DEF TypeOK
  <1>3. /\ None \notin Threads /\ last \in Nat
        /\ pc \in [Threads -> {"idle", "query", "write"}]
        /\ request \in [Threads -> Request \union {NoRequest}]
    BY TasksAssumption DEF TypeOK
  <1>4. ASSUME NEW i \in Ids, i \in Selected(req)
        PROVE  i <= last /\ Exists(task[i]) /\ Fits(req, i)
    <2>1. Exists(task[i]) /\ Fits(req, i)
      <3>1. CASE req.op = "maintain"
        BY <1>4, <3>1 DEF Selected, Candidates, Fits, Exists, Pending
      <3>2. CASE req.op = "review all missed"
        BY <1>4, <3>2 DEF Selected, Missed, Fits, Exists
      <3>3. CASE req.op \notin {"maintain", "review all missed"}
        <4>1. i \in Named(req)
          BY <1>4, <3>3 DEF Selected
        <4>2. Exists(task[i]) /\ Permits(task[i], req.op)
          BY <1>1, <4>1 DEF Accepted
        <4> QED
          BY <3>3, <4>1, <4>2 DEF Permits, Fits
      <3> QED
        BY <3>1, <3>2, <3>3
    <2>2. task[i] # NoRow
      BY <2>1 DEF Exists, NoRow
    <2>3. i <= last
      BY <1>3, <2>2 DEF TypeOK, Ids
    <2> QED
      BY <2>1, <2>3
  <1>5. ASSUME NEW i \in Ids, i \in Named(req) PROVE i \in Selected(req)
    <2>1. req.op \in WithId
      BY <1>5, RequestFacts
    <2> QED
      BY <1>5, <2>1 DEF Selected, WithId
  <1>6. ASSUME NEW u \in Threads, NEW i \in Ids PROVE HeldRow(u, i)'
    <2>1. HeldRow(u, i)
      BY DEF Locking
    <2>2. CASE u = t
      <3>1. /\ request'[t] = req /\ pc'[t] # "idle" /\ (pc'[t] = "write" => ~Looks(req))
        BY <1>1, <1>3
      <3>2. owner[i] # t
        BY <1>1, <2>1, <2>2 DEF HeldRow
      <3>3. owner'[i] = t <=> i \in Selected(req)
        BY <1>1, <3>2
      <3>4. Fits(req, i)' <=> Fits(req, i)
        BY <1>1 DEF Fits
      <3>5. Exists(task'[i]) <=> Exists(task[i])
        BY <1>1
      <3> QED
        BY <1>1, <1>4, <1>5, <2>2, <3>1, <3>3, <3>4, <3>5 DEF HeldRow, Fits
    <2>3. CASE u # t
      <3>1. pc'[u] = pc[u] /\ request'[u] = request[u] /\ seen'[u] = seen[u]
        BY <1>1, <2>3
      <3>2. owner'[i] = u <=> owner[i] = u
        BY <1>1, <1>3, <2>3
      <3> QED
        BY <1>1, <2>1, <3>1, <3>2 DEF HeldRow, Fits
    <2> QED
      BY <2>2, <2>3
  <1>7. ASSUME NEW u \in Threads PROVE pc'[u] # "idle" => request'[u] \in Request
    BY <1>1, <1>3 DEF Locking
  <1> QED
    BY <1>2, <1>6, <1>7 DEF Locking

(* A request looks for other rows: what it holds is as it reads it. *)
LEMMA QueryKeeps ==
  ASSUME RowLocks, TypeOK, Locking, NEW t \in Threads, Query(t)
  PROVE  TypeOK' /\ Locking'
  <1>1. /\ pc[t] = "query" /\ pc' = [pc EXCEPT ![t] = "write"] /\ seen' = [seen EXCEPT ![t] = task]
        /\ now' = now /\ task' = task /\ last' = last /\ serial' = serial
        /\ credited' = credited /\ charged' = charged /\ ended' = ended
        /\ owner' = owner /\ begun' = begun /\ request' = request
    BY DEF Query, tables
  <1>2. TypeOK'
    BY <1>1 DEF TypeOK
  <1>3. /\ pc \in [Threads -> {"idle", "query", "write"}] /\ seen \in [Threads -> [Ids -> Row]]
    BY DEF TypeOK
  <1>4. ASSUME NEW u \in Threads, NEW i \in Ids PROVE HeldRow(u, i)'
    <2>1. HeldRow(u, i)
      BY DEF Locking
    <2>2. CASE u = t
      <3>1. pc'[t] = "write" /\ seen'[t] = task /\ (i > last => task[i] = NoRow)
        BY <1>1, <1>3 DEF TypeOK
      <3> QED
        BY <1>1, <2>1, <2>2, <3>1 DEF HeldRow, Fits
    <2>3. CASE u # t
      <3>1. pc'[u] = pc[u] /\ seen'[u] = seen[u]
        BY <1>1, <2>3
      <3> QED
        BY <1>1, <2>1, <3>1 DEF HeldRow, Fits
    <2> QED
      BY <2>2, <2>3
  <1>5. ASSUME NEW u \in Threads PROVE pc'[u] # "idle" => request'[u] \in Request
    BY <1>1, <1>3 DEF Locking
  <1> QED
    BY <1>2, <1>4, <1>5 DEF Locking

(* A commit changes no row that another request holds. *)
LEMMA WriteKeepsLocks ==
  ASSUME RowLocks, TypeOK, Locking, NEW t \in Threads, Write(t)
  PROVE  Locking'
  <1> DEFINE s == Outcome(t)
  <1>1. /\ End(t) /\ last' = s.last
        /\ GoodBut(s, Owned(t), {})
        /\ \A i \in Ids : i <= last /\ i \notin Owned(t) =>
             \/ task'[i] = task[i]
             \/ owner[i] = None /\ Exists(task[i]) /\ task'[i] = [task[i] EXCEPT !.active = FALSE]
    BY WriteRows DEF Write
  <1> HIDE DEF s
  <1>2. last' \in Nat /\ last' >= last
    BY <1>1 DEF GoodBut, Bounded, SessionType
  <1>3. ASSUME NEW i \in Ids, NEW u \in Threads \ {t}, owner[i] = u PROVE task'[i] = task[i]
    <2>1. i <= last /\ i \notin Owned(t) /\ owner[i] # None
      BY <1>3, TasksAssumption DEF Locking, HeldRow, Owned
    <2> QED
      BY <1>1, <2>1
  <1> QED
    BY <1>1, <1>2, <1>3, EndKeeps

(* A request ends without a commit. *)
LEMMA EndOnly ==
  ASSUME TypeOK, Locking, NEW t \in Threads, End(t), UNCHANGED <<now, tables>>
  PROVE  TypeOK' /\ Locking'
  <1>1. /\ task' = task /\ last' = last /\ serial' = serial /\ credited' = credited
        /\ charged' = charged /\ ended' = ended /\ now' = now
    BY DEF tables
  <1>2. last' \in Nat /\ last' >= last
    BY <1>1, TasksAssumption DEF TypeOK
  <1>3. Locking'
    BY <1>1, <1>2, EndKeeps
  <1>4. TypeOK'
    BY <1>1, BlankType DEF End, TypeOK
  <1> QED
    BY <1>3, <1>4

(* The ledger and the rows, when a session commits.                        *)
LEMMA WriteKeepsPaid ==
  ASSUME RowLocks, TypeOK, Locking, PaidOnce, NEW t \in Threads, Write(t)
  PROVE  PaidOnce'
  <1> DEFINE s == Outcome(t)
  <1>1. credited' = [i \in Ids |-> IF i \in s.credit THEN UpTo2(credited[i] + 1) ELSE credited[i]]
    BY DEF Write
  <1>2. /\ GoodBut(s, Owned(t), {})
        /\ \A i \in Ids : i \in Owned(t) \/ i > last => task'[i] = s.own[i]
        /\ \A i \in Ids : i <= last /\ i \notin Owned(t) =>
             \/ task'[i] = task[i]
             \/ Exists(task[i]) /\ task'[i] = [task[i] EXCEPT !.active = FALSE]
    BY WriteRows
  <1>3. pc[t] = "write"
    BY DEF Write
  <1>4. \A i \in Owned(t) : i \in Ids /\ Exists(task[i]) /\ i <= last
    <2>1. Owned(t) \subseteq 1..last /\ \A i \in Owned(t) : i \in Ids /\ Exists(task[i])
      BY <1>3, SessionFacts
    <2> QED
      BY <2>1
  <1> HIDE DEF s
  <1>5. s.credit \subseteq Owned(t) /\ last \in Nat /\ s.last \in Nat
    BY <1>2, TasksAssumption DEF GoodBut, Bounded, TypeOK, SessionType
  <1>6. ASSUME NEW i \in Ids
        PROVE  /\ credited'[i] <= 1
               /\ task'[i].status = "approved" => credited'[i] = 1
               /\ credited'[i] = 1 => task'[i].status \in {"approved", "deleted"}
    <2>1. /\ credited[i] \in 0..2 /\ credited[i] <= 1
          /\ task[i].status = "approved" => credited[i] = 1
          /\ credited[i] = 1 => task[i].status \in {"approved", "deleted"}
          /\ task[i] \in Row /\ i \in Nat /\ GoodAt(s, Owned(t), i)
      BY <1>2 DEF PaidOnce, TypeOK, Ids, GoodBut
    <2>2. CASE i \in Owned(t) /\ i \in s.credit
      <3>1. task'[i].status = "approved" /\ task[i].status \notin {"approved", "deleted"}
        BY <1>2, <2>1, <2>2 DEF GoodAt, PaidRow
      <3>2. credited[i] = 0
        BY <2>1, <3>1
      <3>3. credited'[i] = 1
        BY <1>1, <2>2, <3>2 DEF UpTo2
      <3> QED
        BY <3>1, <3>3
    <2>3. CASE i \in Owned(t) /\ i \notin s.credit
      <3>1. credited'[i] = credited[i] /\ task'[i] = s.own[i]
        BY <1>1, <1>2, <2>3
      <3>2. /\ s.own[i].status = "approved" => task[i].status = "approved"
            /\ task[i].status = "approved" => s.own[i].status \in {"approved", "deleted"}
        BY <2>1, <2>3 DEF GoodAt, PaidRow
      <3>3. task[i].status # "deleted"
        BY <1>4, <2>3 DEF Exists
      <3> QED
        BY <2>1, <3>1, <3>2, <3>3
    <2>4. CASE i > last
      <3>1. credited'[i] = credited[i] /\ task'[i] = s.own[i]
        BY <1>1, <1>2, <1>4, <1>5, <2>1, <2>4
      <3>2. task[i].status = "none"
        BY <2>1, <2>4, BlankType DEF TypeOK
      <3>3. credited[i] # 1
        BY <2>1, <3>2
      <3>4. s.own[i].status \in {"open", "none"}
        <4>1. CASE i <= s.last
          BY <2>1, <2>4, <4>1 DEF GoodAt
        <4>2. CASE i > s.last
          BY <2>1, <4>2, BlankType DEF GoodAt
        <4> QED
          BY <1>5, <2>1, <4>1, <4>2
      <3> QED
        BY <2>1, <3>1, <3>3, <3>4
    <2>5. CASE i <= last /\ i \notin Owned(t)
      <3>1. credited'[i] = credited[i]
        BY <1>1, <1>5, <2>5
      <3>2. task'[i].status = task[i].status
        BY <1>2, <2>1, <2>5 DEF Row
      <3> QED
        BY <2>1, <3>1, <3>2
    <2> QED
      BY <1>5, <2>1, <2>2, <2>3, <2>4, <2>5
  <1> QED
    BY <1>6 DEF PaidOnce

(* The penalties and the rows, when a session commits. *)
LEMMA WriteKeepsCharges ==
  ASSUME RowLocks, TypeOK, Locking, ChargesKept, NEW t \in Threads, Write(t)
  PROVE  ChargesKept'
  <1> DEFINE s == Outcome(t)
  <1>1. charged' = [i \in Ids |->
             LET before == IF task'[i].due # task[i].due \/ Forgotten(i) THEN 0 ELSE charged[i]
             IN  IF i \in s.charge THEN UpTo2(before + 1) ELSE before]
    BY DEF Write
  <1>2. /\ GoodBut(s, Owned(t), {})
        /\ \A i \in Ids : i \in Owned(t) \/ i > last => task'[i] = s.own[i]
        /\ \A i \in Ids : i <= last /\ i \notin Owned(t) =>
             \/ task'[i] = task[i]
             \/ Exists(task[i]) /\ task'[i] = [task[i] EXCEPT !.active = FALSE]
    BY WriteRows
  <1>3. pc[t] = "write"
    BY DEF Write
  <1>4. \A i \in Owned(t) : i \in Ids /\ Exists(task[i]) /\ i <= last
    <2>1. Owned(t) \subseteq 1..last /\ \A i \in Owned(t) : i \in Ids /\ Exists(task[i])
      BY <1>3, SessionFacts
    <2> QED
      BY <2>1
  <1> HIDE DEF s
  <1>5. /\ s.charge \subseteq Owned(t) \union {i \in Ids : last < i /\ i <= s.last}
        /\ last \in Nat /\ s.last \in Nat /\ s \in SessionType
    BY <1>2, TasksAssumption DEF GoodBut, Bounded, TypeOK, SessionType
  <1>6. UpTo2(1) = 1
    BY DEF UpTo2
  <1>7. ASSUME NEW i \in Ids
        PROVE  /\ charged'[i] <= 1
               /\ charged'[i] = 1 => \/ task'[i].status = "deleted"
                                     \/ task'[i].due # NoDue /\ task'[i].applied >= task'[i].due
    <2>1. /\ charged[i] \in 0..2 /\ charged[i] <= 1
          /\ charged[i] = 1 => \/ task[i].status = "deleted"
                               \/ task[i].due # NoDue /\ task[i].applied >= task[i].due
          /\ task[i] \in Row /\ i \in Nat /\ GoodAt(s, Owned(t), i) /\ s.own[i] \in Row
      <3>1. i \in Nat /\ GoodAt(s, Owned(t), i) /\ s.own[i] \in Row
        <4>1. i \in Nat /\ GoodAt(s, Owned(t), i)
          BY <1>2 DEF Ids, GoodBut
        <4>2. s.own[i] \in Row
          BY <1>5 DEF SessionType
        <4> QED
          BY <4>1, <4>2
      <3>2. charged[i] \in 0..2 /\ task[i] \in Row
        BY DEF TypeOK
      <3> QED
        BY <3>1, <3>2 DEF ChargesKept
    <2>2. /\ task[i].due \in Int /\ task[i].applied \in Int
          /\ s.own[i].due \in Int /\ s.own[i].applied \in Int
      BY <2>1 DEF Row, Due, NoDue
    <2>3. charged'[i] = LET before == IF task'[i].due # task[i].due \/ Forgotten(i) THEN 0 ELSE charged[i]
                        IN  IF i \in s.charge THEN UpTo2(before + 1) ELSE before
      BY <1>1
    <2>4. CASE i \in Owned(t)
      <3>1. task'[i] = s.own[i] /\ task[i].status # "deleted" /\ ChargedRow(i, s.own[i], s.charge)
        BY <1>2, <1>4, <2>1, <2>4 DEF GoodAt, Exists
      <3>2. CASE i \in s.charge
        <4>1. s.own[i].status = "deleted" \/ (s.own[i].due # NoDue /\ s.own[i].applied >= s.own[i].due)
          BY <3>1, <3>2 DEF ChargedRow
        <4>2. s.own[i].due = task[i].due => charged[i] = 0
          <5>1. SUFFICES ASSUME s.own[i].due = task[i].due PROVE charged[i] = 0
            OBVIOUS
          <5>2. task[i].due = NoDue \/ task[i].applied < task[i].due
            BY <3>1, <3>2, <5>1 DEF ChargedRow
          <5> QED
            BY <2>1, <2>2, <3>1, <5>2
        <4>3. charged'[i] = 1
          BY <1>6, <2>3, <3>1, <3>2, <4>2
        <4> QED
          BY <3>1, <4>1, <4>3
      <3>3. CASE i \notin s.charge
        <4>1. CASE s.own[i].due # task[i].due \/ Forgotten(i)
          BY <2>3, <3>1, <3>3, <4>1
        <4>2. CASE s.own[i].due = task[i].due /\ ~Forgotten(i)
          <5>1. charged'[i] = charged[i]
            BY <2>3, <3>1, <3>3, <4>2
          <5>2. s.own[i].status = "deleted" \/ s.own[i].applied >= task[i].applied
            BY <2>2, <3>1, <3>3, <4>2 DEF ChargedRow, Forgotten
          <5>3. charged[i] = 1 => task[i].due # NoDue /\ task[i].applied >= task[i].due
            BY <2>1, <3>1
          <5> QED
            BY <2>1, <2>2, <3>1, <4>2, <5>1, <5>2, <5>3
        <4> QED
          BY <4>1, <4>2
      <3> QED
        BY <3>2, <3>3
    <2>5. CASE i > last
      <3>1. task'[i] = s.own[i]
        BY <1>2, <2>5
      <3>2. task[i] = NoRow
        BY <2>5 DEF TypeOK
      <3>3. charged[i] = 0
        BY <2>1, <3>2 DEF NoRow
      <3>4. CASE i \in s.charge
        <4>1. i <= s.last
          BY <1>4, <1>5, <2>1, <2>5, <3>4
        <4>2. s.own[i].due # NoDue /\ s.own[i].applied >= s.own[i].due
          BY <2>1, <2>5, <3>4, <4>1 DEF GoodAt
        <4>3. charged'[i] = 1
          BY <1>6, <2>3, <3>3, <3>4
        <4> QED
          BY <3>1, <4>2, <4>3
      <3>5. CASE i \notin s.charge
        BY <2>3, <3>3, <3>5
      <3> QED
        BY <3>4, <3>5
    <2>6. CASE i <= last /\ i \notin Owned(t)
      <3>1. /\ task'[i].due = task[i].due /\ task'[i].status = task[i].status
            /\ task'[i].applied = task[i].applied
        BY <1>2, <2>1, <2>6 DEF Row
      <3>2. i \notin s.charge
        BY <1>5, <2>1, <2>6
      <3>3. charged'[i] = charged[i]
        BY <2>3, <3>1, <3>2 DEF Forgotten
      <3> QED
        BY <2>1, <3>1, <3>3
    <2> QED
      BY <1>5, <2>1, <2>4, <2>5, <2>6
  <1> QED
    BY <1>7 DEF ChargesKept

(* A commit makes a submitted row a missed one only by an edit. *)
LEMMA WriteKeepsSubmission ==
  ASSUME RowLocks, TypeOK, Locking, NEW t \in Threads, Write(t), NEW i \in Ids,
         task[i].status = "submitted", task'[i].status = "missed_submitted"
  PROVE  EditedNow(i)
  <1> DEFINE s == Outcome(t)
  <1>1. /\ GoodBut(s, Owned(t), {})
        /\ i \in Owned(t) => task'[i] = s.own[i]
        /\ i <= last /\ i \notin Owned(t) =>
             \/ task'[i] = task[i]
             \/ Exists(task[i]) /\ task'[i] = [task[i] EXCEPT !.active = FALSE]
    BY WriteRows
  <1> HIDE DEF s
  <1>2. task[i] \in Row /\ GoodAt(s, Owned(t), i) /\ i \in Nat /\ last \in Nat
    BY <1>1, TasksAssumption DEF TypeOK, GoodBut, Ids
  <1>3. i <= last
    <2>1. task[i] # NoRow
      BY DEF NoRow
    <2> QED
      BY <1>2, <2>1 DEF TypeOK
  <1>4. CASE i \in Owned(t)
    BY <1>1, <1>2, <1>4 DEF GoodAt
  <1>5. CASE i \notin Owned(t)
    <2>1. task'[i].status = task[i].status
      BY <1>1, <1>2, <1>3, <1>5 DEF Row
    <2> QED
      BY <2>1
  <1> QED
    BY <1>4, <1>5

-----------------------------------------------------------------------------
(* The theorems *)

(* The empty tables. *)
LEMMA InitInv ==
  ASSUME Init
  PROVE  Inv
  <1>1. /\ now = 0 /\ task = Blank /\ last = 0 /\ serial = 0
        /\ credited = [i \in Ids |-> 0] /\ charged = [i \in Ids |-> 0] /\ ended = {}
        /\ owner = [i \in Ids |-> None] /\ begun = 0 /\ pc = [t \in Threads |-> "idle"]
        /\ request = [t \in Threads |-> NoRequest] /\ seen = [t \in Threads |-> Blank]
    BY DEF Init
  <1>2. MaxTasks \in Nat /\ MaxSeries \in Nat /\ MaxRequests \in Nat /\ MaxTime \in Nat
        /\ None \notin Threads
    BY TasksAssumption
  <1>3. /\ Blank \in [Ids -> Row] /\ NoRow.kind \notin Recurring /\ NoRow.series = 0
        /\ NoRow.status = "none" /\ \A i \in Ids : task[i] = NoRow
    BY <1>1, BlankType DEF NoRow, Recurring, Blank
  <1>4. \A i \in Ids : i > last
    BY <1>1 DEF Ids
  <1>5. TypeOK
    BY <1>1, <1>2, <1>3, <1>4 DEF TypeOK
  <1>6. Locking
    BY <1>1, <1>2 DEF Locking, HeldRow
  <1>7. PaidOnce /\ ChargesKept
    BY <1>1, <1>3 DEF PaidOnce, ChargesKept
  <1> QED
    BY <1>5, <1>6, <1>7 DEF Inv

(* Steps that do not touch the tables. *)
LEMMA SameTables ==
  ASSUME PaidOnce, ChargesKept, UNCHANGED tables
  PROVE  PaidOnce' /\ ChargesKept'
  <1>1. task' = task /\ credited' = credited /\ charged' = charged
    BY DEF tables
  <1> QED
    BY <1>1 DEF PaidOnce, ChargesKept

(* Steps that touch neither the rows nor a thread. *)
LEMMA SameLocking ==
  ASSUME Locking, task' = task, last' = last, UNCHANGED threads
  PROVE  Locking'
  <1>1. owner' = owner /\ pc' = pc /\ request' = request /\ seen' = seen
    BY DEF threads
  <1>2. ASSUME NEW t \in Threads, NEW i \in Ids PROVE HeldRow(t, i)'
    <2>1. HeldRow(t, i)
      BY DEF Locking
    <2>2. Fits(request[t], i)' <=> Fits(request[t], i)
      BY <1>1 DEF Fits
    <2> QED
      BY <1>1, <2>1, <2>2 DEF HeldRow
  <1>3. \A t \in Threads : pc'[t] # "idle" => request'[t] \in Request
    BY <1>1 DEF Locking
  <1> QED
    BY <1>2, <1>3 DEF Locking

(* The clock. *)
LEMMA TickKeeps ==
  ASSUME Inv, Tick
  PROVE  Inv'
  <1>1. /\ now' = now + 1 /\ now < MaxTime /\ now \in 0..MaxTime /\ MaxTime \in Nat
        /\ task' = task /\ last' = last /\ serial' = serial /\ credited' = credited
        /\ charged' = charged /\ ended' = ended /\ owner' = owner /\ begun' = begun /\ pc' = pc
        /\ request' = request /\ seen' = seen
    BY TasksAssumption DEF Tick, tables, threads, Inv, TypeOK
  <1>2. TypeOK'
    <2>1. now' \in 0..MaxTime
      BY <1>1
    <2> QED
      BY <1>1, <2>1 DEF Inv, TypeOK
  <1>3. Locking'
    BY <1>1, SameLocking DEF Inv, Tick
  <1>4. PaidOnce' /\ ChargesKept'
    <2>1. UNCHANGED tables
      BY DEF Tick
    <2> QED
      BY <2>1, SameTables DEF Inv
  <1> QED
    BY <1>2, <1>3, <1>4 DEF Inv

(* Every step keeps the invariant. *)
LEMMA StepInv ==
  ASSUME RowLocks, Inv, [Next]_vars
  PROVE  Inv'
  <1>1. TypeOK /\ Locking /\ PaidOnce /\ ChargesKept
    BY DEF Inv
  <1>2. ASSUME TypeOK', Locking', UNCHANGED tables PROVE Inv'
    <2>1. PaidOnce' /\ ChargesKept'
      BY <1>1, <1>2, SameTables
    <2> QED
      BY <1>2, <2>1 DEF Inv
  <1>3. CASE Tick
    BY <1>3, TickKeeps
  <1>4. ASSUME NEW t \in Threads, NEW req \in Request, Begin(t, req) PROVE Inv'
    <2>1. TypeOK' /\ Locking'
      BY <1>1, <1>4, BeginKeeps
    <2>2. UNCHANGED tables
      BY <1>4 DEF Begin
    <2> QED
      BY <1>2, <2>1, <2>2
  <1>5. ASSUME NEW t \in Threads, Query(t) PROVE Inv'
    <2>1. TypeOK' /\ Locking'
      BY <1>1, <1>5, QueryKeeps
    <2>2. UNCHANGED tables
      BY <1>5 DEF Query
    <2> QED
      BY <1>2, <2>1, <2>2
  <1>6. ASSUME NEW t \in Threads, Write(t) PROVE Inv'
    <2>1. TypeOK' /\ Locking' /\ PaidOnce'
      BY <1>1, <1>6, WriteTypes, WriteKeepsLocks, WriteKeepsPaid
    <2>2. ChargesKept'
      BY <1>1, <1>6, WriteKeepsCharges
    <2> QED
      BY <2>1, <2>2 DEF Inv
  <1>7. ASSUME NEW t \in Threads, Fail(t) \/ AbortDeadlocked(t) PROVE Inv'
    <2>1. End(t) /\ UNCHANGED <<now, tables>>
      BY <1>7 DEF Fail, AbortDeadlocked
    <2>2. TypeOK' /\ Locking'
      BY <1>1, <2>1, EndOnly
    <2> QED
      BY <1>2, <2>1, <2>2
  <1>8. CASE UNCHANGED vars
    <2>1. /\ now' = now /\ owner' = owner /\ begun' = begun /\ pc' = pc /\ request' = request
          /\ seen' = seen /\ UNCHANGED tables
      BY <1>8 DEF vars, threads
    <2>2. /\ task' = task /\ last' = last /\ serial' = serial /\ credited' = credited
          /\ charged' = charged /\ ended' = ended
      BY <2>1 DEF tables
    <2>3. TypeOK'
      BY <1>1, <2>1, <2>2 DEF TypeOK
    <2>4. Locking'
      BY <1>1, <1>8, <2>2, SameLocking DEF vars
    <2> QED
      BY <1>2, <2>1, <2>3, <2>4
  <1> QED
    BY <1>3, <1>4, <1>5, <1>6, <1>7, <1>8 DEF Next, Continue

(* The invariant, of which the theorems are parts. *)
LEMMA AlwaysInv ==
  ASSUME RowLocks
  PROVE  Spec => []Inv
  <1>1. Init => Inv
    BY InitInv
  <1>2. Inv /\ [Next]_vars => Inv'
    BY StepInv
  <1> QED
    BY <1>1, <1>2, PTL DEF Spec

(* Under row locks the tables and the sessions are well typed: ids are       *)
(* handed out without gaps, every recurring row has a series and a due date, *)
(* no row is of a series that was not begun.                                 *)
THEOREM TypeCorrect ==
  ASSUME RowLocks
  PROVE  Spec => []TypeOK
  <1>1. Inv => TypeOK
    BY DEF Inv
  <1> QED
    BY <1>1, AlwaysInv, PTL

(* Under row locks a task is paid for when it is approved, and once:         *)
(* whatever submissions, edits, reviews, reports and sweeps meet on it, in   *)
(* any number of threads.                                                    *)
THEOREM PaidOnceAlways ==
  ASSUME RowLocks
  PROVE  Spec => []PaidOnce
  <1>1. Inv => PaidOnce
    BY DEF Inv
  <1> QED
    BY <1>1, AlwaysInv, PTL

(* Under row locks the minus points for one due date are taken once, by the  *)
(* worker or by a parent, until an edit gives the task another due date or   *)
(* switches its penalty off, which forgets that they were taken.             *)
THEOREM ChargedOnceAlways ==
  ASSUME RowLocks
  PROVE  Spec => []ChargedOnce
  <1>1. Inv => ChargedOnce
    BY DEF Inv, ChargedOnce, ChargesKept
  <1> QED
    BY <1>1, AlwaysInv, PTL

(* Under row locks a submitted task becomes a missed one by the edit of a    *)
(* parent only, never by the maintenance or a report that was under way.     *)
THEOREM SubmissionAlwaysKept ==
  ASSUME RowLocks
  PROVE  Spec => SubmissionKept
  <1>1. Inv /\ [Next]_vars =>
          [\A i \in Ids : (task[i].status = "submitted" /\ task'[i].status = "missed_submitted") =>
             \E t \in Threads : pc[t] = "write" /\ request[t].op = "update" /\ request[t].id = i]_vars
    <2>1. SUFFICES ASSUME Inv, Next, NEW i \in Ids, task[i].status = "submitted",
                          task'[i].status = "missed_submitted"
                   PROVE  EditedNow(i)
      BY DEF EditedNow
    <2>2. task' # task
      BY <2>1
    <2>3. ASSUME NEW t \in Threads, Continue(t) PROVE Write(t)
      BY <2>2, <2>3 DEF Continue, Query, Fail, AbortDeadlocked, tables
    <2>4. PICK t \in Threads : Write(t)
      BY <2>1, <2>2, <2>3 DEF Next, Tick, Begin, tables
    <2> QED
      BY <2>1, <2>4, WriteKeepsSubmission DEF Inv
  <1> QED
    BY <1>1, AlwaysInv, PTL DEF Spec, SubmissionKept

=============================================================================

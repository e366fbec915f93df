--------------------------- MODULE HouseholdProofs ---------------------------
(***************************************************************************)
(* The components of a household that share no state, one after the other: *)
(*                                                                         *)
(*   Families      the household keeps an administrator on PostgreSQL, for *)
(*                 every number of users and of requests at the same time; *)
(*   SpecialTasks  on PostgreSQL the quota of special tasks is kept, for   *)
(*                 every number of children, tasks and claims at the same  *)
(*                 time and every length of a day;                         *)
(*   Reminders     a device shows a reminder once for each alert that has  *)
(*                 no record, and once more, and misses it only for a      *)
(*                 reason, for every number of devices and of processes    *)
(*                 that sweep;                                             *)
(*   LoginLimiter  while a key is not forgotten it gets, within the reach  *)
(*                 of the limit, as many wrong guesses as are allowed and  *)
(*                 one for each other request under way, for every limit,  *)
(*                 window, block, number of keys and of requests.          *)
(*                                                                         *)
(* At the end: the specification of the household that is model-checked    *)
(* implies those of its components, and its variables keep their types.    *)
(***************************************************************************)
EXTENDS MCHousehold, AchievementsProofs, SequenceTheorems, FunctionTheorems

-----------------------------------------------------------------------------
(* Families                                                                *)

LEMMA InitGoverned == FamiliesInit => GovernedSafely
  BY HandlersAssumption, FamiliesAssumption
  DEF HandlersAssumption, FamiliesAssumption, FamiliesInit, GovernedSafely, FamiliesTypeOK,
      HouseholdGoverned, Existing, Admins, Request, NoRequest, Roles, Demotes

(* What the end of a session leaves of the requests and the locks.         *)
LEMMA RequestEnds ==
  ASSUME FamiliesTypeOK, NEW t \in Threads, Ends(t)
  PROVE  /\ familyOwner' \in Threads \union {None}
         /\ bootstrapOwner' \in Threads \union {None}
         /\ member' \in [Threads -> Request]
         /\ member'[t] = NoRequest
         /\ \A s \in Threads : s # t =>
              /\ member'[s] = member[s]
              /\ familyOwner = s => familyOwner' = s
              /\ bootstrapOwner = s => bootstrapOwner' = s
  BY HandlersAssumption
  DEF HandlersAssumption, FamiliesTypeOK, Ends, Request, NoRequest, Roles

(* A new user is nobody's member yet, so nobody loses a role.              *)
LEMMA NewUserAdds ==
  ASSUME GovernedSafely, NEW u \in Users, NEW r \in Roles, NewUser(u, r)
  PROVE  /\ role' \in [Users -> Roles \union {"none"}]
         /\ Existing' = Existing \union {u}
         /\ active' \in [Existing' -> BOOLEAN] /\ Existing' \subseteq Users
         /\ \A v \in Users : v # u => role'[v] = role[v]
         /\ role'[u] = r
         /\ Admins \subseteq Admins'
  <1>1. Existing' = Existing \union {u}
    BY DEF NewUser, Existing
  <1>2. active' \in [Existing' -> BOOLEAN] /\ Existing' \subseteq Users
    BY <1>1 DEF NewUser, GovernedSafely, FamiliesTypeOK
  <1>3. role[u] = "none"
    BY DEF NewUser, GovernedSafely
  <1>4. role \in [Users -> Roles \union {"none"}]
    BY DEF GovernedSafely, FamiliesTypeOK
  <1>5. role' = [role EXCEPT ![u] = r]
    BY DEF NewUser
  <1>6. role' \in [Users -> Roles \union {"none"}]
    BY <1>4, <1>5
  <1>7. \A v \in Users : v # u => role'[v] = role[v]
    BY <1>4, <1>5
  <1>8. role'[u] = r
    BY <1>4, <1>5
  <1> QED
    BY <1>1, <1>2, <1>3, <1>6, <1>7, <1>8 DEF Admins

(* The steps of the bootstrap. *)
LEMMA BootstrapSafe ==
  ASSUME GovernedSafely, NEW t \in Threads,
         BeginBootstrap(t) \/ FindNoUser(t) \/ Bootstrap(t)
  PROVE  GovernedSafely'
  <1>1. CASE BeginBootstrap(t)
    <2>1. FamiliesTypeOK'
      BY <1>1 DEF GovernedSafely, FamiliesTypeOK, BeginBootstrap, household, Existing, Request,
                  NoRequest, Roles
    <2>2. \A s \in Threads : s # t => member'[s] = member[s] /\ member[s].op # "bootstrap"
      BY <1>1, HandlersAssumption
      DEF HandlersAssumption, GovernedSafely, FamiliesTypeOK, BeginBootstrap
    <2>3. member'[t] = [NoRequest EXCEPT !.pc = "begun", !.op = "bootstrap"]
      BY <1>1 DEF GovernedSafely, FamiliesTypeOK, BeginBootstrap
    <2> QED
      BY <1>1, <2>1, <2>2, <2>3
      DEF GovernedSafely, HouseholdGoverned, BeginBootstrap, household, Existing, Admins, Demotes,
          NoRequest
  <1>2. CASE FindNoUser(t)
    <2>1. CASE Existing = {} /\ Goes(t, "checked") /\ UNCHANGED <<familyOwner, bootstrapOwner>>
      BY <1>2, <2>1
      DEF GovernedSafely, FamiliesTypeOK, HouseholdGoverned, FindNoUser, At, Goes, household,
          Existing, Admins, Demotes, Request
    <2>2. CASE Ends(t)
      BY <1>2, <2>2, RequestEnds
      DEF GovernedSafely, FamiliesTypeOK, HouseholdGoverned, FindNoUser, household, Existing,
          Admins, Demotes, NoRequest
    <2> QED
      BY <1>2, <2>1, <2>2 DEF FindNoUser
  <1>3. CASE Bootstrap(t)
    <2>1. PICK u \in Users : NewUser(u, "admin")
      BY <1>3 DEF Bootstrap
    <2>2. Existing = {} /\ founded = 0 /\ founded' = 1 /\ Ends(t)
      BY <1>3 DEF Bootstrap, At, GovernedSafely, FamiliesTypeOK
    <2>3. \A s \in Threads : member[s].op \notin {"create", "update", "delete"}
      BY <2>2 DEF GovernedSafely
    <2>4. \A s \in Threads : s # t => member[s].op # "bootstrap"
      BY <1>3, HandlersAssumption DEF HandlersAssumption, GovernedSafely, Bootstrap, At
    <2>5. /\ Existing' = {u} /\ Admins' # {}
          /\ \A v \in Users : role'[v] # "none" => v \in Existing'
      BY <2>1, <2>2, NewUserAdds DEF Roles, Admins, GovernedSafely
    <2>6. FamiliesTypeOK'
      BY <2>1, <2>2, NewUserAdds, RequestEnds DEF GovernedSafely, FamiliesTypeOK, Roles
    <2> QED
      BY <2>2, <2>3, <2>4, <2>5, <2>6, RequestEnds
      DEF GovernedSafely, HouseholdGoverned, Demotes, NoRequest
  <1> QED
    BY <1>1, <1>2, <1>3

(* The statements that change nothing but their own request. *)
LEMMA ReadSafe ==
  ASSUME RowLocks, GovernedSafely, NEW t \in Threads,
         BeginChange(t) \/ FindNewMember(t) \/ LockFamily(t) \/ ExamineMember(t)
  PROVE  GovernedSafely'
  <1>1. CASE BeginChange(t)
    <2>1. PICK op \in {"create", "update", "delete"}, caller \in Users,
               target \in Existing \union {None}, r \in Roles, a \in BOOLEAN :
            /\ Authorize(t, op, caller, target, r, a)
            /\ op # "create" => target \in Existing
      BY <1>1 DEF BeginChange, Roles
    <2>2. /\ member' = [member EXCEPT ![t] = member'[t]]
          /\ member'[t] = [pc |-> "begun", op |-> op, target |-> target, own |-> target = caller,
                           role |-> r, active |-> a, seen |-> "none"]
      BY <2>1 DEF Authorize, GovernedSafely, FamiliesTypeOK
    <2>3. member'[t] \in Request
      BY <2>1, <2>2 DEF Request, Roles, GovernedSafely, FamiliesTypeOK
    <2> QED
      BY <2>1, <2>2, <2>3
      DEF Authorize, GovernedSafely, FamiliesTypeOK, HouseholdGoverned, household, Existing,
          Admins, Demotes
  <1>2. CASE FindNewMember(t)
    <2>1. CASE Goes(t, "checked") /\ UNCHANGED <<familyOwner, bootstrapOwner>>
      BY <1>2, <2>1
      DEF GovernedSafely, FamiliesTypeOK, HouseholdGoverned, FindNewMember, At, Goes, household,
          Existing, Admins, Demotes, Request
    <2>2. CASE Ends(t)
      BY <1>2, <2>2, RequestEnds
      DEF GovernedSafely, FamiliesTypeOK, HouseholdGoverned, FindNewMember, household, Existing,
          Admins, Demotes, NoRequest
    <2> QED
      BY <1>2, <2>1, <2>2 DEF FindNewMember
  <1>3. CASE LockFamily(t)
    <2>1. familyOwner = None /\ familyOwner' = t
      BY <1>3 DEF LockFamily, RowIsFree, Taken
    <2> QED
      BY <1>3, <2>1, HandlersAssumption
      DEF HandlersAssumption, GovernedSafely, FamiliesTypeOK, HouseholdGoverned, LockFamily, At,
          Goes, household, Existing, Admins, Demotes, Request
  <1>4. CASE ExamineMember(t)
    <2>1. CASE /\ role[member[t].target] # "none" /\ ~LosesLastAdmin(t)
               /\ member' = [member EXCEPT ![t].pc = "checked", ![t].seen = RoleRead(t)]
               /\ UNCHANGED <<familyOwner, bootstrapOwner>>
      <3>1. member[t].target \in Users /\ Admins # {}
        BY <1>4 DEF ExamineMember, At, GovernedSafely, FamiliesTypeOK, HouseholdGoverned
      <3>2. RoleRead(t) \in Roles \union {"none"}
        BY <3>1 DEF RoleRead, GovernedSafely, FamiliesTypeOK, Roles
      <3>3. member' \in [Threads -> Request]
        <4>1. member \in [Threads -> Request] /\ member[t] \in Request
          BY DEF GovernedSafely, FamiliesTypeOK
        <4>2. [member[t] EXCEPT !.pc = "checked", !.seen = RoleRead(t)] \in Request
          BY <3>2, <4>1 DEF Request
        <4>3. member' = [member EXCEPT ![t] = [member[t] EXCEPT !.pc = "checked", !.seen = RoleRead(t)]]
          BY <2>1, <4>1 DEF Request
        <4> QED
          BY <4>1, <4>2, <4>3
      <3>4. Demotes(t)' => \E v \in Admins : v # member[t].target
        <4>1. CASE RoleRead(t) = "admin"
          BY <1>4, <2>1, <4>1
          DEF ExamineMember, At, LosesLastAdmin, OneAdmin, Demotes, GovernedSafely, FamiliesTypeOK
        <4>2. CASE RoleRead(t) # "admin"
          BY <3>1, <4>2 DEF RoleRead, Admins
        <4> QED
          BY <4>1, <4>2
      <3>5. /\ \A s \in Threads : s # t => member'[s] = member[s]
            /\ member'[t].op = member[t].op /\ member'[t].target = member[t].target
        BY <2>1 DEF GovernedSafely, FamiliesTypeOK
      <3>6. UNCHANGED <<Existing, Admins, founded, role, active>>
        BY <1>4 DEF ExamineMember, household, Existing, Admins
      <3> QED
        BY <1>4, <2>1, <3>3, <3>4, <3>5, <3>6
        DEF ExamineMember, At, GovernedSafely, FamiliesTypeOK, HouseholdGoverned, Demotes
    <2>2. CASE Ends(t)
      BY <1>4, <2>2, RequestEnds
      DEF GovernedSafely, FamiliesTypeOK, HouseholdGoverned, ExamineMember, household, Existing,
          Admins, Demotes, NoRequest
    <2> QED
      BY <1>4, <2>1, <2>2 DEF ExamineMember
  <1> QED
    BY <1>1, <1>2, <1>3, <1>4

(* A commit keeps the rest of the invariant when no other request loses    *)
(* the administrator it relies on.                                         *)
LEMMA RemovalSafe ==
  ASSUME GovernedSafely, NEW t \in Threads, Ends(t), Existing # {}, UNCHANGED founded,
         role' \in [Users -> Roles \union {"none"}],
         Existing \subseteq Existing', Existing' \subseteq Users,
         active' \in [Existing' -> BOOLEAN],
         \A u \in Users : role'[u] # "none" => u \in Existing',
         Admins' # {},
         \A s \in Threads \ {t} : Demotes(s) => \E v \in Admins' : v # member[s].target
  PROVE  GovernedSafely'
  <1>1. FamiliesTypeOK'
    BY RequestEnds DEF GovernedSafely, FamiliesTypeOK
  <1>2. \A s \in Threads : member[s].op = "bootstrap" /\ member[s].pc = "checked" => Existing = {}
    BY DEF GovernedSafely
  <1> QED
    BY <1>1, <1>2, RequestEnds DEF GovernedSafely, HouseholdGoverned, Demotes, NoRequest

LEMMA InsertMemberSafe ==
  ASSUME GovernedSafely, NEW t \in Threads, InsertMember(t)
  PROVE  GovernedSafely'
  <1>1. /\ Existing # {} /\ Ends(t) /\ UNCHANGED founded /\ Admins # {}
        /\ member[t].role \in Roles
    BY DEF InsertMember, At, GovernedSafely, HouseholdGoverned, FamiliesTypeOK, Request
  <1>2. \A s \in Threads : Demotes(s) => \E v \in Admins : v # member[s].target
    BY DEF GovernedSafely
  <1>3. CASE member[t].target = None /\ \E v \in Users : NewUser(v, member[t].role)
    <2>1. PICK v \in Users : NewUser(v, member[t].role)
      BY <1>3
    <2>2. /\ Admins \subseteq Admins'
          /\ role' \in [Users -> Roles \union {"none"}]
          /\ active' \in [Existing' -> BOOLEAN] /\ Existing' \subseteq Users
          /\ Existing' = Existing \union {v}
          /\ \A u \in Users : u # v => role'[u] = role[u]
      BY <1>1, <2>1, NewUserAdds
    <2>3. \A u \in Users : role'[u] # "none" => u \in Existing'
      BY <2>2 DEF GovernedSafely
    <2> QED
      BY <1>1, <1>2, <2>2, <2>3, RemovalSafe
  <1>4. CASE /\ member[t].target # None /\ role[member[t].target] = "none"
             /\ role' = [role EXCEPT ![member[t].target] = member[t].role]
             /\ UNCHANGED active
    <2>1. Existing' = Existing
      BY <1>4 DEF Existing
    <2>2. Admins \subseteq Admins'
      BY <1>4 DEF Admins, GovernedSafely, FamiliesTypeOK
    <2>3. role' \in [Users -> Roles \union {"none"}]
      BY <1>1, <1>4 DEF GovernedSafely, FamiliesTypeOK
    <2>4. \A u \in Users : role'[u] # "none" => u \in Existing'
      BY <1>1, <1>4, <2>1 DEF GovernedSafely, FamiliesTypeOK
    <2>5. Admins' # {} /\ active' \in [Existing' -> BOOLEAN] /\ Existing' \subseteq Users
      <3>1. active \in [Existing -> BOOLEAN] /\ Existing \subseteq Users
        BY DEF GovernedSafely, FamiliesTypeOK
      <3>2. active' = active
        BY <1>4
      <3> QED
        BY <1>1, <2>1, <2>2, <3>1, <3>2
    <2>6. \A s \in Threads \ {t} : Demotes(s) => \E v \in Admins' : v # member[s].target
      BY <1>2, <2>2
    <2> QED
      BY <1>1, <2>1, <2>3, <2>4, <2>5, <2>6, RemovalSafe
  <1>5. CASE UNCHANGED <<role, active>>
    BY <1>1, <1>2, <1>5, RemovalSafe DEF GovernedSafely, FamiliesTypeOK, Existing, Admins
  <1> QED
    BY <1>3, <1>4, <1>5 DEF InsertMember

(* The family row serialises the commits that take a role away: no other   *)
(* request can be past its examination.                                    *)
LEMMA ChangeSafe ==
  ASSUME GovernedSafely, NEW t \in Threads, UpdateMember(t) \/ DeleteMember(t)
  PROVE  GovernedSafely'
  <1>1. /\ familyOwner = t /\ Ends(t) /\ UNCHANGED founded /\ Existing # {}
        /\ member[t].target \in Users /\ Admins # {} /\ member[t].role \in Roles
        /\ member[t].active \in BOOLEAN
    BY DEF UpdateMember, DeleteMember, At, GovernedSafely, HouseholdGoverned, FamiliesTypeOK, Request
  <1>2. \A s \in Threads \ {t} : ~Demotes(s)
    BY <1>1 DEF GovernedSafely, Demotes
  <1>3. role \in [Users -> Roles \union {"none"}] /\ active \in [Existing -> BOOLEAN]
    BY DEF GovernedSafely, FamiliesTypeOK
  <1>4. CASE UpdateMember(t)
    <2>1. Existing' = Existing /\ active' \in [Existing' -> BOOLEAN]
      BY <1>1, <1>3, <1>4 DEF UpdateMember, Existing
    <2>2. CASE role' = role
      BY <1>1, <1>2, <1>3, <2>1, <2>2, RemovalSafe DEF GovernedSafely, FamiliesTypeOK, Admins
    <2>3. CASE role' = [role EXCEPT ![member[t].target] = member[t].role]
      <3>1. Admins' # {}
        <4>1. CASE member[t].role = "admin"
          BY <1>1, <1>3, <2>3, <4>1 DEF Admins
        <4>2. CASE member[t].role = "member"
          <5>1. PICK v \in Admins : v # member[t].target
            BY <1>4, <4>2 DEF UpdateMember, At, GovernedSafely, Demotes
          <5> QED
            BY <1>3, <2>3, <5>1 DEF Admins
        <4> QED
          BY <1>1, <4>1, <4>2 DEF Roles
      <3>2. \A u \in Users : role'[u] # "none" => u \in Existing'
        BY <1>1, <1>3, <1>4, <2>1, <2>3 DEF GovernedSafely, UpdateMember
      <3>3. role' \in [Users -> Roles \union {"none"}]
        BY <1>1, <1>3, <2>3
      <3> QED
        BY <1>1, <1>2, <2>1, <3>1, <3>2, <3>3, RemovalSafe DEF GovernedSafely, FamiliesTypeOK
    <2> QED
      BY <1>4, <2>2, <2>3 DEF UpdateMember
  <1>5. CASE DeleteMember(t)
    <2>1. role' = [role EXCEPT ![member[t].target] = "none"] /\ UNCHANGED active
      BY <1>5 DEF DeleteMember
    <2>2. PICK v \in Admins : v # member[t].target
      BY <1>5 DEF DeleteMember, At, GovernedSafely, Demotes
    <2>3. Admins' # {}
      BY <1>3, <2>1, <2>2 DEF Admins
    <2>4. /\ Existing' = Existing /\ active' \in [Existing' -> BOOLEAN]
          /\ role' \in [Users -> Roles \union {"none"}]
          /\ \A u \in Users : role'[u] # "none" => u \in Existing'
      BY <1>3, <2>1 DEF Existing, GovernedSafely
    <2> QED
      BY <1>1, <1>2, <2>3, <2>4, RemovalSafe DEF GovernedSafely, FamiliesTypeOK
  <1> QED
    BY <1>4, <1>5

(* With row locks every request finds the household governed and leaves it *)
(* so: get_family_for_update serialises the changes of roles.              *)
THEOREM GovernedAlways == ASSUME RowLocks PROVE FamiliesSpec => []HouseholdGoverned
  <1>1. ASSUME GovernedSafely, [FamiliesNext]_familyVars
        PROVE  GovernedSafely'
    <2>1. CASE FamiliesNext
      <3>1. PICK t \in Threads :
              \/ BeginBootstrap(t) \/ FindNoUser(t) \/ Bootstrap(t)
              \/ BeginChange(t) \/ FindNewMember(t) \/ InsertMember(t)
              \/ LockFamily(t) \/ ExamineMember(t) \/ UpdateMember(t) \/ DeleteMember(t)
        BY <2>1 DEF FamiliesNext
      <3> QED
        BY <1>1, <3>1, BootstrapSafe, ReadSafe, InsertMemberSafe, ChangeSafe
    <2>2. CASE UNCHANGED familyVars
      BY <1>1, <2>2
      DEF familyVars, household, GovernedSafely, FamiliesTypeOK, HouseholdGoverned, Existing,
          Admins, Demotes
    <2> QED
      BY <1>1, <2>1, <2>2
  <1>2. GovernedSafely => HouseholdGoverned
    BY DEF GovernedSafely
  <1> QED
    BY <1>1, <1>2, InitGoverned, PTL DEF FamiliesSpec

(* Types, on both databases: whoever is changed or removed is a user.       *)
Named == \A t \in Threads : member[t].op \in {"update", "delete"} => member[t].target \in Users

FamiliesKept == FamiliesTypeOK /\ Named

LEMMA InitFamiliesKept == FamiliesInit => FamiliesKept
  BY DEF FamiliesInit, FamiliesKept, Named, FamiliesTypeOK, Existing, Request, NoRequest, Roles

LEMMA MemberKept ==
  ASSUME FamiliesKept, NEW t \in Threads, NEW r \in Request,
         member' = [member EXCEPT ![t] = r], UNCHANGED household,
         r.op \in {"update", "delete"} => r.target \in Users,
         familyOwner' \in {familyOwner, t, None}, bootstrapOwner' \in {bootstrapOwner, t}
  PROVE  FamiliesKept'
  <1>1. /\ member' \in [Threads -> Request] /\ member'[t] = r
        /\ \A s \in Threads : s # t => member'[s] = member[s]
    BY DEF FamiliesKept, FamiliesTypeOK
  <1>2. Named'
    BY <1>1 DEF FamiliesKept, Named
  <1>3. FamiliesTypeOK'
    BY <1>1 DEF FamiliesKept, FamiliesTypeOK, household, Existing
  <1> QED
    BY <1>2, <1>3 DEF FamiliesKept

(* The end of a request, with what it wrote. *)
LEMMA EndKept ==
  ASSUME FamiliesKept, NEW t \in Threads, Ends(t),
         founded' \in Nat, role' \in [Users -> Roles \union {"none"}],
         Existing' \subseteq Users, active' \in [Existing' -> BOOLEAN]
  PROVE  FamiliesKept'
  <1>1. FamiliesTypeOK'
    BY RequestEnds DEF FamiliesKept, FamiliesTypeOK
  <1>2. Named'
    BY RequestEnds DEF FamiliesKept, Named, NoRequest
  <1> QED
    BY <1>1, <1>2 DEF FamiliesKept

LEMMA LeaveKept ==
  ASSUME FamiliesKept, NEW t \in Threads, Ends(t), UNCHANGED household
  PROVE  FamiliesKept'
  <1>1. Existing' = Existing
    BY DEF household, Existing
  <1> QED
    BY <1>1, EndKept DEF FamiliesKept, FamiliesTypeOK, household

LEMMA NewUserTypes ==
  ASSUME FamiliesKept, NEW u \in Users, NEW r \in Roles, NewUser(u, r)
  PROVE  /\ role' \in [Users -> Roles \union {"none"}]
         /\ Existing' \subseteq Users /\ active' \in [Existing' -> BOOLEAN]
  <1>1. Existing' = Existing \union {u}
    BY DEF NewUser, Existing
  <1> QED
    BY <1>1 DEF NewUser, FamiliesKept, FamiliesTypeOK

LEMMA BootstrapKept ==
  ASSUME FamiliesKept, NEW t \in Threads, BeginBootstrap(t) \/ FindNoUser(t) \/ Bootstrap(t)
  PROVE  FamiliesKept'
  <1>1. CASE BeginBootstrap(t)
    <2> DEFINE r == [NoRequest EXCEPT !.pc = "begun", !.op = "bootstrap"]
    <2>1. r \in Request /\ r.op = "bootstrap"
      BY DEF NoRequest, Request, Roles
    <2>2. /\ member' = [member EXCEPT ![t] = r] /\ UNCHANGED household
          /\ familyOwner' = familyOwner /\ bootstrapOwner' = t
      BY <1>1 DEF BeginBootstrap
    <2> HIDE DEF r
    <2> QED
      BY <2>1, <2>2, MemberKept
  <1>2. CASE FindNoUser(t)
    <2>1. CASE Goes(t, "checked") /\ UNCHANGED <<familyOwner, bootstrapOwner>>
      <3> DEFINE r == [member[t] EXCEPT !.pc = "checked"]
      <3>1. r \in Request /\ r.op = "bootstrap"
        BY <1>2 DEF FamiliesKept, FamiliesTypeOK, Request, FindNoUser, At
      <3>2. member' = [member EXCEPT ![t] = r] /\ UNCHANGED household
        BY <1>2, <2>1 DEF Goes, FindNoUser, FamiliesKept, FamiliesTypeOK
      <3> HIDE DEF r
      <3> QED
        BY <2>1, <3>1, <3>2, MemberKept
    <2>2. CASE Ends(t)
      BY <1>2, <2>2, LeaveKept DEF FindNoUser
    <2> QED
      BY <1>2, <2>1, <2>2 DEF FindNoUser
  <1>3. CASE Bootstrap(t)
    <2>1. PICK u \in Users : NewUser(u, "admin")
      BY <1>3 DEF Bootstrap
    <2>2. Ends(t) /\ founded' \in Nat
      BY <1>3 DEF Bootstrap, FamiliesKept, FamiliesTypeOK
    <2>3. "admin" \in Roles
      BY DEF Roles
    <2> QED
      BY <2>1, <2>2, <2>3, NewUserTypes, EndKept
  <1> QED
    BY <1>1, <1>2, <1>3

LEMMA ChangeKept ==
  ASSUME FamiliesKept, NEW t \in Threads, BeginChange(t)
  PROVE  FamiliesKept'
  <1>1. PICK op \in {"create", "update", "delete"}, caller \in Users,
             target \in Existing \union {None}, r \in Roles, a \in BOOLEAN :
          Authorize(t, op, caller, target, r, a) /\ (op # "create" => target \in Existing)
    <2>1. PICK caller \in Users, r \in Roles :
            \/ \E target \in Existing \union {None} : Authorize(t, "create", caller, target, r, TRUE)
            \/ \E target \in Existing, a \in BOOLEAN : Authorize(t, "update", caller, target, r, a)
            \/ \E target \in Existing : Authorize(t, "delete", caller, target, "member", TRUE)
      BY DEF BeginChange
    <2>2. "member" \in Roles
      BY DEF Roles
    <2> QED
      BY <2>1, <2>2
  <1> DEFINE q == [pc |-> "begun", op |-> op, target |-> target, own |-> target = caller,
                   role |-> r, active |-> a, seen |-> "none"]
  <1>2. Existing \subseteq Users
    BY DEF FamiliesKept, FamiliesTypeOK
  <1>3. q \in Request
    BY <1>2 DEF Request
  <1>4. q.op \in {"update", "delete"} => q.target \in Users
    BY <1>1, <1>2
  <1>5. /\ member' = [member EXCEPT ![t] = q]
        /\ UNCHANGED <<household, familyOwner, bootstrapOwner>>
    BY <1>1 DEF Authorize
  <1> HIDE DEF q
  <1> QED
    BY <1>3, <1>4, <1>5, MemberKept

LEMMA ReadKept ==
  ASSUME FamiliesKept, NEW t \in Threads, FindNewMember(t) \/ LockFamily(t) \/ ExamineMember(t)
  PROVE  FamiliesKept'
  <1>1. member[t] \in Request /\ (member[t].op \in {"update", "delete"} => member[t].target \in Users)
    BY DEF FamiliesKept, FamiliesTypeOK, Named
  <1>2. ASSUME NEW pc \in {"locked", "checked"}, Goes(t, pc), UNCHANGED household,
               familyOwner' \in {familyOwner, t, None}, UNCHANGED bootstrapOwner
        PROVE  FamiliesKept'
    <2> DEFINE r == [member[t] EXCEPT !.pc = pc]
    <2>1. r \in Request /\ r.op = member[t].op /\ r.target = member[t].target
      BY <1>1 DEF Request
    <2>2. member' = [member EXCEPT ![t] = r]
      BY <1>2 DEF Goes, FamiliesKept, FamiliesTypeOK
    <2> HIDE DEF r
    <2> QED
      BY <1>1, <1>2, <2>1, <2>2, MemberKept
  <1>3. CASE FindNewMember(t)
    BY <1>2, <1>3, LeaveKept DEF FindNewMember
  <1>4. CASE LockFamily(t)
    BY <1>2, <1>4 DEF LockFamily, Taken
  <1>5. CASE ExamineMember(t)
    <2>1. CASE /\ member' = [member EXCEPT ![t].pc = "checked", ![t].seen = RoleRead(t)]
               /\ UNCHANGED <<familyOwner, bootstrapOwner>>
      <3> DEFINE seen == RoleRead(t)
                 q == [member[t] EXCEPT !.pc = "checked"]
                 r == [q EXCEPT !.seen = seen]
      <3>1. seen \in Roles \union {"none"}
        BY <1>1, <1>5 DEF RoleRead, Roles, ExamineMember, At, FamiliesKept, FamiliesTypeOK
      <3>2. member' = [member EXCEPT ![t] = r] /\ UNCHANGED household
        BY <1>1, <1>5, <2>1 DEF ExamineMember, FamiliesKept, FamiliesTypeOK, Request
      <3> HIDE DEF seen
      <3>3. q \in Request /\ q.op = member[t].op /\ q.target = member[t].target
        BY <1>1 DEF Request
      <3> HIDE DEF q
      <3>4. r \in Request /\ r.op = member[t].op /\ r.target = member[t].target
        BY <3>1, <3>3 DEF Request
      <3> HIDE DEF r
      <3> QED
        BY <1>1, <2>1, <3>2, <3>4, MemberKept
    <2>2. CASE Ends(t)
      BY <1>5, <2>2, LeaveKept DEF ExamineMember
    <2> QED
      BY <1>5, <2>1, <2>2 DEF ExamineMember
  <1> QED
    BY <1>3, <1>4, <1>5

LEMMA WriteKept ==
  ASSUME FamiliesKept, NEW t \in Threads, InsertMember(t) \/ UpdateMember(t) \/ DeleteMember(t)
  PROVE  FamiliesKept'
  <1>1. /\ member[t] \in Request /\ founded \in Nat /\ "none" \in Roles \union {"none"}
        /\ member[t].role \in Roles /\ member[t].active \in BOOLEAN
    BY DEF FamiliesKept, FamiliesTypeOK, Request
  <1>2. Ends(t) /\ founded' \in Nat
    BY <1>1 DEF InsertMember, UpdateMember, DeleteMember
  <1>3. /\ role' \in [Users -> Roles \union {"none"}]
        /\ Existing' \subseteq Users /\ active' \in [Existing' -> BOOLEAN]
    <2>1. CASE InsertMember(t)
      <3>1. CASE \E v \in Users : NewUser(v, member[t].role)
        BY <1>1, <3>1, NewUserTypes
      <3>2. CASE UNCHANGED active /\ (role' = role \/ role' = [role EXCEPT ![member[t].target] = member[t].role])
        BY <1>1, <3>2 DEF FamiliesKept, FamiliesTypeOK, Existing
      <3> QED
        BY <2>1, <3>1, <3>2 DEF InsertMember
    <2>2. CASE UpdateMember(t)
      BY <1>1, <2>2 DEF UpdateMember, FamiliesKept, FamiliesTypeOK, Existing
    <2>3. CASE DeleteMember(t)
      BY <1>1, <2>3 DEF DeleteMember, FamiliesKept, FamiliesTypeOK, Existing
    <2> QED
      BY <2>1, <2>2, <2>3
  <1> QED
    BY <1>2, <1>3, EndKept

LEMMA NextFamiliesKept == FamiliesKept /\ [FamiliesNext]_familyVars => FamiliesKept'
  <1> SUFFICES ASSUME FamiliesKept, [FamiliesNext]_familyVars PROVE FamiliesKept'
    OBVIOUS
  <1>1. CASE UNCHANGED familyVars
    BY <1>1 DEF familyVars, household, FamiliesKept, Named, FamiliesTypeOK, Existing
  <1> QED
    BY <1>1, BootstrapKept, ChangeKept, ReadKept, WriteKept DEF FamiliesNext

(* On both databases the variables of families and memberships keep their   *)
(* types.                                                                   *)
THEOREM FamiliesTypeCorrect == FamiliesSpec => []FamiliesTypeOK
  <1>1. FamiliesKept => FamiliesTypeOK
    BY DEF FamiliesKept
  <1> QED
    BY <1>1, InitFamiliesKept, NextFamiliesKept, PTL DEF FamiliesSpec

-----------------------------------------------------------------------------
(* SpecialTasks                                                            *)

Placed ==
  /\ SpecialTypeOK
  /\ IsFiniteSet(DOMAIN claimed)

(* What a request knows and keeps: its window and the template's row are   *)
(* its own, the template is active, and after the count a place is free.   *)
Entitled(t) ==
  LET c == claim[t].by IN
  /\ claim[t].pc # "idle" => c \in Claimants
  /\ claim[t].pc \in {"window", "locked", "counted"} => windowOwner[c] = t
  /\ claim[t].pc \in {"locked", "counted"} =>
       rowOwner = t /\ template # None /\ template.active
  /\ claim[t].pc = "counted" => Usage(c) < template.max

Guarded == Placed /\ \A t \in Threads : Entitled(t)

-----------------------------------------------------------------------------
(* Midnight never goes back.                                               *)
LEMMA MidnightAdvances ==
  ASSUME NEW a \in Nat, NEW b \in Nat, a <= b, NEW d \in Nat \ {0}
  PROVE  (a \div d) * d <= (b \div d) * d
  <1> DEFINE p == a \div d
             q == b \div d
  <1>1. /\ p \in Int /\ q \in Int
        /\ p * d <= a /\ b < (q + 1) * d
    OBVIOUS
  <1> HIDE DEF p, q
  <1>2. p * d < (q + 1) * d
    BY <1>1
  <1>3. p <= q
    BY <1>1, <1>2
  <1>4. p * d <= q * d
    BY <1>1, <1>3
  <1> QED
    BY <1>4 DEF p, q

LEMMA TimeTypes ==
  ASSUME SpecialTypeOK
  PROVE  tick \in Nat /\ Midnight \in Int
  <1>1. tick \in Nat /\ TicksPerDay \in Nat \ {0}
    BY SpecialAssumption DEF SpecialAssumption, SpecialTypeOK
  <1> QED
    BY <1>1 DEF Midnight

LEMMA UsageType ==
  ASSUME Placed, NEW c
  PROVE  Usage(c) \in Nat
  <1> DEFINE U == {i \in DOMAIN claimed : claimed[i].by = c /\ claimed[i].made >= Midnight}
  <1>1. IsFiniteSet(U)
    <2>1. U \subseteq DOMAIN claimed
      OBVIOUS
    <2> HIDE DEF U
    <2> QED
      BY <2>1, FS_Subset DEF Placed
  <1> HIDE DEF U
  <1>2. Cardinality(U) \in Nat
    BY <1>1, FS_CardinalityType
  <1> QED
    BY <1>2 DEF U, Usage

(* No claims are added and the clock does not go back.                     *)
Shrinks ==
  /\ DOMAIN claimed' \subseteq DOMAIN claimed
  /\ \A j \in DOMAIN claimed' : /\ claimed'[j] \in ClaimRow
                                /\ claimed'[j].by = claimed[j].by
                                /\ claimed'[j].made = claimed[j].made
  /\ tick' \in Offset..LastTick /\ tick <= tick'

LEMMA ShrinkingFrees ==
  ASSUME Placed, Shrinks
  PROVE  /\ IsFiniteSet(DOMAIN claimed')
         /\ \A c : Usage(c)' <= Usage(c) /\ Usage(c)' \in Nat
  <1>1. IsFiniteSet(DOMAIN claimed')
    BY FS_Subset DEF Placed, Shrinks
  <1>2. Midnight <= Midnight' /\ Midnight \in Int /\ Midnight' \in Int
    <2>1. tick \in Nat /\ tick' \in Nat /\ tick <= tick' /\ TicksPerDay \in Nat \ {0}
      BY SpecialAssumption DEF SpecialAssumption, Placed, SpecialTypeOK, Shrinks
    <2>2. (tick \div TicksPerDay) * TicksPerDay <= (tick' \div TicksPerDay) * TicksPerDay
      BY <2>1, MidnightAdvances
    <2>3. Midnight \in Int /\ Midnight' \in Int
      BY <2>1 DEF Midnight
    <2>4. Midnight <= Midnight'
      BY <2>2, Zenon DEF Midnight
    <2> QED
      BY <2>3, <2>4
  <1>3. ASSUME NEW c PROVE Usage(c)' <= Usage(c) /\ Usage(c)' \in Nat
    <2> DEFINE U == {i \in DOMAIN claimed : claimed[i].by = c /\ claimed[i].made >= Midnight}
               V == {i \in DOMAIN claimed' : claimed'[i].by = c /\ claimed'[i].made >= Midnight'}
    <2>1. U \subseteq DOMAIN claimed
      OBVIOUS
    <2>2. V \subseteq U
      <3>1. ASSUME NEW i \in V PROVE i \in U
        <4>1. /\ i \in DOMAIN claimed' /\ claimed'[i].by = c /\ claimed'[i].made >= Midnight'
          BY <3>1
        <4>2. claimed'[i].made \in Int
          BY <4>1, SpecialAssumption DEF SpecialAssumption, Shrinks, ClaimRow
        <4> QED
          BY <1>2, <4>1, <4>2 DEF Shrinks
      <3> QED
        BY <3>1
    <2> HIDE DEF U, V
    <2>3. IsFiniteSet(U)
      BY <2>1, FS_Subset DEF Placed
    <2>4. IsFiniteSet(V) /\ Cardinality(V) <= Cardinality(U)
      BY <2>2, <2>3, FS_Subset
    <2>5. Cardinality(V) \in Nat
      BY <2>4, FS_CardinalityType
    <2> QED
      BY <2>4, <2>5 DEF U, V, Usage
  <1> QED
    BY <1>1, <1>3

(* The steps outside a claim that leave template and locks alone.          *)
LEMMA ShrinkingSafe ==
  ASSUME Guarded, Shrinks, DOMAIN claimed' \subseteq ClaimIds,
         UNCHANGED <<template, windowOwner, rowOwner, claim>>
  PROVE  Guarded'
  <1>1. Placed'
    BY ShrinkingFrees DEF Guarded, Placed, SpecialTypeOK, Shrinks
  <1>2. ASSUME NEW t \in Threads PROVE Entitled(t)'
    <2>1. Entitled(t)
      BY DEF Guarded
    <2>2. claim[t].pc = "counted" => Usage(claim[t].by)' < template.max
      <3>1. SUFFICES ASSUME claim[t].pc = "counted"
                     PROVE  Usage(claim[t].by)' < template.max
        OBVIOUS
      <3>2. Usage(claim[t].by) < template.max /\ template # None
        BY <2>1, <3>1 DEF Entitled
      <3>3. template.max \in Nat
        BY <3>2, SpecialAssumption
        DEF SpecialAssumption, Guarded, Placed, SpecialTypeOK, TemplateRow
      <3>4. /\ Usage(claim[t].by)' <= Usage(claim[t].by)
            /\ Usage(claim[t].by)' \in Nat /\ Usage(claim[t].by) \in Nat
        BY ShrinkingFrees, UsageType DEF Guarded
      <3> QED
        BY <3>2, <3>3, <3>4
    <2>3. /\ claim' = claim /\ windowOwner' = windowOwner
          /\ rowOwner' = rowOwner /\ template' = template
      OBVIOUS
    <2> QED
      BY <2>1, <2>2, <2>3 DEF Entitled
  <1> QED
    BY <1>1, <1>2 DEF Guarded

-----------------------------------------------------------------------------
(* The statements of a claim before its commit.                            *)

ClaimStates == [pc: {"idle", "begun", "window", "locked", "counted"},
                by: Claimants \union {None}]

(* A step that changes nothing of the others' requests and locks.          *)
OthersKeep(t) ==
  /\ claim' \in [Threads -> ClaimStates]
  /\ windowOwner' \in [Claimants -> Threads \union {None}]
  /\ rowOwner' \in Threads \union {None}
  /\ \A s \in Threads : s # t =>
       /\ claim'[s] = claim[s]
       /\ \A c \in Claimants : windowOwner[c] = s => windowOwner'[c] = s
       /\ rowOwner = s => rowOwner' = s

LEMMA OwnClaim ==
  ASSUME Guarded, NEW t \in Threads, OthersKeep(t), UNCHANGED <<tick, template, claimed>>,
         Entitled(t)'
  PROVE  Guarded'
  <1>1. Placed'
    BY DEF Guarded, Placed, SpecialTypeOK, OthersKeep, ClaimStates
  <1>2. ASSUME NEW s \in Threads, s # t PROVE Entitled(s)'
    <2>1. Entitled(s) /\ claim'[s] = claim[s]
      BY <1>2 DEF Guarded, OthersKeep
    <2>2. claim[s].pc = "counted" => Usage(claim[s].by)' = Usage(claim[s].by)
      BY <2>1 DEF Usage, Midnight
    <2> QED
      BY <1>2, <2>1, <2>2 DEF Entitled, OthersKeep
  <1> QED
    BY <1>1, <1>2 DEF Guarded

(* The end of a claim, with its locks. *)
LEMMA EndsKeeps ==
  ASSUME Guarded, NEW t \in Threads, EndsClaim(t)
  PROVE  OthersKeep(t) /\ claim'[t] = NoClaim
  BY SpecialAssumption
  DEF SpecialAssumption, Guarded, Placed, SpecialTypeOK, EndsClaim, NoClaim, OthersKeep, ClaimStates

LEMMA EndSafe ==
  ASSUME Guarded, NEW t \in Threads, EndsClaim(t), UNCHANGED <<tick, template, claimed>>
  PROVE  Guarded'
  <1>1. Entitled(t)'
    BY EndsKeeps DEF Entitled, NoClaim
  <1> QED
    BY <1>1, EndsKeeps, OwnClaim

LEMMA BeginClaimSafe ==
  ASSUME Guarded, NEW t \in Threads, BeginClaim(t)
  PROVE  Guarded'
  <1>1. claim \in [Threads -> ClaimStates]
    BY DEF Guarded, Placed, SpecialTypeOK, ClaimStates
  <1>2. PICK c \in Claimants : claim' = [claim EXCEPT ![t] = [pc |-> "begun", by |-> c]]
    BY DEF BeginClaim
  <1>3. claim'[t] = [pc |-> "begun", by |-> c] /\ claim' \in [Threads -> ClaimStates]
    BY <1>1, <1>2 DEF ClaimStates
  <1>4. OthersKeep(t)
    BY <1>1, <1>2, <1>3 DEF BeginClaim, OthersKeep, Guarded, Placed, SpecialTypeOK
  <1>5. Entitled(t)'
    BY <1>3 DEF Entitled
  <1> QED
    BY <1>4, <1>5, OwnClaim DEF BeginClaim

LEMMA LockClaimWindowSafe ==
  ASSUME RowLocks, Guarded, NEW t \in Threads, LockClaimWindow(t)
  PROVE  Guarded'
  <1> DEFINE c == claim[t].by
  <1>1. claim \in [Threads -> ClaimStates] /\ c \in Claimants
    BY DEF Guarded, Placed, SpecialTypeOK, ClaimStates, Entitled, LockClaimWindow
  <1>2. /\ windowOwner[c] = None
        /\ windowOwner' = [windowOwner EXCEPT ![c] = t]
        /\ claim' = [claim EXCEPT ![t].pc = "window"]
    BY DEF LockClaimWindow, RowIsFree, Taken
  <1>3. /\ claim'[t].pc = "window" /\ claim'[t].by = c
        /\ claim' \in [Threads -> ClaimStates]
        /\ \A s \in Threads : s # t => claim'[s] = claim[s]
    BY <1>1, <1>2 DEF ClaimStates
  <1>4. windowOwner \in [Claimants -> Threads \union {None}]
    BY DEF Guarded, Placed, SpecialTypeOK
  <1>5. OthersKeep(t)
    BY <1>1, <1>2, <1>3, <1>4, HandlersAssumption
    DEF HandlersAssumption, LockClaimWindow, OthersKeep, Guarded, Placed, SpecialTypeOK
  <1>6. Entitled(t)'
    BY <1>1, <1>2, <1>3, <1>4 DEF Entitled
  <1> QED
    BY <1>5, <1>6, OwnClaim DEF LockClaimWindow

LEMMA LockTemplateSafe ==
  ASSUME RowLocks, Guarded, NEW t \in Threads, LockTemplate(t)
  PROVE  Guarded'
  <1>1. CASE EndsClaim(t)
    BY <1>1, EndSafe DEF LockTemplate
  <1>2. CASE /\ Offered /\ rowOwner' = Taken(t) /\ UNCHANGED windowOwner
             /\ claim' = [claim EXCEPT ![t].pc = "locked"]
    <2>1. claim \in [Threads -> ClaimStates] /\ Entitled(t) /\ claim[t].pc = "window"
      BY DEF Guarded, Placed, SpecialTypeOK, ClaimStates, LockTemplate
    <2>2. /\ claim'[t].pc = "locked" /\ claim'[t].by = claim[t].by
          /\ claim' \in [Threads -> ClaimStates]
          /\ \A s \in Threads : s # t => claim'[s] = claim[s]
      BY <1>2, <2>1 DEF ClaimStates
    <2>3. rowOwner = None /\ rowOwner' = t
      BY <1>2 DEF LockTemplate, RowIsFree, Taken
    <2>4. OthersKeep(t)
      BY <1>2, <2>2, <2>3, HandlersAssumption
      DEF HandlersAssumption, OthersKeep, Guarded, Placed, SpecialTypeOK
    <2>5. Entitled(t)'
      BY <1>2, <2>1, <2>2, <2>3 DEF Entitled, Offered, LockTemplate
    <2> QED
      BY <2>4, <2>5, OwnClaim DEF LockTemplate
  <1> QED
    BY <1>1, <1>2 DEF LockTemplate

LEMMA CountUsageSafe ==
  ASSUME Guarded, NEW t \in Threads, CountUsage(t)
  PROVE  Guarded'
  <1>1. CASE EndsClaim(t)
    BY <1>1, EndSafe DEF CountUsage
  <1>2. CASE /\ Usage(claim[t].by) < template.max
             /\ claim' = [claim EXCEPT ![t].pc = "counted"]
             /\ UNCHANGED <<windowOwner, rowOwner>>
    <2>1. claim \in [Threads -> ClaimStates] /\ Entitled(t) /\ claim[t].pc = "locked"
      BY DEF Guarded, Placed, SpecialTypeOK, ClaimStates, CountUsage
    <2>2. /\ claim'[t].pc = "counted" /\ claim'[t].by = claim[t].by
          /\ claim' \in [Threads -> ClaimStates]
          /\ \A s \in Threads : s # t => claim'[s] = claim[s]
      BY <1>2, <2>1 DEF ClaimStates
    <2>3. OthersKeep(t)
      BY <1>2, <2>2 DEF OthersKeep, Guarded, Placed, SpecialTypeOK
    <2>4. Usage(claim[t].by)' < template.max
      BY <1>2, <2>2 DEF CountUsage, Usage, Midnight
    <2>5. Entitled(t)'
      BY <1>2, <2>1, <2>2, <2>4 DEF Entitled, CountUsage
    <2> QED
      BY <2>3, <2>5, OwnClaim DEF CountUsage
  <1> QED
    BY <1>1, <1>2 DEF CountUsage

-----------------------------------------------------------------------------
(* The commit of a claim.                                                  *)

LEMMA Inserted ==
  ASSUME RowLocks, Guarded, NEW t \in Threads, InsertClaim(t)
  PROVE  \E i \in ClaimIds \ DOMAIN claimed :
           /\ DOMAIN claimed' = DOMAIN claimed \union {i}
           /\ claimed'[i] = [by |-> claim[t].by, made |-> tick - Offset, status |-> "open"]
           /\ claimed'[i] \in ClaimRow
           /\ \A j \in DOMAIN claimed : claimed'[j] = claimed[j]
  <1>1. PICK i \in ClaimIds \ DOMAIN claimed :
          claimed' = [j \in DOMAIN claimed \union {i} |->
                        IF j = i THEN [by |-> claim[t].by, made |-> tick - Offset, status |-> "open"]
                        ELSE claimed[j]]
    BY DEF InsertClaim
  <1>2. claim[t].by \in Claimants
    BY DEF Guarded, Entitled, InsertClaim
  <1>3. tick - Offset \in 0..LastTick - Offset
    BY SpecialAssumption DEF SpecialAssumption, Guarded, Placed, SpecialTypeOK
  <1>4. [by |-> claim[t].by, made |-> tick - Offset, status |-> "open"] \in ClaimRow
    BY <1>2, <1>3 DEF ClaimRow
  <1> QED
    BY <1>1, <1>4

LEMMA InsertClaimSafe ==
  ASSUME RowLocks, Guarded, NEW t \in Threads, InsertClaim(t)
  PROVE  Guarded'
  <1>1. PICK i \in ClaimIds \ DOMAIN claimed :
           /\ DOMAIN claimed' = DOMAIN claimed \union {i}
           /\ claimed'[i] = [by |-> claim[t].by, made |-> tick - Offset, status |-> "open"]
           /\ claimed'[i] \in ClaimRow
           /\ \A j \in DOMAIN claimed : claimed'[j] = claimed[j]
    BY Inserted
  <1>2. OthersKeep(t) /\ claim'[t] = NoClaim /\ UNCHANGED <<tick, template>>
    BY EndsKeeps DEF InsertClaim
  <1>3. Placed'
    <2>1. IsFiniteSet(DOMAIN claimed')
      BY <1>1, FS_AddElement DEF Guarded, Placed
    <2>2. DOMAIN claimed' \subseteq ClaimIds /\ \A j \in DOMAIN claimed' : claimed'[j] \in ClaimRow
      BY <1>1 DEF Guarded, Placed, SpecialTypeOK
    <2> QED
      BY <1>2, <2>1, <2>2 DEF Guarded, Placed, SpecialTypeOK, OthersKeep, ClaimStates
  <1>4. ASSUME NEW s \in Threads, s # t PROVE Entitled(s)'
    <2>1. Entitled(s) /\ Entitled(t) /\ claim'[s] = claim[s] /\ claim[t].pc = "counted"
      BY <1>2, <1>4 DEF Guarded, OthersKeep, InsertClaim
    <2>2. ASSUME claim[s].pc = "counted" PROVE Usage(claim[s].by)' = Usage(claim[s].by)
      <3>1. claim[s].by # claim[t].by
        BY <1>4, <2>1, <2>2 DEF Entitled
      <3>2. {j \in DOMAIN claimed' : claimed'[j].by = claim[s].by /\ claimed'[j].made >= Midnight}
              = {j \in DOMAIN claimed : claimed[j].by = claim[s].by /\ claimed[j].made >= Midnight}
        BY <1>1, <3>1
      <3>3. Midnight' = Midnight
        BY <1>2 DEF Midnight
      <3> QED
        BY <2>1, <3>2, <3>3 DEF Usage
    <2> QED
      BY <1>2, <1>4, <2>1, <2>2 DEF Entitled, OthersKeep
  <1>5. Entitled(t)'
    BY <1>2 DEF Entitled, NoClaim
  <1> QED
    BY <1>3, <1>4, <1>5 DEF Guarded

(* The place that the count found free is still free.                      *)
LEMMA InsertWithinQuota ==
  ASSUME RowLocks, Guarded, NEW t \in Threads, InsertClaim(t),
         NEW i \in DOMAIN claimed' \ DOMAIN claimed
  PROVE  /\ template # None /\ template.active
         /\ Cardinality({j \in DOMAIN claimed' : /\ claimed'[j].by = claimed'[i].by
                                                /\ claimed'[j].made >= Midnight}) <= template.max
  <1> DEFINE c == claim[t].by
             U == {j \in DOMAIN claimed : claimed[j].by = c /\ claimed[j].made >= Midnight}
             V == {j \in DOMAIN claimed' : claimed'[j].by = c /\ claimed'[j].made >= Midnight}
  <1>1. /\ claimed'[i].by = c
        /\ DOMAIN claimed' = DOMAIN claimed \union {i}
        /\ \A j \in DOMAIN claimed : claimed'[j] = claimed[j]
    <2>1. PICK k \in ClaimIds \ DOMAIN claimed :
             /\ DOMAIN claimed' = DOMAIN claimed \union {k}
             /\ claimed'[k] = [by |-> c, made |-> tick - Offset, status |-> "open"]
             /\ \A j \in DOMAIN claimed : claimed'[j] = claimed[j]
      BY Inserted
    <2>2. k = i
      BY <2>1
    <2> QED
      BY <2>1, <2>2
  <1>2. template # None /\ template.active /\ Usage(c) < template.max
    BY DEF Guarded, Entitled, InsertClaim
  <1>3. template.max \in Nat
    BY <1>2, SpecialAssumption DEF SpecialAssumption, Guarded, Placed, SpecialTypeOK, TemplateRow
  <1>4. V \subseteq U \union {i}
    BY <1>1
  <1>5. U \subseteq DOMAIN claimed /\ Usage(c) = Cardinality(U)
    BY DEF Usage
  <1>6. V = {j \in DOMAIN claimed' : claimed'[j].by = claimed'[i].by /\ claimed'[j].made >= Midnight}
    BY <1>1
  <1> HIDE DEF U, V
  <1>7. IsFiniteSet(U)
    BY <1>5, FS_Subset DEF Guarded, Placed
  <1>8. Cardinality(U) \in Nat
    BY <1>7, FS_CardinalityType
  <1>9. IsFiniteSet(U \union {i}) /\ Cardinality(U \union {i}) <= Cardinality(U) + 1
    <2>1. /\ IsFiniteSet(U \union {i})
          /\ Cardinality(U \union {i}) = IF i \in U THEN Cardinality(U) ELSE Cardinality(U) + 1
      BY <1>7, FS_AddElement
    <2> QED
      BY <1>8, <2>1
  <1>10. IsFiniteSet(V) /\ Cardinality(V) <= Cardinality(U \union {i})
    BY <1>4, <1>9, FS_Subset
  <1>11. Cardinality(V) \in Nat /\ Cardinality(U \union {i}) \in Nat
    BY <1>9, <1>10, FS_CardinalityType
  <1>12. Cardinality(V) <= template.max
    BY <1>2, <1>3, <1>5, <1>8, <1>9, <1>10, <1>11
  <1> QED
    BY <1>2, <1>6, <1>12

-----------------------------------------------------------------------------
(* The steps outside a claim.                                              *)

LEMMA WorkShrinks ==
  ASSUME Placed, SubmitClaimed \/ ReviewClaimed \/ Unclaim \/ DeleteClaimed \/ PassTime
  PROVE  /\ Shrinks /\ DOMAIN claimed' \subseteq ClaimIds
         /\ UNCHANGED <<template, windowOwner, rowOwner, claim>>
  <1>1. /\ \A j \in DOMAIN claimed : claimed[j] \in ClaimRow
        /\ DOMAIN claimed \subseteq ClaimIds /\ tick \in Offset..LastTick
        /\ Offset \in Nat /\ LastTick \in Nat
    BY SpecialAssumption DEF SpecialAssumption, Placed, SpecialTypeOK
  <1>2. CASE SubmitClaimed \/ ReviewClaimed
    <2>1. PICK i \in DOMAIN claimed, s \in {"submitted", "approved", "rejected"} :
            claimed' = [claimed EXCEPT ![i].status = s]
      BY <1>2 DEF SubmitClaimed, ReviewClaimed
    <2>2. DOMAIN claimed' = DOMAIN claimed
      BY <2>1
    <2>3. \A j \in DOMAIN claimed :
            claimed'[j] = IF j = i THEN [claimed[j] EXCEPT !.status = s] ELSE claimed[j]
      BY <2>1
    <2>4. ASSUME NEW j \in DOMAIN claimed
          PROVE  /\ claimed'[j] \in ClaimRow
                 /\ claimed'[j].by = claimed[j].by /\ claimed'[j].made = claimed[j].made
      BY <1>1, <2>3, <2>4 DEF ClaimRow
    <2>5. UNCHANGED <<tick, template, windowOwner, rowOwner, claim>>
      BY <1>2 DEF SubmitClaimed, ReviewClaimed
    <2> QED
      BY <1>1, <2>2, <2>4, <2>5 DEF Shrinks
  <1>3. CASE Unclaim \/ DeleteClaimed
    <2>1. PICK i \in DOMAIN claimed : claimed' = [j \in DOMAIN claimed \ {i} |-> claimed[j]]
      BY <1>3 DEF Unclaim, DeleteClaimed, Removed
    <2> QED
      BY <1>1, <1>3, <2>1 DEF Unclaim, DeleteClaimed, Shrinks
  <1>4. CASE PassTime
    BY <1>1, <1>4 DEF PassTime, Shrinks
  <1> QED
    BY <1>2, <1>3, <1>4

(* Whoever has locked the template keeps it from being edited or deleted.  *)
LEMMA ParentSafe ==
  ASSUME RowLocks, Guarded, CreateTemplate \/ EditTemplate \/ DeleteTemplate
  PROVE  Guarded' /\ DOMAIN claimed' \subseteq DOMAIN claimed
  <1>1. /\ template' \in TemplateRow \union {None}
        /\ UNCHANGED <<tick, windowOwner, rowOwner, claim>>
    BY DEF CreateTemplate, EditTemplate, DeleteTemplate
  <1>2. claimed' = claimed \/ DOMAIN claimed' = {}
    BY DEF CreateTemplate, EditTemplate, DeleteTemplate
  <1>3. Placed'
    BY <1>1, <1>2, FS_EmptySet DEF Guarded, Placed, SpecialTypeOK
  <1>4. ASSUME NEW t \in Threads PROVE Entitled(t) /\ claim[t].pc \notin {"locked", "counted"}
    BY <1>4, HandlersAssumption
    DEF HandlersAssumption, Guarded, Entitled, CreateTemplate, EditTemplate, DeleteTemplate
  <1>5. \A t \in Threads : Entitled(t)'
    BY <1>1, <1>4 DEF Entitled
  <1> QED
    BY <1>2, <1>3, <1>5 DEF Guarded

-----------------------------------------------------------------------------
LEMMA InitGuarded == SpecialInit => Guarded
  BY SpecialAssumption, FS_EmptySet
  DEF SpecialAssumption, SpecialInit, Guarded, Placed, SpecialTypeOK, Entitled, NoClaim

LEMMA NextSafe ==
  ASSUME RowLocks, Guarded, [SpecialNext]_specialVars
  PROVE  Guarded'
  <1>1. CASE UNCHANGED specialVars
    BY <1>1 DEF specialVars, Guarded, Placed, SpecialTypeOK, Entitled, Usage, Midnight
  <1>2. ASSUME NEW t \in Threads,
               BeginClaim(t) \/ LockClaimWindow(t) \/ LockTemplate(t)
               \/ CountUsage(t) \/ InsertClaim(t)
        PROVE  Guarded'
    BY <1>2, BeginClaimSafe, LockClaimWindowSafe, LockTemplateSafe, CountUsageSafe, InsertClaimSafe
  <1>3. CASE SubmitClaimed \/ ReviewClaimed \/ Unclaim \/ DeleteClaimed \/ PassTime
    BY <1>3, WorkShrinks, ShrinkingSafe DEF Guarded
  <1>4. CASE CreateTemplate \/ EditTemplate \/ DeleteTemplate
    BY <1>4, ParentSafe
  <1> QED
    BY <1>1, <1>2, <1>3, <1>4 DEF SpecialNext

LEMMA GuardedAlways == ASSUME RowLocks PROVE SpecialSpec => []Guarded
  BY InitGuarded, NextSafe, PTL DEF SpecialSpec

(* Count and insert are statements of their own and parents edit the       *)
(* template meanwhile: the advisory lock and the row lock of               *)
(* claim_special_task keep every child within the quota.                   *)
THEOREM QuotaAlwaysKept == ASSUME RowLocks PROVE SpecialSpec => QuotaKept
  <1>1. ASSUME Guarded, [SpecialNext]_specialVars, NEW i \in DOMAIN claimed' \ DOMAIN claimed
        PROVE  /\ template # None /\ template.active
               /\ Cardinality({j \in DOMAIN claimed' : /\ claimed'[j].by = claimed'[i].by
                                                      /\ claimed'[j].made >= Midnight})
                    <= template.max
    <2>1. ASSUME DOMAIN claimed' \subseteq DOMAIN claimed PROVE FALSE
      BY <1>1, <2>1
    <2>2. CASE \E t \in Threads : InsertClaim(t)
      BY <1>1, <2>2, InsertWithinQuota
    <2>3. CASE \E t \in Threads : \/ BeginClaim(t) \/ LockClaimWindow(t)
                                  \/ LockTemplate(t) \/ CountUsage(t)
      BY <2>1, <2>3 DEF BeginClaim, LockClaimWindow, LockTemplate, CountUsage
    <2>4. CASE SubmitClaimed \/ ReviewClaimed \/ Unclaim \/ DeleteClaimed \/ PassTime
      BY <1>1, <2>1, <2>4, WorkShrinks DEF Guarded, Shrinks
    <2>5. CASE CreateTemplate \/ EditTemplate \/ DeleteTemplate
      BY <1>1, <2>1, <2>5, ParentSafe
    <2>6. CASE UNCHANGED specialVars
      BY <2>1, <2>6 DEF specialVars
    <2> QED
      BY <1>1, <2>2, <2>3, <2>4, <2>5, <2>6 DEF SpecialNext
  <1>2. Guarded /\ [SpecialNext]_specialVars => [WithinQuota]_specialVars
    BY <1>1 DEF WithinQuota
  <1> QED
    BY <1>2, GuardedAlways, PTL DEF SpecialSpec, QuotaKept

(* Types, on both databases: whoever claims a task is a child.              *)
SpecialKept == SpecialTypeOK /\ \A t \in Threads : claim[t].pc # "idle" => claim[t].by \in Claimants

LEMMA InitSpecialKept == SpecialInit => SpecialKept
  <1>1. Offset \in Offset..LastTick
    BY SpecialAssumption DEF SpecialAssumption
  <1> QED
    BY <1>1 DEF SpecialInit, SpecialKept, SpecialTypeOK, NoClaim

LEMMA ClaimMoves ==
  ASSUME SpecialKept, NEW t \in Threads, NEW r \in ClaimStates,
         r.pc # "idle" => r.by \in Claimants, claim' = [claim EXCEPT ![t] = r],
         windowOwner' \in [Claimants -> Threads \union {None}],
         rowOwner' \in Threads \union {None}, UNCHANGED <<tick, template>>,
         DOMAIN claimed' \subseteq ClaimIds, \A i \in DOMAIN claimed' : claimed'[i] \in ClaimRow
  PROVE  SpecialKept'
  <1>1. claim' \in [Threads -> ClaimStates] /\ claim'[t] = r
        /\ \A s \in Threads : s # t => claim'[s] = claim[s]
    BY DEF SpecialKept, SpecialTypeOK, ClaimStates
  <1>2. SpecialTypeOK'
    BY <1>1 DEF SpecialKept, SpecialTypeOK, ClaimStates
  <1> QED
    BY <1>1, <1>2 DEF SpecialKept

LEMMA ClaimEnds ==
  ASSUME SpecialKept, NEW t \in Threads, EndsClaim(t), UNCHANGED <<tick, template>>,
         DOMAIN claimed' \subseteq ClaimIds, \A i \in DOMAIN claimed' : claimed'[i] \in ClaimRow
  PROVE  SpecialKept'
  <1>1. NoClaim \in ClaimStates /\ NoClaim.pc = "idle"
    BY DEF NoClaim, ClaimStates
  <1>2. /\ claim' = [claim EXCEPT ![t] = NoClaim]
        /\ windowOwner' \in [Claimants -> Threads \union {None}]
        /\ rowOwner' \in Threads \union {None}
    BY DEF EndsClaim, SpecialKept, SpecialTypeOK
  <1> QED
    BY <1>1, <1>2, ClaimMoves

LEMMA ClaimKept ==
  ASSUME SpecialKept, NEW t \in Threads,
         \/ BeginClaim(t) \/ LockClaimWindow(t) \/ LockTemplate(t)
         \/ CountUsage(t) \/ InsertClaim(t)
  PROVE  SpecialKept'
  <1>1. claim[t] \in ClaimStates /\ (claim[t].pc # "idle" => claim[t].by \in Claimants)
        /\ claim \in [Threads -> ClaimStates]
        /\ windowOwner \in [Claimants -> Threads \union {None}] /\ rowOwner \in Threads \union {None}
        /\ DOMAIN claimed \subseteq ClaimIds /\ \A i \in DOMAIN claimed : claimed[i] \in ClaimRow
    BY DEF SpecialKept, SpecialTypeOK, ClaimStates
  <1>2. ASSUME NEW pc \in {"window", "locked", "counted"}, claim[t].pc # "idle",
               claim' = [claim EXCEPT ![t].pc = pc],
               windowOwner' \in [Claimants -> Threads \union {None}],
               rowOwner' \in Threads \union {None}, UNCHANGED <<tick, template, claimed>>
        PROVE  SpecialKept'
    <2> DEFINE r == [claim[t] EXCEPT !.pc = pc]
    <2>1. r \in ClaimStates /\ r.by = claim[t].by
      BY <1>1 DEF ClaimStates
    <2>2. claim' = [claim EXCEPT ![t] = r]
      BY <1>1, <1>2
    <2> HIDE DEF r
    <2> QED
      BY <1>1, <1>2, <2>1, <2>2, ClaimMoves
  <1>3. CASE BeginClaim(t)
    <2>1. PICK c \in Claimants : claim' = [claim EXCEPT ![t] = [pc |-> "begun", by |-> c]]
      BY <1>3 DEF BeginClaim
    <2> DEFINE r == [pc |-> "begun", by |-> c]
    <2>2. r \in ClaimStates /\ r.by \in Claimants /\ claim' = [claim EXCEPT ![t] = r]
      BY <2>1 DEF ClaimStates
    <2> HIDE DEF r
    <2>3. UNCHANGED <<tick, template, claimed, windowOwner, rowOwner>>
      BY <1>3 DEF BeginClaim
    <2> QED
      BY <1>1, <2>2, <2>3, ClaimMoves
  <1>4. CASE LockClaimWindow(t)
    <2>1. windowOwner' \in [Claimants -> Threads \union {None}]
      BY <1>1, <1>4 DEF LockClaimWindow, Taken
    <2> QED
      BY <1>1, <1>2, <1>4, <2>1 DEF LockClaimWindow
  <1>5. CASE LockTemplate(t)
    <2>1. CASE rowOwner' = Taken(t) /\ claim' = [claim EXCEPT ![t].pc = "locked"] /\ UNCHANGED windowOwner
      <3>1. rowOwner' \in Threads \union {None}
        BY <2>1 DEF Taken
      <3> QED
        BY <1>1, <1>2, <1>5, <2>1, <3>1 DEF LockTemplate
    <2>2. CASE EndsClaim(t)
      BY <1>1, <1>5, <2>2, ClaimEnds DEF LockTemplate
    <2> QED
      BY <1>5, <2>1, <2>2 DEF LockTemplate
  <1>6. CASE CountUsage(t)
    <2>1. CASE claim' = [claim EXCEPT ![t].pc = "counted"] /\ UNCHANGED <<windowOwner, rowOwner>>
      BY <1>1, <1>2, <1>6, <2>1 DEF CountUsage
    <2>2. CASE EndsClaim(t)
      BY <1>1, <1>6, <2>2, ClaimEnds DEF CountUsage
    <2> QED
      BY <1>6, <2>1, <2>2 DEF CountUsage
  <1>7. CASE InsertClaim(t)
    <2>1. PICK i \in ClaimIds \ DOMAIN claimed :
            claimed' = [j \in DOMAIN claimed \union {i} |->
                          IF j = i THEN [by |-> claim[t].by, made |-> tick - Offset, status |-> "open"]
                          ELSE claimed[j]]
      BY <1>7 DEF InsertClaim
    <2>2. [by |-> claim[t].by, made |-> tick - Offset, status |-> "open"] \in ClaimRow
      <3>1. tick - Offset \in 0..LastTick - Offset
        BY SpecialAssumption DEF SpecialAssumption, SpecialKept, SpecialTypeOK
      <3> QED
        BY <1>1, <1>7, <3>1 DEF ClaimRow, InsertClaim
    <2>3. DOMAIN claimed' \subseteq ClaimIds /\ \A j \in DOMAIN claimed' : claimed'[j] \in ClaimRow
      BY <1>1, <2>1, <2>2
    <2> QED
      BY <1>7, <2>3, ClaimEnds DEF InsertClaim
  <1> QED
    BY <1>3, <1>4, <1>5, <1>6, <1>7

LEMMA WorkKept ==
  ASSUME SpecialKept,
         \/ SubmitClaimed \/ ReviewClaimed \/ Unclaim \/ DeleteClaimed
         \/ CreateTemplate \/ EditTemplate \/ DeleteTemplate \/ PassTime
  PROVE  SpecialKept'
  <1> USE DEF SpecialKept, SpecialTypeOK
  <1>1. CASE SubmitClaimed \/ ReviewClaimed
    BY <1>1 DEF SubmitClaimed, ReviewClaimed, ClaimRow
  <1>2. CASE Unclaim \/ DeleteClaimed
    BY <1>2 DEF Unclaim, DeleteClaimed, Removed
  <1>3. CASE CreateTemplate \/ EditTemplate
    BY <1>3 DEF CreateTemplate, EditTemplate
  <1>4. CASE DeleteTemplate
    BY <1>4 DEF DeleteTemplate
  <1>5. CASE PassTime
    <2>1. tick' \in Offset..LastTick
      BY <1>5, SpecialAssumption DEF SpecialAssumption, PassTime
    <2> QED
      BY <1>5, <2>1 DEF PassTime
  <1> QED
    BY <1>1, <1>2, <1>3, <1>4, <1>5

LEMMA NextSpecialKept == SpecialKept /\ [SpecialNext]_specialVars => SpecialKept'
  <1> SUFFICES ASSUME SpecialKept, [SpecialNext]_specialVars PROVE SpecialKept'
    OBVIOUS
  <1>1. CASE UNCHANGED specialVars
    BY <1>1 DEF specialVars, SpecialKept, SpecialTypeOK
  <1> QED
    BY <1>1, ClaimKept, WorkKept DEF SpecialNext

(* On both databases the variables of the special tasks keep their types.   *)
THEOREM SpecialTypeCorrect == SpecialSpec => []SpecialTypeOK
  <1>1. SpecialKept => SpecialTypeOK
    BY DEF SpecialKept
  <1> QED
    BY <1>1, InitSpecialKept, NextSpecialKept, PTL DEF SpecialSpec

-----------------------------------------------------------------------------
(* Reminders                                                               *)

(* Rows that stand for an alert: committed, or written by a sweep that is  *)
(* under way.                                                              *)
OnRecord(d) == d \in delivered \/ \E w \in Threads : sweep[w].rows[d] = "sent"

(* Why a second alert needs a lost record: only who holds the lock sweeps, *)
(* a sweep leaves out the devices it has served and those with a committed *)
(* row, and every alert is on record or was forgotten.                     *)
Alone(w) ==
  /\ sweep[w].pc = "sweeping" => sweepLock = w
  /\ sweep[w].pc = "asleep" => sweep[w].todo = {}
  /\ \A d \in Devices : sweep[w].rows[d] # "none" =>
       /\ sweep[w].pc = "sweeping"
       /\ d \in registered /\ d \notin delivered /\ d \notin sweep[w].todo

Balanced(d) == alerts[d] = forgotten[d] + IF OnRecord(d) THEN 1 ELSE 0

Accounted == /\ RemindersTypeOK
             /\ \A w \in Threads : Alone(w)
             /\ \A d \in Devices : Balanced(d)

LEMMA AsleepType ==
  ASSUME NEW until \in 0..LastMoment + Interval
  PROVE  /\ Asleep(until) \in SweepState
         /\ Asleep(until).pc = "asleep" /\ Asleep(until).todo = {}
         /\ \A d \in Devices : Asleep(until).rows[d] = "none"
  BY DEF Asleep, SweepState

LEMMA InitAccounted == RemindersInit => Accounted
  <1> SUFFICES ASSUME RemindersInit PROVE Accounted
    OBVIOUS
  <1>1. PICK phase \in [Threads -> 0..Interval] : sweep = [w \in Threads |-> Asleep(phase[w])]
    BY DEF RemindersInit
  <1>2. \A w \in Threads : phase[w] \in 0..LastMoment + Interval
    BY RemindersAssumption DEF RemindersAssumption
  <1>3. \A w \in Threads : /\ sweep[w] = Asleep(phase[w])
                           /\ sweep[w].pc = "asleep" /\ sweep[w].todo = {}
                           /\ \A d \in Devices : sweep[w].rows[d] = "none"
    BY <1>1, <1>2, AsleepType
  <1>4. RemindersTypeOK
    BY <1>1, <1>2, AsleepType, RemindersAssumption
    DEF RemindersAssumption, RemindersInit, RemindersTypeOK
  <1> QED
    BY <1>3, <1>4 DEF RemindersInit, Accounted, Alone, Balanced, OnRecord

(* The steps that change neither records nor alerts. *)
LEMMA QuietSafe ==
  ASSUME Accounted,
         \/ \E w \in Threads : BeginSweep(w) \/ SkipDelivered(w)
         \/ \E d \in Devices : Register(d)
         \/ SubmitRemindable
         \/ TickReminders
         \/ UNCHANGED remindersVars
  PROVE  Accounted'
  <1>1. ASSUME NEW w \in Threads, BeginSweep(w) PROVE Accounted'
    <2>1. CASE /\ LockIsFree
               /\ sweepLock' = w
               /\ sweep' = [sweep EXCEPT ![w].pc = "sweeping", ![w].wake = moment,
                                         ![w].todo = IF ReminderDue THEN registered ELSE {}]
      <3>1. \A v \in Threads : sweep[v].pc = "asleep"
        BY <2>1, HandlersAssumption
        DEF HandlersAssumption, LockIsFree, Accounted, Alone, RemindersTypeOK, SweepState
      <3> DEFINE row == [sweep[w] EXCEPT !.pc = "sweeping", !.wake = moment,
                                         !.todo = IF ReminderDue THEN registered ELSE {}]
      <3>2. /\ row \in SweepState /\ row.pc = "sweeping" /\ row.rows = sweep[w].rows
        <4>1. sweep[w] \in SweepState /\ moment \in 0..LastMoment + Interval
              /\ registered \subseteq Devices
          BY RemindersAssumption DEF RemindersAssumption, Accounted, RemindersTypeOK
        <4> QED
          BY <4>1 DEF SweepState
      <3>3. sweep' = [sweep EXCEPT ![w] = row]
        BY <2>1 DEF Accounted, RemindersTypeOK, SweepState
      <3> HIDE DEF row
      <3>4. /\ sweep' \in [Threads -> SweepState] /\ sweep'[w] = row
            /\ \A v \in Threads : v # w => sweep'[v] = sweep[v]
        BY <3>2, <3>3 DEF Accounted, RemindersTypeOK
      <3>5. \A v \in Threads : sweep'[v].rows = sweep[v].rows
        BY <3>2, <3>4
      <3>6. \A v \in Threads, d \in Devices : sweep[v].rows[d] = "none"
        BY <3>1 DEF Accounted, Alone
      <3>7. RemindersTypeOK'
        BY <1>1, <2>1, <3>4 DEF Accounted, RemindersTypeOK, BeginSweep
      <3>8. \A d \in Devices : OnRecord(d)' <=> OnRecord(d)
        BY <1>1, <3>5 DEF OnRecord, BeginSweep
      <3> QED
        <4>1. ASSUME NEW v \in Threads PROVE Alone(v)'
          BY <2>1, <3>1, <3>2, <3>4, <3>5, <3>6 DEF Accounted, Alone
        <4>2. \A d \in Devices : Balanced(d)'
          BY <1>1, <3>8 DEF Balanced, Accounted, BeginSweep
        <4> QED
          BY <3>7, <4>1, <4>2 DEF Accounted
    <2>2. CASE /\ ~LockIsFree
               /\ sweep' = [sweep EXCEPT ![w] = Asleep(moment + Interval)]
               /\ UNCHANGED sweepLock
      <3>1. moment + Interval \in 0..LastMoment + Interval
        BY RemindersAssumption DEF RemindersAssumption, Accounted, RemindersTypeOK
      <3>2. /\ sweep' \in [Threads -> SweepState] /\ sweep'[w] = Asleep(moment + Interval)
            /\ \A v \in Threads : v # w => sweep'[v] = sweep[v]
        BY <2>2, <3>1, AsleepType DEF Accounted, RemindersTypeOK
      <3>3. sweep[w].pc = "asleep" /\ sweep[w].todo = {}
            /\ \A d \in Devices : sweep[w].rows[d] = "none"
        BY <1>1 DEF BeginSweep, Accounted, Alone
      <3>4. \A v \in Threads : /\ \A d \in Devices : sweep'[v].rows[d] = sweep[v].rows[d]
                               /\ sweep'[v].pc = sweep[v].pc /\ sweep'[v].todo = sweep[v].todo
        BY <3>1, <3>2, <3>3, AsleepType
      <3>5. RemindersTypeOK'
        BY <1>1, <2>2, <3>2 DEF Accounted, RemindersTypeOK, BeginSweep
      <3>6. \A d \in Devices : OnRecord(d)' <=> OnRecord(d)
        BY <1>1, <3>4 DEF OnRecord, BeginSweep
      <3> QED
        <4>1. ASSUME NEW v \in Threads PROVE Alone(v)'
          <5>1. Alone(v) /\ UNCHANGED <<sweepLock, registered, delivered>>
            BY <1>1, <2>2 DEF Accounted, BeginSweep
          <5> QED
            BY <3>4, <5>1 DEF Alone
        <4>2. \A d \in Devices : Balanced(d)'
          BY <1>1, <3>6 DEF Balanced, Accounted, BeginSweep
        <4> QED
          BY <3>5, <4>1, <4>2 DEF Accounted
    <2> QED
      BY <1>1, <2>1, <2>2 DEF BeginSweep
  <1>2. ASSUME NEW w \in Threads, SkipDelivered(w) PROVE Accounted'
    <2>1. PICK d \in sweep[w].todo \intersect delivered :
            sweep' = [sweep EXCEPT ![w].todo = @ \ {d}]
      BY <1>2 DEF SkipDelivered
    <2> DEFINE row == [sweep[w] EXCEPT !.todo = @ \ {d}]
    <2>2. /\ row \in SweepState /\ row.rows = sweep[w].rows /\ row.pc = sweep[w].pc
          /\ row.todo \subseteq sweep[w].todo
      BY DEF Accounted, RemindersTypeOK, SweepState
    <2>3. sweep' = [sweep EXCEPT ![w] = row]
      BY <2>1 DEF Accounted, RemindersTypeOK, SweepState
    <2> HIDE DEF row
    <2>4. sweep' \in [Threads -> SweepState]
      BY <2>2, <2>3 DEF Accounted, RemindersTypeOK
    <2>5. \A v \in Threads : /\ sweep'[v].rows = sweep[v].rows /\ sweep'[v].pc = sweep[v].pc
                             /\ sweep'[v].todo \subseteq sweep[v].todo
      BY <2>2, <2>3 DEF Accounted, RemindersTypeOK
    <2>6. RemindersTypeOK'
      BY <1>2, <2>4 DEF Accounted, RemindersTypeOK, SkipDelivered
    <2>7. \A d_1 \in Devices : OnRecord(d_1)' <=> OnRecord(d_1)
      BY <1>2, <2>5 DEF OnRecord, SkipDelivered
    <2> QED
      BY <1>2, <2>5, <2>6, <2>7 DEF Accounted, Alone, Balanced, SkipDelivered
  <1>3. ASSUME NEW d \in Devices, Register(d) PROVE Accounted'
    BY <1>3 DEF Accounted, RemindersTypeOK, Register, Alone, Balanced, OnRecord
  <1>4. CASE SubmitRemindable
    BY <1>4 DEF Accounted, RemindersTypeOK, SubmitRemindable, Alone, Balanced, OnRecord
  <1>5. CASE TickReminders
    <2>1. moment' \in 0..LastMoment /\ excused' \subseteq Devices
      BY <1>5, RemindersAssumption
      DEF RemindersAssumption, Accounted, RemindersTypeOK, TickReminders
    <2> QED
      BY <1>5, <2>1 DEF Accounted, RemindersTypeOK, TickReminders, Alone, Balanced, OnRecord
  <1>6. CASE UNCHANGED remindersVars
    BY <1>6 DEF Accounted, RemindersTypeOK, remindersVars, Alone, Balanced, OnRecord
  <1> QED
    BY <1>1, <1>2, <1>3, <1>4, <1>5, <1>6

(* A sweep that ends leaves no row under way: nobody else is sweeping.     *)
LEMMA EndsLeaves ==
  ASSUME Accounted, NEW w \in Threads, sweep[w].pc = "sweeping",
         NEW wake \in 0..LastMoment + Interval, EndsSweep(w, wake)
  PROVE  /\ sweepLock' \in Threads \union {None}
         /\ sweep' \in [Threads -> SweepState]
         /\ \A v \in Threads : /\ sweep'[v].pc = "asleep" /\ sweep'[v].todo = {}
                               /\ \A d \in Devices : sweep'[v].rows[d] = "none"
         /\ \A d \in Devices : OnRecord(d) <=> d \in delivered \/ d \in Answered(w, "sent")
         /\ \A d \in Devices : OnRecord(d)' <=> d \in delivered'
         /\ \A d \in delivered : d \notin Answered(w, "sent") /\ d \notin Answered(w, "rejected")
         /\ Answered(w, "sent") \subseteq registered \ Answered(w, "rejected")
  <1>1. \A v \in Threads : v # w => /\ sweep[v].pc = "asleep" /\ sweep[v].todo = {}
                                    /\ \A d \in Devices : sweep[v].rows[d] = "none"
    BY DEF Accounted, Alone, RemindersTypeOK, SweepState
  <1>2. /\ sweep' \in [Threads -> SweepState]
        /\ sweep'[w] = Asleep(wake) /\ \A v \in Threads : v # w => sweep'[v] = sweep[v]
    BY AsleepType DEF EndsSweep, Accounted, RemindersTypeOK
  <1>3. \A v \in Threads : /\ sweep'[v].pc = "asleep" /\ sweep'[v].todo = {}
                           /\ \A d \in Devices : sweep'[v].rows[d] = "none"
    BY <1>1, <1>2, AsleepType
  <1>4. \A d \in Devices : OnRecord(d) <=> d \in delivered \/ d \in Answered(w, "sent")
    BY <1>1 DEF OnRecord, Answered
  <1>5. \A d \in Devices : OnRecord(d)' <=> d \in delivered'
    BY <1>3 DEF OnRecord
  <1>6. /\ \A d \in delivered : d \notin Answered(w, "sent") /\ d \notin Answered(w, "rejected")
        /\ Answered(w, "sent") \subseteq registered \ Answered(w, "rejected")
    BY DEF Answered, Accounted, Alone
  <1>7. sweepLock' \in Threads \union {None}
    BY DEF EndsSweep, Accounted, RemindersTypeOK
  <1> QED
    BY <1>2, <1>3, <1>4, <1>5, <1>6, <1>7

LEMMA SweepFailSafe ==
  ASSUME Accounted, NEW w \in Threads, FailSweep(w)
  PROVE  Accounted'
  <1>1. PICK wake \in {moment, moment + Interval} : RolledBack(w, Answered(w, "sent"), wake)
    BY DEF FailSweep
  <1>2. wake \in 0..LastMoment + Interval /\ sweep[w].pc = "sweeping"
    BY RemindersAssumption
    DEF RemindersAssumption, Accounted, RemindersTypeOK, FailSweep
  <1>3. EndsSweep(w, wake) /\ UNCHANGED <<moment, remindable, registered, delivered, alerts>>
    BY <1>1 DEF RolledBack, FailSweep
  <1>4. forgotten' = [d \in Devices |-> forgotten[d] + IF d \in Answered(w, "sent") THEN 1 ELSE 0]
        /\ excused' \subseteq Devices
    BY <1>1 DEF RolledBack
  <1>5. \A d \in Devices : alerts'[d] = forgotten'[d] + IF OnRecord(d)' THEN 1 ELSE 0
    <2>1. ASSUME NEW d \in Devices
          PROVE  alerts'[d] = forgotten'[d] + IF OnRecord(d)' THEN 1 ELSE 0
      <3>1. /\ OnRecord(d) <=> d \in delivered \/ d \in Answered(w, "sent")
            /\ OnRecord(d)' <=> d \in delivered'
            /\ d \in delivered => d \notin Answered(w, "sent")
        BY <1>2, <1>3, EndsLeaves
      <3>2. alerts[d] \in Nat /\ forgotten[d] \in Nat /\ Balanced(d)
        BY DEF Accounted, RemindersTypeOK
      <3> QED
        BY <1>3, <1>4, <3>1, <3>2 DEF Balanced
    <2> QED
      BY <2>1
  <1>6. forgotten' \in [Devices -> 0..MaxAlerts]
    <2>1. ASSUME NEW d \in Devices PROVE forgotten'[d] \in 0..MaxAlerts
      <3>1. /\ alerts'[d] \in 0..MaxAlerts /\ forgotten[d] \in Nat /\ MaxAlerts \in Nat
            /\ forgotten'[d] = forgotten[d] + IF d \in Answered(w, "sent") THEN 1 ELSE 0
        BY <1>3, <1>4, RemindersAssumption
        DEF RemindersAssumption, Accounted, RemindersTypeOK
      <3> QED
        BY <1>5, <3>1
    <2> QED
      BY <1>4, <2>1
  <1>7. RemindersTypeOK'
    BY <1>2, <1>3, <1>4, <1>6, EndsLeaves DEF Accounted, RemindersTypeOK
  <1> QED
    BY <1>2, <1>3, <1>5, <1>7, EndsLeaves DEF Accounted, Alone, Balanced

LEMMA SweepCommitSafe ==
  ASSUME Accounted, NEW w \in Threads, CommitSweep(w)
  PROVE  Accounted'
  <1>1. moment + Interval \in 0..LastMoment + Interval /\ sweep[w].pc = "sweeping"
    BY RemindersAssumption
    DEF RemindersAssumption, Accounted, RemindersTypeOK, CommitSweep
  <1>2. /\ EndsSweep(w, moment + Interval)
        /\ UNCHANGED <<moment, remindable, alerts, forgotten, excused>>
        /\ delivered' = delivered \union Answered(w, "sent")
        /\ registered' = registered \ Answered(w, "rejected")
    BY DEF CommitSweep
  <1>3. RemindersTypeOK'
    BY <1>1, <1>2, EndsLeaves DEF Accounted, RemindersTypeOK
  <1>4. \A d \in Devices : OnRecord(d)' <=> OnRecord(d)
    BY <1>1, <1>2, EndsLeaves
  <1> QED
    BY <1>1, <1>2, <1>3, <1>4, EndsLeaves DEF Accounted, Alone, Balanced

LEMMA SendSafe ==
  ASSUME Accounted, NEW w \in Threads, SendReminder(w)
  PROVE  Accounted'
  <1>0. PICK d \in sweep[w].todo \ delivered, o \in Outcomes :
          /\ o.shown => alerts[d] < MaxAlerts
          /\ alerts' = IF o.shown THEN [alerts EXCEPT ![d] = @ + 1] ELSE alerts
          /\ \/ /\ d \in registered
                /\ sweep' = [sweep EXCEPT ![w].todo = @ \ {d}, ![w].rows[d] = o.answer]
                /\ forgotten' = IF o.shown /\ o.answer # "sent"
                                THEN [forgotten EXCEPT ![d] = @ + 1] ELSE forgotten
                /\ excused' = IF o.shown THEN excused ELSE excused \union {d}
                /\ UNCHANGED <<delivered, sweepLock>>
             \/ /\ d \notin registered
                /\ RolledBack(w, Answered(w, "sent") \union IF o.shown THEN {d} ELSE {},
                              moment + Interval)
    BY DEF SendReminder
  <1> DEFINE answer == o.answer  shown == o.shown
  <1>1. /\ answer \in Answers /\ shown \in BOOLEAN /\ (answer = "sent" => shown)
        /\ shown => alerts[d] < MaxAlerts
        /\ alerts' = IF shown THEN [alerts EXCEPT ![d] = @ + 1] ELSE alerts
        /\ \/ /\ d \in registered
              /\ sweep' = [sweep EXCEPT ![w].todo = @ \ {d}, ![w].rows[d] = answer]
              /\ forgotten' = IF shown /\ answer # "sent"
                              THEN [forgotten EXCEPT ![d] = @ + 1] ELSE forgotten
              /\ excused' = IF shown THEN excused ELSE excused \union {d}
              /\ UNCHANGED <<delivered, sweepLock>>
           \/ /\ d \notin registered
              /\ RolledBack(w, Answered(w, "sent") \union IF shown THEN {d} ELSE {},
                            moment + Interval)
    BY <1>0 DEF Outcomes
  <1> HIDE DEF answer, shown
  <1>2. /\ UNCHANGED <<moment, remindable, registered>>
        /\ d \in Devices /\ d \notin delivered /\ sweep[w].pc = "sweeping"
        /\ \A v \in Threads : sweep[v].rows[d] = "none"
    BY <1>1, HandlersAssumption
    DEF HandlersAssumption, SendReminder, Accounted, Alone, RemindersTypeOK, SweepState
  <1>3. /\ alerts' \in [Devices -> 0..MaxAlerts]
        /\ \A e \in Devices :
             alerts'[e] = alerts[e] + IF e = d /\ shown THEN 1 ELSE 0
    BY <1>1, <1>2, RemindersAssumption
    DEF RemindersAssumption, Accounted, RemindersTypeOK
  <1>4. ~OnRecord(d)
    BY <1>2 DEF OnRecord
  <1>5. CASE /\ d \in registered
             /\ sweep' = [sweep EXCEPT ![w].todo = @ \ {d}, ![w].rows[d] = answer]
             /\ forgotten' = IF shown /\ answer # "sent"
                             THEN [forgotten EXCEPT ![d] = @ + 1] ELSE forgotten
             /\ excused' = IF shown THEN excused ELSE excused \union {d}
             /\ UNCHANGED <<delivered, sweepLock>>
    <2> DEFINE row == [sweep[w] EXCEPT !.todo = @ \ {d}, !.rows = [@ EXCEPT ![d] = answer]]
    <2>1. sweep[w] \in SweepState
      BY DEF Accounted, RemindersTypeOK
    <2>2. /\ row \in SweepState /\ row.pc = sweep[w].pc /\ row.todo = sweep[w].todo \ {d}
          /\ \A e \in Devices : row.rows[e] = IF e = d THEN answer ELSE sweep[w].rows[e]
      BY <1>1, <1>2, <2>1 DEF SweepState
    <2>3. sweep' = [sweep EXCEPT ![w] = row]
      BY <1>5, <2>1 DEF Accounted, RemindersTypeOK, SweepState
    <2> HIDE DEF row
    <2>4. /\ sweep' \in [Threads -> SweepState] /\ sweep'[w] = row
          /\ \A v \in Threads : v # w => sweep'[v] = sweep[v]
      BY <2>2, <2>3 DEF Accounted, RemindersTypeOK
    <2>5. ASSUME NEW v \in Threads PROVE Alone(v)'
      <3>1. CASE v = w
        BY <1>1, <1>2, <1>5, <2>2, <2>4, <3>1 DEF Accounted, Alone
      <3>2. CASE v # w
        BY <1>2, <1>5, <2>4, <3>2 DEF Accounted, Alone
      <3> QED
        BY <3>1, <3>2
    <2>6. \A e \in Devices : OnRecord(e)' <=> OnRecord(e) \/ (e = d /\ answer = "sent")
      <3>1. \A v \in Threads, e \in Devices :
              sweep'[v].rows[e] = IF v = w /\ e = d THEN answer ELSE sweep[v].rows[e]
        BY <2>2, <2>4
      <3>2. UNCHANGED delivered
        BY <1>5
      <3> QED
        <4>1. ASSUME NEW e \in Devices, e # d PROVE OnRecord(e)' <=> OnRecord(e)
          <5>1. \A v \in Threads : sweep'[v].rows[e] = sweep[v].rows[e]
            BY <3>1, <4>1
          <5> QED
            BY <3>2, <5>1 DEF OnRecord
        <4>2. OnRecord(d)' <=> answer = "sent"
          <5>1. sweep'[w].rows[d] = answer
                /\ \A v \in Threads : v # w => sweep'[v].rows[d] = "none"
            BY <1>2, <3>1
          <5> QED
            BY <1>2, <3>2, <5>1 DEF OnRecord
        <4> QED
          BY <1>4, <4>1, <4>2
    <2>7. \A e \in Devices : forgotten'[e] = forgotten[e] + IF e = d /\ shown /\ answer # "sent"
                                                            THEN 1 ELSE 0
      BY <1>2, <1>5 DEF Accounted, RemindersTypeOK
    <2>8. \A e \in Devices : Balanced(e)'
      BY <1>1, <1>3, <1>4, <2>6, <2>7 DEF Accounted, Balanced, RemindersTypeOK
    <2>9. forgotten' \in [Devices -> 0..MaxAlerts]
      <3>1. ASSUME NEW e \in Devices PROVE forgotten'[e] \in 0..MaxAlerts
        BY <1>3, <2>7, <2>8 DEF Balanced, Accounted, RemindersTypeOK
      <3>2. DOMAIN forgotten' = Devices /\ forgotten' = [e \in Devices |-> forgotten'[e]]
        BY <1>5 DEF Accounted, RemindersTypeOK
      <3> QED
        BY <3>1, <3>2
    <2>10. RemindersTypeOK'
      BY <1>2, <1>3, <1>5, <2>4, <2>9 DEF Accounted, RemindersTypeOK
    <2> QED
      BY <2>5, <2>8, <2>10 DEF Accounted
  <1>6. CASE RolledBack(w, Answered(w, "sent") \union IF shown THEN {d} ELSE {},
                        moment + Interval)
    <2> DEFINE wake == moment + Interval
               ds == Answered(w, "sent") \union IF shown THEN {d} ELSE {}
    <2>1. wake \in 0..LastMoment + Interval
      BY RemindersAssumption DEF RemindersAssumption, Accounted, RemindersTypeOK
    <2>2. /\ EndsSweep(w, wake) /\ UNCHANGED delivered /\ excused' \subseteq Devices
          /\ forgotten' = [e \in Devices |-> forgotten[e] + IF e \in ds THEN 1 ELSE 0]
      BY <1>6 DEF RolledBack
    <2>3. \A e \in Devices :
            e \in ds <=> (OnRecord(e) /\ e \notin delivered) \/ (e = d /\ shown)
      <3>1. \A e \in Devices : OnRecord(e) <=> e \in delivered \/ e \in Answered(w, "sent")
        BY <1>2, <2>1, <2>2, EndsLeaves
      <3>2. \A e \in delivered : e \notin Answered(w, "sent")
        BY <1>2, <2>1, <2>2, EndsLeaves
      <3> QED
        BY <3>1, <3>2
    <2> HIDE DEF wake, ds
    <2>4. \A e \in Devices : Balanced(e)'
      <3>1. ASSUME NEW e \in Devices PROVE Balanced(e)'
        <4>1. OnRecord(e)' <=> e \in delivered
          BY <1>2, <2>1, <2>2, EndsLeaves
        <4>2. e \in delivered => OnRecord(e) /\ e # d
          BY <1>2 DEF OnRecord
        <4>3. alerts[e] \in Nat /\ forgotten[e] \in Nat /\ Balanced(e)
          BY DEF Accounted, RemindersTypeOK
        <4>4. forgotten'[e] = forgotten[e] + IF e \in ds THEN 1 ELSE 0
          BY <2>2
        <4> QED
          BY <1>3, <1>4, <2>3, <4>1, <4>2, <4>3, <4>4 DEF Balanced
      <3> QED
        BY <3>1
    <2>5. forgotten' \in [Devices -> 0..MaxAlerts]
      <3>1. ASSUME NEW e \in Devices PROVE forgotten'[e] \in 0..MaxAlerts
        BY <1>3, <2>2, <2>4 DEF Balanced, Accounted, RemindersTypeOK
      <3> QED
        BY <2>2, <3>1
    <2>6. RemindersTypeOK'
      BY <1>2, <1>3, <2>1, <2>2, <2>5, EndsLeaves DEF Accounted, RemindersTypeOK
    <2> QED
      BY <1>2, <2>1, <2>2, <2>4, <2>6, EndsLeaves DEF Accounted, Alone
  <1> QED
    BY <1>1, <1>5, <1>6

LEMMA UnregisterSafe ==
  ASSUME Accounted, NEW d \in Devices, Unregister(d)
  PROVE  Accounted'
  <1>1. /\ UNCHANGED <<moment, remindable, sweepLock, sweep, alerts>>
        /\ \A w \in Threads : sweep[w].rows[d] = "none"
        /\ registered' = registered \ {d} /\ delivered' = delivered \ {d}
        /\ excused' = excused \union {d}
        /\ forgotten' = [forgotten EXCEPT ![d] = @ + IF d \in delivered THEN 1 ELSE 0]
    BY DEF Unregister
  <1>2. \A e \in Devices : OnRecord(e)' <=> OnRecord(e) /\ e # d
    BY <1>1 DEF OnRecord
  <1>3. ASSUME NEW e \in Devices PROVE Balanced(e)' /\ forgotten'[e] \in 0..MaxAlerts
    <2>1. /\ alerts[e] \in 0..MaxAlerts /\ forgotten[e] \in Nat /\ Balanced(e)
          /\ forgotten'[e] = forgotten[e] + IF e = d /\ d \in delivered THEN 1 ELSE 0
      BY <1>1 DEF Accounted, RemindersTypeOK
    <2>2. e = d => (OnRecord(e) <=> e \in delivered)
      BY <1>1 DEF OnRecord
    <2> QED
      BY <1>1, <1>2, <2>1, <2>2, RemindersAssumption DEF RemindersAssumption, Balanced
  <1>4. RemindersTypeOK'
    BY <1>1, <1>3 DEF Accounted, RemindersTypeOK
  <1>5. \A w \in Threads : Alone(w)'
    BY <1>1 DEF Accounted, Alone
  <1> QED
    BY <1>3, <1>4, <1>5 DEF Accounted

-----------------------------------------------------------------------------
LEMMA AccountedAlways == RemindersSpec => []Accounted
  <1>1. Accounted /\ [RemindersNext]_remindersVars => Accounted'
    BY QuietSafe, SendSafe, SweepCommitSafe, SweepFailSafe, UnregisterSafe DEF RemindersNext
  <1> QED
    BY <1>1, InitAccounted, PTL DEF RemindersSpec

(* Two workers, slow sweeps, failures and devices that come and go: the    *)
(* lock and the delivery log make every second alert the price of one that *)
(* is not on record (run_push_reminder_sweep_once).                        *)
THEOREM RemindedOnceAlways == RemindersSpec => []RemindedOnce
  <1>1. Accounted => RemindedOnce
    BY DEF Accounted, Balanced, RemindersTypeOK, RemindedOnce
  <1> QED
    BY <1>1, AccountedAlways, PTL

(* The worker's state, the log and the lock have their types at any time,  *)
(* and only registered devices have rows.                                  *)
THEOREM RemindersTypeCorrect == RemindersSpec => []RemindersTypeOK
  <1>1. Accounted => RemindersTypeOK
    BY DEF Accounted
  <1> QED
    BY <1>1, AccountedAlways, PTL

-----------------------------------------------------------------------------
(* No reminder is missed without a reason.                                 *)

(* A worker that sleeps wakes in time, a sweep that took longer than the   *)
(* reserve has excused everybody, and who holds the lock is sweeping.      *)
Clocked ==
  /\ \A w \in Threads :
       /\ sweep[w].pc = "asleep" => moment <= sweep[w].wake
       /\ sweep[w].pc = "sweeping" =>
            /\ sweep[w].wake <= moment
            /\ moment <= sweep[w].wake + Reserve \/ excused = Devices
  /\ \A w \in Threads : sweepLock = w => sweep[w].pc = "sweeping"

Awaited(d) == remindable /\ alerts[d] = 0 /\ d \notin excused

(* Device d is still ahead of a sweep that began in the window.            *)
InHand(d) == \E w \in Threads : /\ sweep[w].pc = "sweeping" /\ d \in sweep[w].todo
                                /\ ReminderAt <= sweep[w].wake
                                /\ sweep[w].wake <= ReminderAt + ReminderWindow

(* No sweep has begun in the window, and every worker wakes before its end. *)
Coming == \A w \in Threads :
            /\ sweep[w].pc = "asleep" => sweep[w].wake < ReminderAt + ReminderWindow
            /\ sweep[w].pc = "sweeping" => sweep[w].wake < ReminderAt

Expected(d) ==
  Awaited(d) => /\ d \in registered /\ d \notin delivered
                /\ \A w \in Threads : sweep[w].rows[d] = "none"
                /\ InHand(d) \/ Coming

Punctual == Accounted /\ Clocked /\ \A d \in Devices : Expected(d)

LEMMA WindowSpans ==
  /\ Interval + Reserve = ReminderWindow /\ Reserve \in Nat /\ Interval < ReminderWindow
  /\ ReminderWindow \in Nat /\ Interval \in Nat /\ ReminderAt \in Nat
  BY RemindersAssumption DEF RemindersAssumption, Reserve, ReminderWindow

LEMMA AsleepUntil ==
  ASSUME NEW until
  PROVE  /\ Asleep(until).pc = "asleep" /\ Asleep(until).wake = until
         /\ Asleep(until).todo = {} /\ \A d \in Devices : Asleep(until).rows[d] = "none"
  BY DEF Asleep

LEMMA Sweeps ==
  ASSUME Accounted
  PROVE  /\ moment \in Nat
         /\ \A w \in Threads : /\ sweep[w].pc \in {"asleep", "sweeping"} /\ sweep[w].wake \in Nat
                               /\ sweep[w].todo \subseteq Devices
                               /\ sweep[w].pc = "asleep" => sweep[w].todo = {}
                               /\ sweep[w].pc = "sweeping" => sweepLock = w
  BY RemindersAssumption
  DEF RemindersAssumption, Accounted, RemindersTypeOK, SweepState, Alone

LEMMA InitPunctual == RemindersInit => Punctual
  <1> SUFFICES ASSUME RemindersInit PROVE Punctual
    OBVIOUS
  <1>1. PICK phase \in [Threads -> 0..Interval] : sweep = [w \in Threads |-> Asleep(phase[w])]
    BY DEF RemindersInit
  <1>2. \A w \in Threads : /\ sweep[w].pc = "asleep" /\ sweep[w].wake = phase[w]
                           /\ phase[w] \in 0..Interval
                           /\ \A d \in Devices : sweep[w].rows[d] = "none"
    BY <1>1, AsleepUntil
  <1>3. moment = 0 /\ sweepLock = None /\ registered = Devices /\ delivered = {}
    BY DEF RemindersInit
  <1>4. Clocked
    BY <1>2, <1>3, WindowSpans, HandlersAssumption DEF HandlersAssumption, Clocked
  <1>5. Coming
    BY <1>2, WindowSpans DEF Coming
  <1> QED
    BY <1>2, <1>3, <1>4, <1>5, InitAccounted DEF Punctual, Expected

(* A worker that is due begins to sweep, and finds the reminder in its     *)
(* window if it is time, or goes back to sleep since another one sweeps.   *)
LEMMA BeginPunctual ==
  ASSUME Punctual, NEW w \in Threads, BeginSweep(w)
  PROVE  Clocked' /\ \A d \in Devices : Expected(d)'
  <1>1. /\ sweep[w].pc = "asleep" /\ sweep[w].wake <= moment
        /\ UNCHANGED <<moment, remindable, registered, delivered, alerts, excused>>
    BY DEF BeginSweep
  <1>2. Accounted /\ sweep[w].wake = moment /\ moment \in Nat
    BY <1>1, Sweeps DEF Punctual, Clocked
  <1>3. CASE /\ LockIsFree
             /\ sweepLock' = w
             /\ sweep' = [sweep EXCEPT ![w].pc = "sweeping", ![w].wake = moment,
                                       ![w].todo = IF ReminderDue THEN registered ELSE {}]
    <2>1. \A v \in Threads : sweep[v].pc = "asleep"
      BY <1>2, <1>3, Sweeps, HandlersAssumption DEF HandlersAssumption, LockIsFree
    <2>2. /\ sweep'[w].pc = "sweeping" /\ sweep'[w].wake = moment
          /\ sweep'[w].todo = IF ReminderDue THEN registered ELSE {}
          /\ sweep'[w].rows = sweep[w].rows
          /\ \A v \in Threads : v # w => sweep'[v] = sweep[v]
      BY <1>2, <1>3 DEF Accounted, RemindersTypeOK, SweepState
    <2>3. Clocked'
      <3>1. moment <= moment + Reserve
        BY <1>2, WindowSpans
      <3>2. \A v \in Threads : v # w => /\ sweep'[v].pc = "asleep"
                                        /\ sweep'[v].wake = sweep[v].wake
                                        /\ moment <= sweep[v].wake
        BY <2>1, <2>2 DEF Punctual, Clocked
      <3> QED
        BY <1>1, <1>2, <1>3, <2>2, <3>1, <3>2 DEF Clocked
    <2>4. ASSUME NEW d \in Devices, Awaited(d) PROVE InHand(d)' \/ Coming'
      <3>1. Coming /\ d \in registered
        BY <2>1, <2>4 DEF Punctual, Expected, InHand
      <3>2. moment < ReminderAt + ReminderWindow
        BY <1>1, <1>2, <3>1 DEF Coming
      <3>3. CASE ReminderAt <= moment
        <4>1. ReminderDue
          BY <1>2, <2>4, <3>2, <3>3, WindowSpans DEF ReminderDue, Awaited
        <4>2. d \in sweep'[w].todo /\ sweep'[w].wake <= ReminderAt + ReminderWindow
          BY <1>2, <2>2, <3>1, <3>2, <4>1, WindowSpans
        <4>3. InHand(d)'
          BY <2>2, <3>3, <4>2 DEF InHand
        <4> QED
          BY <4>3
      <3>4. CASE moment < ReminderAt
        BY <2>1, <2>2, <3>1, <3>4 DEF Coming
      <3> QED
        BY <1>2, <3>3, <3>4, WindowSpans
    <2>5. \A d \in Devices : Expected(d)'
      BY <1>1, <2>2, <2>4 DEF Punctual, Expected, Awaited
    <2> QED
      BY <2>3, <2>5
  <1>4. CASE /\ ~LockIsFree
             /\ sweep' = [sweep EXCEPT ![w] = Asleep(moment + Interval)]
             /\ UNCHANGED sweepLock
    <2>1. /\ sweep'[w].pc = "asleep" /\ sweep'[w].wake = moment + Interval
          /\ \A d \in Devices : sweep'[w].rows[d] = "none"
          /\ \A v \in Threads : v # w => sweep'[v] = sweep[v]
      BY <1>2, <1>4, AsleepUntil DEF Accounted, RemindersTypeOK
    <2>2. PICK v \in Threads : sweep[v].pc = "sweeping" /\ v # w
      BY <1>1, <1>2, <1>4 DEF LockIsFree, Accounted, RemindersTypeOK, Punctual, Clocked
    <2>3. Clocked'
      BY <1>1, <1>2, <1>4, <2>1, WindowSpans, Sweeps DEF Clocked, Punctual
    <2>4. ASSUME NEW d \in Devices, Awaited(d) PROVE InHand(d)' \/ Coming'
      <3>1. CASE InHand(d)
        BY <1>1, <2>1, <3>1 DEF InHand
      <3>2. CASE Coming
        <4>1. /\ sweep[v].wake < ReminderAt /\ sweep[v].wake \in Nat
              /\ moment <= sweep[v].wake + Reserve
          BY <1>2, <2>2, <2>4, <3>2, Sweeps DEF Coming, Punctual, Clocked, Awaited
        <4>2. moment + Interval < ReminderAt + ReminderWindow
          BY <1>2, <4>1, WindowSpans
        <4> QED
          BY <2>1, <3>2, <4>2 DEF Coming
      <3> QED
        BY <2>4, <3>1, <3>2 DEF Punctual, Expected
    <2>5. \A d \in Devices : Expected(d)'
      BY <1>1, <2>1, <2>4 DEF Punctual, Expected, Awaited
    <2> QED
      BY <2>3, <2>5
  <1> QED
    BY <1>3, <1>4 DEF BeginSweep

(* A sweep is done with device d, and goes on with the others.             *)
LEMMA DonePunctual ==
  ASSUME Punctual, NEW w \in Threads, NEW d,
         UNCHANGED <<moment, remindable, registered, delivered, sweepLock>>,
         /\ sweep'[w].pc = sweep[w].pc /\ sweep'[w].wake = sweep[w].wake
         /\ sweep'[w].todo = sweep[w].todo \ {d}
         /\ \A e \in Devices \ {d} : sweep'[w].rows[e] = sweep[w].rows[e]
         /\ \A v \in Threads : v # w => sweep'[v] = sweep[v],
         excused \subseteq excused', excused' \subseteq Devices,
         \A e \in Devices \ {d} : alerts'[e] = alerts[e],
         d \in Devices => ~Awaited(d)'
  PROVE  Clocked' /\ \A e \in Devices : Expected(e)'
  <1>1. Clocked'
    BY DEF Punctual, Clocked
  <1>2. \A v \in Threads : sweep'[v].pc = sweep[v].pc /\ sweep'[v].wake = sweep[v].wake
    OBVIOUS
  <1>3. Coming => Coming'
    BY <1>2 DEF Coming
  <1>4. ASSUME NEW e \in Devices, e # d PROVE Expected(e)'
    <2>1. Awaited(e)' => Awaited(e)
      BY <1>4 DEF Awaited
    <2>2. InHand(e) => InHand(e)'
      <3>1. \A v \in Threads : e \in sweep[v].todo => e \in sweep'[v].todo
        BY <1>4
      <3> QED
        BY <1>2, <3>1 DEF InHand
    <2>3. \A v \in Threads : sweep'[v].rows[e] = sweep[v].rows[e]
      BY <1>4
    <2> QED
      BY <1>3, <2>1, <2>2, <2>3 DEF Punctual, Expected
  <1> QED
    BY <1>1, <1>4 DEF Expected

(* The sweep ends: it has reached everybody it was to reach, so a reminder *)
(* that is still awaited was not in its window, and comes in the next; or  *)
(* it was rolled back, which excuses everybody.                            *)
LEMMA EndPunctual ==
  ASSUME Punctual, NEW w \in Threads, sweep[w].pc = "sweeping",
         NEW wake \in {moment, moment + Interval}, EndsSweep(w, wake),
         UNCHANGED <<moment, remindable>>,
         \/ excused' = Devices
         \/ /\ sweep[w].todo = {} /\ wake = moment + Interval /\ UNCHANGED <<alerts, excused>>
            /\ registered' = registered \ Answered(w, "rejected")
            /\ delivered' = delivered \union Answered(w, "sent")
  PROVE  Clocked' /\ \A d \in Devices : Expected(d)'
  <1>1. Accounted /\ moment \in Nat /\ moment <= wake
    BY Sweeps, WindowSpans DEF Punctual
  <1>2. /\ sweep'[w].pc = "asleep" /\ sweep'[w].wake = wake
        /\ \A d \in Devices : sweep'[w].rows[d] = "none"
        /\ \A v \in Threads : v # w => sweep'[v] = sweep[v] /\ sweep[v].pc = "asleep"
        /\ sweepLock' = None
    BY <1>1, AsleepUntil, Sweeps DEF EndsSweep, Accounted, RemindersTypeOK
  <1>3. Clocked'
    BY <1>1, <1>2, HandlersAssumption DEF HandlersAssumption, Punctual, Clocked
  <1>4. CASE excused' = Devices
    BY <1>3, <1>4 DEF Expected, Awaited
  <1>5. CASE /\ sweep[w].todo = {} /\ wake = moment + Interval /\ UNCHANGED <<alerts, excused>>
             /\ registered' = registered \ Answered(w, "rejected")
             /\ delivered' = delivered \union Answered(w, "sent")
    <2>1. ASSUME NEW d \in Devices, Awaited(d) PROVE Coming'
      <3>1. Coming
        BY <1>2, <1>5, <2>1 DEF Punctual, Expected, InHand
      <3>2. /\ sweep[w].wake < ReminderAt /\ sweep[w].wake \in Nat
            /\ moment <= sweep[w].wake + Reserve
        BY <1>1, <2>1, <3>1, Sweeps DEF Coming, Punctual, Clocked, Awaited
      <3>3. wake < ReminderAt + ReminderWindow
        BY <1>1, <1>5, <3>2, WindowSpans
      <3> QED
        BY <1>2, <3>1, <3>3 DEF Coming
    <2>2. \A d \in Devices : Awaited(d) => d \notin Answered(w, "rejected")
                                           /\ d \notin Answered(w, "sent")
      BY DEF Punctual, Expected, Answered
    <2>3. \A d \in Devices : Awaited(d)' => Awaited(d)
      BY <1>5 DEF Awaited
    <2>4. \A d \in Devices : Expected(d)'
      BY <1>2, <1>5, <2>1, <2>2, <2>3 DEF Punctual, Expected
    <2> QED
      BY <1>3, <2>4
  <1> QED
    BY <1>4, <1>5

LEMMA SendPunctual ==
  ASSUME Punctual, NEW w \in Threads, SendReminder(w)
  PROVE  Clocked' /\ \A d \in Devices : Expected(d)'
  <1>1. PICK d \in sweep[w].todo \ delivered, o \in Outcomes :
          /\ alerts' = IF o.shown THEN [alerts EXCEPT ![d] = @ + 1] ELSE alerts
          /\ \/ /\ d \in registered
                /\ sweep' = [sweep EXCEPT ![w].todo = @ \ {d}, ![w].rows[d] = o.answer]
                /\ excused' = IF o.shown THEN excused ELSE excused \union {d}
                /\ UNCHANGED <<delivered, sweepLock>>
             \/ /\ d \notin registered
                /\ RolledBack(w, Answered(w, "sent") \union IF o.shown THEN {d} ELSE {},
                              moment + Interval)
    BY DEF SendReminder
  <1>2. Accounted /\ d \in Devices /\ sweep[w].pc = "sweeping"
        /\ UNCHANGED <<moment, remindable, registered>>
    BY <1>1, Sweeps DEF SendReminder, Punctual
  <1>3. CASE /\ d \in registered
             /\ sweep' = [sweep EXCEPT ![w].todo = @ \ {d}, ![w].rows[d] = o.answer]
             /\ excused' = IF o.shown THEN excused ELSE excused \union {d}
             /\ UNCHANGED <<delivered, sweepLock>>
    <2>1. /\ sweep'[w].pc = sweep[w].pc /\ sweep'[w].wake = sweep[w].wake
          /\ sweep'[w].todo = sweep[w].todo \ {d}
          /\ \A e \in Devices \ {d} : sweep'[w].rows[e] = sweep[w].rows[e]
          /\ \A v \in Threads : v # w => sweep'[v] = sweep[v]
      BY <1>2, <1>3 DEF Accounted, RemindersTypeOK, SweepState
    <2>2. /\ \A e \in Devices \ {d} : alerts'[e] = alerts[e]
          /\ o.shown => alerts'[d] # 0
      BY <1>1, <1>2 DEF Accounted, RemindersTypeOK
    <2>3. ~Awaited(d)' /\ excused \subseteq excused' /\ excused' \subseteq Devices
      BY <1>2, <1>3, <2>2 DEF Awaited, Accounted, RemindersTypeOK
    <2> QED
      BY <1>2, <1>3, <2>1, <2>2, <2>3, DonePunctual
  <1>4. CASE RolledBack(w, Answered(w, "sent") \union IF o.shown THEN {d} ELSE {},
                        moment + Interval)
    BY <1>2, <1>4, EndPunctual DEF RolledBack
  <1> QED
    BY <1>1, <1>3, <1>4

LEMMA NextPunctual == Punctual /\ [RemindersNext]_remindersVars => Punctual'
  <1> SUFFICES ASSUME Punctual, [RemindersNext]_remindersVars
               PROVE  Clocked' /\ \A d \in Devices : Expected(d)'
    BY QuietSafe, SendSafe, SweepCommitSafe, SweepFailSafe, UnregisterSafe DEF RemindersNext, Punctual
  <1> USE DEF Punctual
  <1>1. ASSUME NEW w \in Threads, SkipDelivered(w)
        PROVE  Clocked' /\ \A d \in Devices : Expected(d)'
    <2>1. PICK d \in sweep[w].todo \intersect delivered :
            sweep' = [sweep EXCEPT ![w].todo = @ \ {d}]
      BY <1>1 DEF SkipDelivered
    <2>2. UNCHANGED <<moment, remindable, registered, delivered, sweepLock, alerts, excused>>
      BY <1>1 DEF SkipDelivered
    <2>3. /\ sweep'[w].pc = sweep[w].pc /\ sweep'[w].wake = sweep[w].wake
          /\ sweep'[w].todo = sweep[w].todo \ {d}
          /\ \A e \in Devices \ {d} : sweep'[w].rows[e] = sweep[w].rows[e]
          /\ \A v \in Threads : v # w => sweep'[v] = sweep[v]
      BY <2>1 DEF Accounted, RemindersTypeOK, SweepState
    <2>4. d \in Devices => ~Awaited(d)'
      BY <2>1, <2>2 DEF Expected, Awaited
    <2>5. excused \subseteq Devices
      BY DEF Accounted, RemindersTypeOK
    <2> QED
      BY <2>2, <2>3, <2>4, <2>5, DonePunctual
  <1>2. ASSUME NEW w \in Threads, CommitSweep(w)
        PROVE  Clocked' /\ \A d \in Devices : Expected(d)'
    BY <1>2, EndPunctual DEF CommitSweep
  <1>3. ASSUME NEW w \in Threads, FailSweep(w)
        PROVE  Clocked' /\ \A d \in Devices : Expected(d)'
    BY <1>3, EndPunctual DEF FailSweep, RolledBack
  <1>4. ASSUME NEW d \in Devices, Unregister(d) \/ Register(d)
        PROVE  Clocked' /\ \A e \in Devices : Expected(e)'
    <2>1. /\ UNCHANGED <<moment, remindable, sweepLock, sweep, alerts>>
          /\ excused \subseteq excused' /\ excused' \subseteq Devices
          /\ \A e \in Devices : Awaited(e)' =>
               /\ e \in registered => e \in registered'
               /\ e \notin delivered => e \notin delivered'
      BY <1>4 DEF Register, Unregister, Awaited, Accounted, RemindersTypeOK
    <2>2. Clocked' /\ (Coming => Coming') /\ \A e \in Devices : InHand(e) => InHand(e)'
      BY <2>1 DEF Clocked, Coming, InHand
    <2>3. \A e \in Devices : Awaited(e)' => Awaited(e)
      BY <2>1 DEF Awaited
    <2> QED
      BY <2>1, <2>2, <2>3 DEF Expected
  <1>5. CASE SubmitRemindable
    BY <1>5 DEF SubmitRemindable, Clocked, Expected, Awaited
  <1>6. CASE TickReminders
    <2>1. /\ \A w \in Threads : sweep[w].pc = "asleep" => sweep[w].wake > moment
          /\ moment' = moment + 1 /\ excused \subseteq excused'
          /\ excused' = IF \E w \in Threads : /\ sweep[w].pc = "sweeping"
                                              /\ moment' - sweep[w].wake > Reserve
                        THEN Devices ELSE excused
          /\ UNCHANGED <<remindable, registered, delivered, sweepLock, sweep, alerts>>
      BY <1>6 DEF TickReminders, Accounted, RemindersTypeOK
    <2>2. Clocked'
      BY <2>1, Sweeps, WindowSpans DEF Clocked
    <2>3. (Coming => Coming') /\ \A e \in Devices : InHand(e) => InHand(e)'
      BY <2>1 DEF Coming, InHand
    <2>4. \A e \in Devices : Awaited(e)' => Awaited(e)
      BY <2>1 DEF Awaited
    <2> QED
      BY <2>1, <2>2, <2>3, <2>4 DEF Expected
  <1>7. CASE UNCHANGED remindersVars
    BY <1>7 DEF remindersVars, Clocked, Expected, Awaited, InHand, Coming
  <1> QED
    BY <1>1, <1>2, <1>3, <1>4, <1>5, <1>6, <1>7, BeginPunctual, SendPunctual DEF RemindersNext

(* The window a sweep looks back (the interval and 30 seconds, at least 90) *)
(* closes the gaps between the sweeps of a process that wakes and of those  *)
(* that found it sweeping: however many processes run, a reminder of a task *)
(* that stays open is missed only for a reason the code gives: a sweep that *)
(* took longer than the reserve, a rollback, a refusal of the provider, a   *)
(* device that was unregistered.  Threads # {}: a process runs the worker.  *)
THEOREM MissedAlwaysExplained ==
  ASSUME Threads # {}
  PROVE  RemindersSpec => []MissedExplained
  <1>1. Punctual => MissedExplained
    <2> SUFFICES ASSUME Punctual, NEW d \in Devices, Awaited(d)
                 PROVE  moment <= ReminderAt + ReminderWindow + Reserve
      BY Sweeps, WindowSpans DEF MissedExplained, Awaited, Punctual
    <2>1. \A w \in Threads : sweep[w].pc = "sweeping" => moment <= sweep[w].wake + Reserve
      BY DEF Punctual, Clocked, Awaited
    <2>2. CASE InHand(d)
      BY <2>1, <2>2, Sweeps, WindowSpans DEF InHand, Punctual
    <2>3. CASE Coming
      <3>1. PICK w \in Threads : TRUE
        OBVIOUS
      <3> QED
        BY <2>1, <2>3, <3>1, Sweeps, WindowSpans DEF Coming, Punctual, Clocked
    <2> QED
      BY <2>2, <2>3 DEF Punctual, Expected
  <1> QED
    BY <1>1, InitPunctual, NextPunctual, PTL DEF RemindersSpec

-----------------------------------------------------------------------------
(* LoginLimiter                                                            *)

LEMMA Spans ==
  /\ MaxKeys \in Nat \ {0} /\ Attempts \in Nat \ {0} /\ Window \in Nat \ {0} /\ Block \in Nat \ {0}
  /\ MaxLag \in Nat \ {0} /\ MaxTime \in Nat \ {0}
  /\ Reach \in Int /\ Reach <= Window /\ Block >= Reach + MaxLag
  BY LoginAssumption DEF LoginAssumption, Reach

(* A set of positions that holds with each one all before it is an initial  *)
(* segment.                                                                *)
LEMMA InitialSegment ==
  ASSUME NEW m \in Nat, NEW S, S \subseteq 1..m, \A i \in S : 1..i \subseteq S
  PROVE  S = 1..Cardinality(S) /\ Cardinality(S) \in 0..m
  <1> DEFINE Within == {n \in Nat : 1..n \subseteq S}
  <1>1. \E n \in 0..m : S = 1..n
    <2> SUFFICES ASSUME \A n \in 0..m : S # 1..n PROVE FALSE
      OBVIOUS
    <2>1. 0 \in Within
      OBVIOUS
    <2>2. ASSUME NEW n \in Within \intersect Nat PROVE n + 1 \in Within
      <3>1. n <= m
        <4>1. n # 0 => n \in 1..n
          BY <2>2
        <4> QED
          BY <2>2, <4>1
      <3>2. PICK i \in S : i \notin 1..n
        <4>1. n \in 0..m /\ 1..n \subseteq S
          BY <2>2, <3>1
        <4>2. S # 1..n
          BY <4>1
        <4> QED
          BY <4>1, <4>2
      <3>3. n + 1 \in 1..i
        BY <3>2
      <3>4. n + 1 \in S
        BY <3>2, <3>3
      <3> QED
        BY <2>2, <3>4
    <2>3. Nat \subseteq Within
      <3> HIDE DEF Within
      <3> QED
        BY <2>1, <2>2, NatSetInduction
    <2>4. m + 1 \in Within
      BY <2>3
    <2>5. m + 1 \in S
      BY <2>4
    <2> QED
      BY <2>5
  <1>2. PICK n \in 0..m : S = 1..n
    BY <1>1
  <1>3. Cardinality(1..n) = n
    BY FS_Interval
  <1> QED
    BY <1>2, <1>3

(* How many positions Since counts. *)
LEMMA SinceFinite ==
  ASSUME NEW s \in Seq(Moments), NEW time
  PROVE  /\ IsFiniteSet(Since(s, time))
         /\ Cardinality(Since(s, time)) \in 0..Len(s)
  <1>1. IsFiniteSet(1..Len(s)) /\ Cardinality(1..Len(s)) = Len(s)
    <2>1. Len(s) \in Nat
      OBVIOUS
    <2> QED
      BY <2>1, FS_Interval
  <1>2. Since(s, time) \in SUBSET (1..Len(s))
    BY DEF Since
  <1> QED
    BY <1>1, <1>2, FS_Subset, FS_CardinalityType

LEMMA NothingSince ==
  /\ Len(<<>>) = 0
  /\ \A time : Cardinality(Since(<<>>, time)) = 0
  <1>1. \A time : Since(<<>>, time) = {}
    BY DEF Since
  <1> QED
    BY <1>1, FS_EmptySet

(* The later the time, the fewer are later still. *)
LEMMA SinceLater ==
  ASSUME NEW s \in Seq(Moments), NEW time \in Int, NEW later \in Int, time <= later
  PROVE  Cardinality(Since(s, later)) <= Cardinality(Since(s, time))
  <1>1. Since(s, later) \in SUBSET Since(s, time)
    <2>1. \A i \in 1..Len(s) : s[i] \in Int
      BY Spans DEF Moments
    <2> QED
      BY <2>1 DEF Since
  <1> QED
    BY <1>1, SinceFinite, FS_Subset

(* One more position. *)
LEMMA SinceAppend ==
  ASSUME NEW s \in Seq(Moments), NEW x \in Moments, NEW time \in Int
  PROVE  Cardinality(Since(Append(s, x), time)) =
           Cardinality(Since(s, time)) + IF x > time THEN 1 ELSE 0
  <1>1. /\ Len(Append(s, x)) = Len(s) + 1 /\ Append(s, x)[Len(s) + 1] = x
        /\ \A i \in 1..Len(s) : Append(s, x)[i] = s[i]
    OBVIOUS
  <1>2. Since(Append(s, x), time) =
          IF x > time THEN Since(s, time) \union {Len(s) + 1} ELSE Since(s, time)
    BY <1>1 DEF Since, Moments
  <1>3. Len(s) + 1 \notin Since(s, time)
    BY DEF Since
  <1>4. IsFiniteSet(Since(s, time)) /\ Cardinality(Since(s, time)) \in Nat
    BY SinceFinite
  <1>5. Cardinality(Since(s, time) \union {Len(s) + 1}) = Cardinality(Since(s, time)) + 1
    BY <1>3, <1>4, FS_AddElement
  <1> QED
    BY <1>2, <1>4, <1>5

(* Prune drops a prefix, of attempts that are too old to count.            *)
LEMMA PruneKeeps ==
  ASSUME NEW s \in Seq(Moments), NEW now \in Int
  PROVE  /\ Prune(s, now) \in Seq(Moments)
         /\ Len(Prune(s, now)) <= Len(s)
         /\ \A time \in Int : time >= now - Window =>
              Cardinality(Since(s, time)) <= Cardinality(Since(Prune(s, now), time))
  <1> DEFINE old == {i \in 1..Len(s) : \A j \in 1..i : s[j] < now - Window}
             n == Cardinality(old)
             p == SubSeq(s, n + 1, Len(s))
  <1>1. old = 1..n /\ n \in 0..Len(s)
    <2>1. old \subseteq 1..Len(s) /\ \A i \in old : 1..i \subseteq old
      OBVIOUS
    <2>2. Len(s) \in Nat
      OBVIOUS
    <2> HIDE DEF old
    <2> QED
      BY <2>1, <2>2, InitialSegment
  <1>2. \A i \in 1..n : s[i] < now - Window
    BY <1>1
  <1>3. Prune(s, now) = p
    BY DEF Prune
  <1> HIDE DEF old, n
  <1>4. /\ p \in Seq(Moments) /\ Len(p) = Len(s) - n
        /\ \A i \in 1..Len(s) - n : p[i] = s[n + i]
    <2>1. \A i \in n + 1..Len(s) : s[i] \in Moments
      BY <1>1
    <2> QED
      BY <1>1, <2>1, SubSeqProperties
  <1> HIDE DEF p
  <1>5. ASSUME NEW time \in Int, time >= now - Window
        PROVE  Cardinality(Since(s, time)) <= Cardinality(Since(p, time))
    <2> DEFINE f == [i \in Since(s, time) |-> i - n]
    <2>1. ASSUME NEW i \in Since(s, time) PROVE i - n \in Since(p, time)
      <3>1. i \in 1..Len(s) /\ s[i] > time /\ s[i] \in Moments
        BY DEF Since
      <3>2. i > n
        BY <1>1, <1>2, <1>5, <3>1, Spans DEF Moments
      <3>3. i - n \in 1..Len(p) /\ p[i - n] = s[i]
        BY <1>1, <1>4, <3>1, <3>2
      <3> QED
        BY <3>1, <3>3 DEF Since
    <2>2. f \in Injection(Since(s, time), Since(p, time))
      <3>1. f \in [Since(s, time) -> Since(p, time)]
        BY <2>1
      <3>2. \A i, j \in Since(s, time) : f[i] = f[j] => i = j
        BY <1>1 DEF Since
      <3> QED
        BY <3>1, <3>2, Fun_IsInj
    <2>3. IsFiniteSet(Since(p, time))
      BY <1>4, SinceFinite
    <2> QED
      BY <2>2, <2>3, FS_Injection
  <1> QED
    BY <1>1, <1>3, <1>4, <1>5

Guessing(k) == {t \in Threads : login[t].key = k /\ login[t].pc \in {"verifying", "failed"}}

(* What is remembered of a key accounts for its guesses: those that count   *)
(* now, and will when the block is over, are among the attempts; so a       *)
(* request that passes the check leaves room for itself.                    *)
Remembered(k) ==
  \A time \in Int :
    time >= clock - Reach /\ time >= Known(k).blockedUntil - Reach
      => Cardinality(Since(guesses[k], time)) <= Cardinality(Since(Known(k).attempts, time))

Limited(k) ==
  /\ Len(Known(k).attempts) < Attempts
  /\ \A i \in 1..Len(guesses[k]) : guesses[k][i] <= clock
  /\ Remembered(k)
  /\ Cardinality(Since(guesses[k], clock - Reach)) + Cardinality(Guessing(k))
       <= Attempts + Cardinality(Threads) - 1

Prompt(t) ==
  /\ login[t].now <= clock
  /\ login[t].pc \in {"asking", "failed"} => clock <= login[t].now + MaxLag
  /\ login[t].pc # "idle" => login[t].key \in Keys

LimitKept == /\ LoginTypeOK /\ IsFiniteSet(DOMAIN limiter)
             /\ \A t \in Threads : Prompt(t)
             /\ \A k \in Keys : Limited(k)

LEMMA LoginStarts == LoginInit => LimitKept
  <1> SUFFICES ASSUME LoginInit PROVE LimitKept
    OBVIOUS
  <1>1. limiter = [k \in {} |-> NewAttemptState] /\ DOMAIN limiter = {} /\ clock = 0
        /\ login = [t \in Threads |-> NoLogin] /\ guesses = [k \in Keys |-> <<>>]
    BY DEF LoginInit
  <1>2. IsFiniteSet(DOMAIN limiter) /\ Cardinality(DOMAIN limiter) = 0
    BY <1>1, FS_EmptySet
  <1>3. LoginTypeOK
    BY <1>1, <1>2, Spans DEF LoginTypeOK, NoLogin, Moments
  <1>4. \A t \in Threads : Prompt(t)
    BY <1>1 DEF Prompt, NoLogin
  <1>5. ASSUME NEW k \in Keys PROVE Limited(k)
    <2>1. Known(k) = NewAttemptState /\ guesses[k] = <<>>
      BY <1>1 DEF Known
    <2>2. Guessing(k) = {}
      BY <1>1 DEF Guessing, NoLogin
    <2>3. Cardinality(Guessing(k)) = 0 /\ Cardinality(Threads) \in Nat
      BY <2>2, ThreadsAssumption, FS_CardinalityType, FS_EmptySet
    <2> QED
      BY <2>1, <2>3, NothingSince, Spans DEF Limited, Remembered, NewAttemptState
  <1> QED
    BY <1>2, <1>3, <1>4, <1>5 DEF LimitKept

(* What is counted, is counted in natural numbers.                         *)
LEMMA Counts ==
  ASSUME LoginTypeOK, NEW k \in Keys
  PROVE  /\ Known(k) \in AttemptState /\ guesses[k] \in Seq(Moments) /\ clock \in Nat
         /\ IsFiniteSet(Guessing(k)) /\ Cardinality(Guessing(k)) \in Nat
         /\ Cardinality(Threads) \in Nat /\ Cardinality(Guessing(k)) <= Cardinality(Threads)
         /\ Cardinality(Since(guesses[k], clock - Reach)) \in Nat
  <1>1. Guessing(k) \in SUBSET Threads
    BY DEF Guessing
  <1>2. /\ IsFiniteSet(Guessing(k)) /\ Cardinality(Guessing(k)) \in Nat
        /\ Cardinality(Threads) \in Nat /\ Cardinality(Guessing(k)) <= Cardinality(Threads)
    BY <1>1, ThreadsAssumption, FS_Subset, FS_CardinalityType
  <1>3. NewAttemptState \in AttemptState
    BY Spans DEF NewAttemptState, AttemptState, Moments
  <1>4. Known(k) \in AttemptState
    BY <1>3 DEF Known, LoginTypeOK
  <1>5. guesses[k] \in Seq(Moments) /\ clock \in Nat
    BY Spans DEF LoginTypeOK, Moments
  <1>6. Cardinality(Since(guesses[k], clock - Reach)) \in Nat
    BY <1>5, SinceFinite
  <1> QED
    BY <1>2, <1>4, <1>5, <1>6

(* A key that a step does not touch.                                       *)
LEMMA Untouched ==
  ASSUME LoginTypeOK, NEW k \in Keys, Limited(k),
         clock' = clock, guesses'[k] = guesses[k], Known(k)' = Known(k),
         Guessing(k)' \subseteq Guessing(k)
  PROVE  Limited(k)'
  <1>1. Cardinality(Guessing(k)') <= Cardinality(Guessing(k)) /\ Cardinality(Guessing(k)') \in Nat
    BY Counts, FS_Subset, FS_CardinalityType
  <1> QED
    BY <1>1, Counts, Spans DEF Limited, Remembered

(* A key that is forgotten starts anew, whoever tries a password for it.   *)
LEMMA Forgotten ==
  ASSUME LoginTypeOK, NEW k \in Keys, clock' = clock, guesses'[k] = <<>>, Known(k)' = NewAttemptState
  PROVE  Limited(k)'
  <1>1. Guessing(k)' \in SUBSET Threads
    BY DEF Guessing
  <1>2. /\ Cardinality(Guessing(k)') \in Nat /\ Cardinality(Threads) \in Nat
        /\ Cardinality(Guessing(k)') <= Cardinality(Threads)
    BY <1>1, ThreadsAssumption, FS_Subset, FS_CardinalityType
  <1> QED
    BY <1>2, NothingSince, Spans DEF Limited, Remembered, NewAttemptState

(* A request moves on or ends. *)
LEMMA OthersWait ==
  ASSUME LoginTypeOK, NEW t \in Threads, NEW r, login' = [login EXCEPT ![t] = r]
  PROVE  /\ login'[t] = r
         /\ \A u \in Threads : u # t => login'[u] = login[u]
         /\ \A k : k # r.key => Guessing(k)' \subseteq Guessing(k)
         /\ \A k : r.pc \notin {"verifying", "failed"} => Guessing(k)' \subseteq Guessing(k)
         /\ \A k : login[t].key = r.key /\ login[t].pc \in {"verifying", "failed"}
                     => Guessing(k)' \subseteq Guessing(k)
  BY DEF LoginTypeOK, Guessing

(* A request that touches neither the limiter nor the guesses, and is not   *)
(* past the check afterwards unless it was before.                         *)
LEMMA RequestOnly ==
  ASSUME LimitKept, NEW t \in Threads, NEW r, login' = [login EXCEPT ![t] = r],
         UNCHANGED <<clock, limiter, guesses>>,
         r \in [pc: {"idle", "asking", "verifying", "failed", "matched"},
                key: Keys \union {None}, now: Moments],
         r.now <= clock, r.pc \in {"asking", "failed"} => clock <= r.now + MaxLag,
         r.pc # "idle" => r.key \in Keys,
         \/ r.pc \notin {"verifying", "failed"}
         \/ login[t].key = r.key /\ login[t].pc \in {"verifying", "failed"}
  PROVE  LimitKept'
  <1> USE DEF LimitKept
  <1>1. LoginTypeOK'
    BY DEF LoginTypeOK
  <1>2. ASSUME NEW u \in Threads PROVE Prompt(u)'
    BY OthersWait DEF Prompt
  <1>3. ASSUME NEW k \in Keys PROVE Limited(k)'
    <2>1. Guessing(k)' \subseteq Guessing(k)
      BY OthersWait
    <2>2. Known(k)' = Known(k)
      BY DEF Known
    <2> QED
      BY <2>1, <2>2, Untouched
  <1> QED
    BY <1>1, <1>2, <1>3

LEMMA AskKept == ASSUME LimitKept, NEW t \in Threads, AskRetryAfter(t) PROVE LimitKept'
  <1>1. PICK k \in Keys : login' = [login EXCEPT ![t] = [pc |-> "asking", key |-> k, now |-> clock]]
    BY DEF AskRetryAfter
  <1>2. clock \in Moments /\ clock \in Nat
    BY Spans DEF LimitKept, LoginTypeOK, Moments
  <1> DEFINE r == [pc |-> "asking", key |-> k, now |-> clock]
  <1>3. /\ r \in [pc: {"idle", "asking", "verifying", "failed", "matched"},
                  key: Keys \union {None}, now: Moments]
        /\ r.now <= clock /\ clock <= r.now + MaxLag /\ r.key \in Keys
        /\ r.pc \notin {"verifying", "failed"}
    BY <1>2, Spans
  <1>4. UNCHANGED <<clock, limiter, guesses>>
    BY DEF AskRetryAfter
  <1>5. login' = [login EXCEPT ![t] = r]
    BY <1>1
  <1> HIDE DEF r
  <1> QED
    BY <1>3, <1>4, <1>5, RequestOnly

LEMMA VerifyKept == ASSUME LimitKept, NEW t \in Threads, VerifyPassword(t) PROVE LimitKept'
  <1>1. /\ login[t] \in [pc: {"idle", "asking", "verifying", "failed", "matched"},
                         key: Keys \union {None}, now: Moments]
        /\ login[t].pc = "verifying" /\ login[t].key \in Keys /\ login[t].now <= clock
        /\ clock \in Moments /\ clock \in Nat /\ 0 \in Moments
    BY Spans DEF LimitKept, LoginTypeOK, VerifyPassword, Prompt, Moments
  <1>2. PICK r \in {[login[t] EXCEPT !.pc = "failed", !.now = clock],
                    [login[t] EXCEPT !.pc = "matched"], NoLogin} :
          login' = [login EXCEPT ![t] = r]
    <2>1. login[t].pc = "verifying" /\ login \in [Threads -> [pc: {"idle", "asking", "verifying", "failed", "matched"},
                                       key: Keys \union {None}, now: Moments]]
      BY DEF VerifyPassword, LimitKept, LoginTypeOK
    <2>2. [login EXCEPT ![t].pc = "matched"] = [login EXCEPT ![t] = [login[t] EXCEPT !.pc = "matched"]]
      BY <2>1
    <2> QED
      BY <2>1, <2>2 DEF VerifyPassword
  <1>3. /\ r \in [pc: {"idle", "asking", "verifying", "failed", "matched"},
                  key: Keys \union {None}, now: Moments]
        /\ r.now <= clock /\ (r.pc = "failed" => r.now = clock) /\ r.pc # "asking"
        /\ r.pc # "idle" => r.key = login[t].key
    <2> DEFINE old == login[t]
    <2>1. CASE r = [old EXCEPT !.pc = "failed", !.now = clock]
      <3> DEFINE w == [old EXCEPT !.pc = "failed"]
      <3>1. /\ w \in [pc: {"failed"}, key: Keys \union {None}, now: Moments]
            /\ w.key = old.key
        BY <1>1
      <3>2. r = [w EXCEPT !.now = clock]
        BY <2>1
      <3> HIDE DEF w
      <3> QED
        BY <1>1, <3>1, <3>2
    <2>2. CASE r = [old EXCEPT !.pc = "matched"]
      BY <1>1, <2>2
    <2>3. CASE r = NoLogin
      BY <1>1, <2>3, Spans DEF NoLogin
    <2> QED
      BY <1>2, <2>1, <2>2, <2>3
  <1>4. UNCHANGED <<clock, limiter, guesses>>
    BY DEF VerifyPassword
  <1>5. r.pc \in {"asking", "failed"} => clock <= r.now + MaxLag
    BY <1>1, <1>3, Spans
  <1> QED
    BY <1>1, <1>2, <1>3, <1>4, <1>5, RequestOnly

LEMMA StateOfKey ==
  ASSUME NEW a \in Seq(Moments), NEW b \in 0..MaxTime + Block, NEW now \in Moments
  PROVE  [attempts |-> a, blockedUntil |-> b, lastSeen |-> now] \in AttemptState
  BY DEF AttemptState

(* What the check makes of the state of a key.                             *)
LEMMA CheckedState ==
  ASSUME NEW x \in AttemptState, NEW q, NEW now
  PROVE  /\ [x EXCEPT !.attempts = q, !.lastSeen = now]
              = [attempts |-> q, blockedUntil |-> x.blockedUntil, lastSeen |-> now]
         /\ [[x EXCEPT !.attempts = q, !.lastSeen = now] EXCEPT !.blockedUntil = 0]
              = [attempts |-> q, blockedUntil |-> 0, lastSeen |-> now]
  <1> DEFINE w == [x EXCEPT !.attempts = q]
             y == [w EXCEPT !.lastSeen = now]
             z == [y EXCEPT !.blockedUntil = 0]
  <1>1. w = [attempts |-> q, blockedUntil |-> x.blockedUntil, lastSeen |-> x.lastSeen]
    BY DEF AttemptState
  <1> HIDE DEF w
  <1>2. y = [attempts |-> q, blockedUntil |-> x.blockedUntil, lastSeen |-> now]
    BY <1>1
  <1> HIDE DEF y
  <1>3. z = [attempts |-> q, blockedUntil |-> 0, lastSeen |-> now]
    BY <1>2
  <1> QED
    BY <1>2, <1>3 DEF w, y

(* The check of a key that is tracked, and prunes its attempts.             *)
LEMMA Pruned ==
  ASSUME LimitKept, NEW k \in Keys, k \in DOMAIN limiter, NEW now \in Moments, now <= clock,
         NEW until, \/ until = limiter[k].blockedUntil
                    \/ until = 0 /\ limiter[k].blockedUntil <= clock,
         NEW r, r = [attempts |-> Prune(limiter[k].attempts, now), blockedUntil |-> until,
                     lastSeen |-> now],
         limiter' = [limiter EXCEPT ![k] = r], UNCHANGED <<clock, guesses>>
  PROVE  /\ r \in AttemptState /\ Known(k)' = r /\ Len(r.attempts) < Attempts /\ Remembered(k)'
         /\ \A j : j # k => Known(j)' = Known(j)
         /\ DOMAIN limiter' = DOMAIN limiter
         /\ \A j \in DOMAIN limiter' : limiter'[j] \in AttemptState
  <1> USE DEF LimitKept
  <1>1. Known(k) = limiter[k] /\ Known(k) \in AttemptState /\ Limited(k)
    BY Counts DEF Known
  <1>2. /\ Known(k).attempts \in Seq(Moments) /\ Known(k).blockedUntil \in 0..MaxTime + Block
        /\ clock \in Nat /\ now \in Int
    BY <1>1, Counts, Spans DEF AttemptState, Moments
  <1>3. /\ r.attempts \in Seq(Moments) /\ Len(r.attempts) <= Len(Known(k).attempts)
        /\ \A time \in Int : time >= now - Window =>
             Cardinality(Since(Known(k).attempts, time)) <= Cardinality(Since(r.attempts, time))
    BY <1>1, <1>2, PruneKeeps
  <1>4. r \in AttemptState
    BY <1>1, <1>2, <1>3, Spans DEF AttemptState
  <1>5. Known(k)' = r /\ \A j : j # k => Known(j)' = Known(j)
    BY DEF Known
  <1>6. Len(r.attempts) < Attempts
    BY <1>1, <1>2, <1>3, Spans DEF Limited
  <1>7. ASSUME NEW time \in Int, time >= clock - Reach, time >= until - Reach
        PROVE  Cardinality(Since(guesses[k], time)) <= Cardinality(Since(r.attempts, time))
    <2>1. time >= Known(k).blockedUntil - Reach /\ time >= now - Window
      <3>1. /\ Known(k).blockedUntil \in Nat /\ Window \in Nat /\ Reach \in Int /\ Reach <= Window
        <4>1. MaxTime + Block \in Nat /\ Window \in Nat /\ Reach \in Int /\ Reach <= Window
          BY ONLY Spans
        <4> QED
          BY ONLY <1>2, <4>1
      <3>2. until = Known(k).blockedUntil \/ Known(k).blockedUntil <= clock
        BY <1>1
      <3> HIDE DEF LimitKept
      <3> QED
        BY <1>2, <1>7, <3>1, <3>2
    <2>2. Cardinality(Since(guesses[k], time)) <= Cardinality(Since(Known(k).attempts, time))
      BY <1>1, <1>7, <2>1 DEF Limited, Remembered
    <2>3. guesses[k] \in Seq(Moments)
      BY Counts
    <2> QED
      BY <1>2, <1>3, <2>1, <2>2, <2>3, SinceFinite
  <1>8. Remembered(k)'
    BY <1>5, <1>7 DEF Remembered
  <1>9. \A j \in DOMAIN limiter' : limiter'[j] \in AttemptState
    BY <1>4 DEF LoginTypeOK
  <1> QED
    BY <1>4, <1>5, <1>6, <1>8, <1>9

(* A request that passes the check counts from then on: the key is not      *)
(* blocked, so it has had fewer guesses than are allowed.                  *)
LEMMA PassKept ==
  ASSUME LimitKept, NEW t \in Threads, login[t].pc = "asking",
         NEW k, k = login[t].key, login' = [login EXCEPT ![t].pc = "verifying"],
         UNCHANGED <<clock, guesses>>, \A j : j # k => Known(j)' = Known(j),
         DOMAIN limiter' = DOMAIN limiter,
         \A j \in DOMAIN limiter' : limiter'[j] \in AttemptState,
         Known(k)' \in AttemptState, Len(Known(k)'.attempts) < Attempts, Remembered(k)',
         Known(k)'.blockedUntil <= clock
  PROVE  LimitKept'
  <1> DEFINE r == [login[t] EXCEPT !.pc = "verifying"]
             Login == [pc: {"idle", "asking", "verifying", "failed", "matched"},
                       key: Keys \union {None}, now: Moments]
             time == clock - Reach
             known == Known(k)'
  <1>1. /\ LoginTypeOK /\ k \in Keys /\ login[t] \in Login /\ login[t].now <= clock
        /\ login \in [Threads -> Login] /\ IsFiniteSet(DOMAIN limiter)
    BY DEF LimitKept, LoginTypeOK, Prompt
  <1>2. login' = [login EXCEPT ![t] = r] /\ r \in Login /\ r.key = k /\ r.now = login[t].now
        /\ r.pc = "verifying"
    BY <1>1
  <1> HIDE DEF r, Login
  <1>3. login' \in [Threads -> Login]
    BY <1>1, <1>2
  <1>4. \A u \in Threads : Prompt(u)'
    BY <1>1, <1>2 DEF LimitKept, Prompt, Login
  <1>5. LoginTypeOK' /\ IsFiniteSet(DOMAIN limiter)'
    BY <1>1, <1>3 DEF LoginTypeOK, Login
  <1>6. ASSUME NEW j \in Keys, j # k PROVE Limited(j)'
    <2>1. Guessing(j)' \subseteq Guessing(j)
      BY <1>1, <1>2, <1>6, OthersWait
    <2> QED
      BY <1>1, <1>6, <2>1, Untouched DEF LimitKept
  <1>7. Limited(k)'
    <2>1. clock \in Nat /\ guesses[k] \in Seq(Moments) /\ Cardinality(Threads) \in Nat
      BY <1>1, Counts
    <2>2. Cardinality(Guessing(k)') <= Cardinality(Threads) /\ Cardinality(Guessing(k)') \in Nat
      BY <1>1, <1>5, ThreadsAssumption, FS_Subset, FS_CardinalityType DEF Guessing
    <2>3. time \in Int /\ time >= clock - Reach /\ time >= known.blockedUntil - Reach
      BY <2>1, Spans DEF AttemptState
    <2>4. Cardinality(Since(guesses[k], time)) <= Cardinality(Since(known.attempts, time))
      BY <2>3 DEF Remembered
    <2>5. known.attempts \in Seq(Moments) /\ Len(known.attempts) < Attempts
      BY DEF AttemptState
    <2> HIDE DEF time, known
    <2>6. /\ Cardinality(Since(known.attempts, time)) \in 0..Len(known.attempts)
          /\ Cardinality(Since(guesses[k], time)) \in 0..Len(guesses[k])
          /\ Len(known.attempts) \in Nat
      BY <2>1, <2>5, SinceFinite
    <2>7. Cardinality(Since(guesses[k], time)) + Cardinality(Guessing(k)')
            <= Attempts + Cardinality(Threads) - 1
      BY <2>1, <2>2, <2>4, <2>5, <2>6, Spans
    <2>8. \A i \in 1..Len(guesses[k]) : guesses[k][i] <= clock
      BY <1>1 DEF LimitKept, Limited
    <2> QED
      BY <2>5, <2>7, <2>8 DEF Limited, time, known
  <1> QED
    BY <1>4, <1>5, <1>6, <1>7 DEF LimitKept

(* The check forgets attempts that are too old, and ends a block.           *)
LEMMA RetryAfterKept == ASSUME LimitKept, NEW t \in Threads, RetryAfter(t) PROVE LimitKept'
  <1>0. PICK k \in Keys, now \in Moments : k = login[t].key /\ now = login[t].now
    BY DEF LimitKept, LoginTypeOK, RetryAfter, Prompt
  <1> DEFINE p == Prune(limiter[k].attempts, now)
             s == [limiter[k] EXCEPT !.attempts = Prune(@, now), !.lastSeen = now]
  <1>1. /\ login[t].pc = "asking" /\ k \in Keys /\ now \in Moments /\ now <= clock
        /\ clock \in Nat /\ UNCHANGED <<clock, guesses>> /\ now \in Nat /\ LoginTypeOK
    BY <1>0, Spans DEF LimitKept, LoginTypeOK, RetryAfter, Prompt, Moments
  <1>2. CASE k \notin DOMAIN limiter /\ login' = [login EXCEPT ![t].pc = "verifying"] /\ UNCHANGED limiter
    <2>1. Known(k)' = NewAttemptState /\ \A j : Known(j)' = Known(j)
      BY <1>2 DEF Known
    <2>2. Known(k)' \in AttemptState /\ Limited(k)
      BY <1>0, <1>1, <2>1, Counts DEF LimitKept
    <2>3. Len(Known(k)'.attempts) < Attempts /\ Remembered(k)'
      BY <1>0, <1>1, <2>1, <2>2 DEF Limited, Remembered
    <2>4. \A j \in DOMAIN limiter' : limiter'[j] \in AttemptState
      BY <1>0, <1>1, <1>2 DEF LoginTypeOK
    <2>5. Known(k)'.blockedUntil <= clock /\ DOMAIN limiter' = DOMAIN limiter
      BY <1>1, <1>2, <2>1 DEF NewAttemptState
    <2> HIDE DEF p, s
    <2> QED
      BY <1>0, <1>1, <1>2, <2>1, <2>2, <2>3, <2>4, <2>5, PassKept
  <1>3. CASE k \in DOMAIN limiter
    <2>1. limiter[k] \in AttemptState /\ limiter[k].blockedUntil \in Nat
      BY <1>0, <1>1, <1>3, Spans DEF LoginTypeOK, AttemptState
    <2>2. s = [attempts |-> p, blockedUntil |-> limiter[k].blockedUntil, lastSeen |-> now]
          /\ [s EXCEPT !.blockedUntil = 0] = [attempts |-> p, blockedUntil |-> 0, lastSeen |-> now]
      BY <2>1, CheckedState
    <2>3. CASE /\ s.blockedUntil <= now
               /\ limiter' = [limiter EXCEPT ![k] = [s EXCEPT !.blockedUntil = 0]]
               /\ login' = [login EXCEPT ![t].pc = "verifying"]
      <3> DEFINE r == [attempts |-> p, blockedUntil |-> 0, lastSeen |-> now]
      <3>1. limiter[k].blockedUntil <= clock /\ limiter' = [limiter EXCEPT ![k] = r]
        <4>1. limiter' = [limiter EXCEPT ![k] = r] /\ limiter[k].blockedUntil <= now
          BY <2>2, <2>3
        <4> QED
          BY <1>1, <2>1, <4>1
      <3>2. /\ r \in AttemptState /\ Known(k)' = r /\ Len(r.attempts) < Attempts /\ Remembered(k)'
            /\ \A j : j # k => Known(j)' = Known(j)
            /\ DOMAIN limiter' = DOMAIN limiter
            /\ \A j \in DOMAIN limiter' : limiter'[j] \in AttemptState
        <4>1. r = [attempts |-> Prune(limiter[k].attempts, now), blockedUntil |-> 0,
                   lastSeen |-> now]
          OBVIOUS
        <4> HIDE DEF r, p, s
        <4> QED
          BY <1>1, <1>3, <3>1, <4>1, Pruned
      <3>3. Known(k)'.blockedUntil = 0
        BY <3>2
      <3> HIDE DEF r, p, s
      <3>4. /\ login[t].pc = "asking" /\ k = login[t].key /\ login' = [login EXCEPT ![t].pc = "verifying"]
            /\ UNCHANGED <<clock, guesses>>
            /\ Known(k)' \in AttemptState /\ Len(Known(k)'.attempts) < Attempts /\ Remembered(k)'
            /\ Known(k)'.blockedUntil <= clock
        BY <1>0, <1>1, <2>3, <3>2, <3>3
      <3>5. /\ \A j : j # k => Known(j)' = Known(j)
            /\ DOMAIN limiter' = DOMAIN limiter
            /\ \A j \in DOMAIN limiter' : limiter'[j] \in AttemptState
        BY <3>2
      <3> QED
        BY <3>4, <3>5, PassKept, Zenon
    <2>4. CASE /\ s.blockedUntil > now
               /\ limiter' = [limiter EXCEPT ![k] = s]
               /\ login' = [login EXCEPT ![t] = NoLogin]
      <3>0. PICK until \in Nat : until = limiter[k].blockedUntil
        BY <2>1
      <3> DEFINE r == [attempts |-> p, blockedUntil |-> until, lastSeen |-> now]
      <3>1. limiter' = [limiter EXCEPT ![k] = r]
        BY <2>2, <2>4, <3>0
      <3>2. /\ Known(k)' = r /\ Len(r.attempts) < Attempts /\ Remembered(k)'
            /\ \A j : j # k => Known(j)' = Known(j)
            /\ DOMAIN limiter' = DOMAIN limiter
            /\ \A j \in DOMAIN limiter' : limiter'[j] \in AttemptState
        <4>1. r = [attempts |-> Prune(limiter[k].attempts, now), blockedUntil |-> until,
                   lastSeen |-> now]
          OBVIOUS
        <4>2. now <= clock /\ UNCHANGED <<clock, guesses>>
          BY <1>1
        <4> HIDE DEF r, p, s
        <4>3. \/ until = limiter[k].blockedUntil
              \/ until = 0 /\ limiter[k].blockedUntil <= clock
          BY <3>0
        <4> QED
          BY <1>3, <3>1, <4>1, <4>2, <4>3, Pruned
      <3>3. /\ \A j : Guessing(j)' \subseteq Guessing(j)
            /\ login' \in [Threads -> [pc: {"idle", "asking", "verifying", "failed", "matched"},
                                       key: Keys \union {None}, now: Moments]]
            /\ \A u \in Threads : Prompt(u)'
        BY <1>0, <1>1, <2>4, Spans DEF LoginTypeOK, NoLogin, Moments, Guessing, LimitKept, Prompt
      <3>4. LoginTypeOK' /\ IsFiniteSet(DOMAIN limiter)'
        BY <1>0, <1>1, <3>2, <3>3 DEF LimitKept, LoginTypeOK
      <3>5. ASSUME NEW j \in Keys PROVE Limited(j)'
        <4>1. CASE j # k
          BY <1>0, <1>1, <3>2, <3>3, <4>1, Untouched DEF LimitKept
        <4>2. CASE j = k
          <5>1. Cardinality(Guessing(k)') <= Cardinality(Guessing(k)) /\ Cardinality(Guessing(k)') \in Nat
            BY <1>0, <1>1, <3>3, Counts, FS_Subset, FS_CardinalityType
          <5>2. Cardinality(Since(guesses[k], clock - Reach)) + Cardinality(Guessing(k)')
                  <= Attempts + Cardinality(Threads) - 1
            BY <1>0, <1>1, <5>1, Counts, Spans DEF LimitKept, Limited
          <5> QED
            BY <1>0, <1>1, <3>2, <4>2, <5>2 DEF LimitKept, Limited
        <4> QED
          BY <4>1, <4>2
      <3> QED
        BY <3>3, <3>4, <3>5 DEF LimitKept
    <2> QED
      BY <1>0, <1>3, <2>3, <2>4 DEF RetryAfter
  <1> QED
    BY <1>0, <1>2, <1>3 DEF RetryAfter

(* An eviction leaves at most as many keys as are allowed.                  *)
LEMMA EvictionsSuffice ==
  ASSUME NEW states, IsFiniteSet(DOMAIN states), NEW gone \in Evictions(states)
  PROVE  /\ gone \subseteq DOMAIN states /\ IsFiniteSet(DOMAIN states \ gone)
         /\ Cardinality(DOMAIN states \ gone) <= MaxKeys
  <1> DEFINE overflow == Cardinality(DOMAIN states) - MaxKeys
             batch == IF overflow <= 0 THEN 0
                      ELSE IF overflow < MaxKeys \div 10 THEN MaxKeys \div 10 ELSE overflow
  <1>1. gone \in SUBSET DOMAIN states /\ Cardinality(gone) = batch
    BY DEF Evictions
  <1>2. Cardinality(DOMAIN states) \in Nat
    BY FS_CardinalityType
  <1>3. MaxKeys \div 10 \in Int
    BY Spans
  <1>4. batch \in Int /\ batch >= overflow
    BY <1>2, <1>3, Spans
  <1>5. /\ IsFiniteSet(DOMAIN states \ gone)
        /\ Cardinality(DOMAIN states \ gone)
             = Cardinality(DOMAIN states) - Cardinality(DOMAIN states \intersect gone)
    BY FS_Difference
  <1>6. DOMAIN states \intersect gone = gone
    BY <1>1
  <1>7. Cardinality(DOMAIN states \intersect gone) = batch
    BY <1>1, <1>6
  <1> HIDE DEF batch
  <1>8. Cardinality(DOMAIN states \ gone) = Cardinality(DOMAIN states) - batch
    BY <1>5, <1>7
  <1>9. Cardinality(DOMAIN states \ gone) <= MaxKeys
    BY <1>2, <1>4, <1>8, Spans
  <1> QED
    BY <1>1, <1>5, <1>9

(* A wrong guess is remembered, and blocks the key when it was the last one *)
(* allowed; keys that would be one too many are evicted.                    *)
LEMMA RecordFailureKept == ASSUME LimitKept, NEW t \in Threads, RecordFailure(t) PROVE LimitKept'
  <1>0. PICK k \in Keys, now \in Moments : k = login[t].key /\ now = login[t].now
    BY DEF LimitKept, LoginTypeOK, RecordFailure, Prompt
  <1> DEFINE known == Known(k)
             tried == Append(Prune(known.attempts, now), now)
             after == IF Len(tried) >= Attempts
                      THEN [attempts |-> <<>>, blockedUntil |-> now + Block, lastSeen |-> now]
                      ELSE [known EXCEPT !.attempts = tried, !.lastSeen = now]
             states == [j \in DOMAIN limiter \union {k} |-> IF j = k THEN after ELSE limiter[j]]
  <1>1. /\ login[t].pc = "failed" /\ now <= clock /\ clock <= now + MaxLag
        /\ clock \in Nat /\ now \in Nat /\ LoginTypeOK /\ UNCHANGED clock
        /\ login' = [login EXCEPT ![t] = NoLogin] /\ Limited(k)
    BY <1>0, Spans DEF LimitKept, LoginTypeOK, RecordFailure, Prompt, Moments
  <1>2. PICK gone \in Evictions(states) :
          /\ limiter' = Forget(states, gone)
          /\ guesses' = [j \in Keys |-> IF j \in gone THEN <<>>
                                        ELSE IF j = k THEN Append(guesses[k], now)
                                        ELSE guesses[j]]
    BY <1>0 DEF RecordFailure
  <1>3. known \in AttemptState /\ guesses[k] \in Seq(Moments)
    BY <1>1, Counts
  <1>4. known.attempts \in Seq(Moments) /\ known.blockedUntil \in 0..MaxTime + Block
    BY <1>3 DEF AttemptState
  <1> HIDE DEF known
  <1> DEFINE p == Prune(known.attempts, now)
  <1>5. /\ p \in Seq(Moments) /\ Len(p) <= Len(known.attempts)
        /\ \A time \in Int : time >= now - Window =>
             Cardinality(Since(known.attempts, time)) <= Cardinality(Since(p, time))
    <2>1. now \in Int
      BY <1>1
    <2> QED
      BY <1>4, <2>1, PruneKeeps
  <1> HIDE DEF p
  <1>6. tried = Append(p, now) /\ tried \in Seq(Moments) /\ Len(tried) = Len(p) + 1
    BY <1>5 DEF p
  <1> HIDE DEF tried
  <1>7. ~(Len(tried) >= Attempts) =>
          after = [attempts |-> tried, blockedUntil |-> known.blockedUntil, lastSeen |-> now]
    BY <1>3, CheckedState
  <1>8. Len(tried) >= Attempts =>
          after = [attempts |-> <<>>, blockedUntil |-> now + Block, lastSeen |-> now]
    OBVIOUS
  <1> HIDE DEF after
  <1>9. after \in AttemptState /\ Len(after.attempts) < Attempts
    <2>1. CASE Len(tried) >= Attempts
      <3>1. /\ <<>> \in Seq(Moments) /\ now + Block \in 0..MaxTime + Block /\ 0 < Attempts
            /\ after.attempts = <<>>
        BY <1>1, <1>8, <2>1, Spans DEF Moments
      <3>2. after \in AttemptState
        BY <1>8, <2>1, <3>1, StateOfKey
      <3> QED
        BY <3>1, <3>2, NothingSince
    <2>2. CASE ~(Len(tried) >= Attempts)
      <3>1. after \in AttemptState
        BY <1>4, <1>6, <1>7, <2>2, StateOfKey
      <3>2. after.attempts = tried /\ Len(tried) \in Nat
        BY <1>6, <1>7, <2>2
      <3> QED
        BY <2>2, <3>1, <3>2, Spans
    <2> QED
      BY <2>1, <2>2
  <1>10. DOMAIN states = DOMAIN limiter \union {k} /\ IsFiniteSet(DOMAIN states)
    BY FS_AddElement DEF LimitKept
  <1>11. /\ gone \subseteq DOMAIN states /\ IsFiniteSet(DOMAIN states \ gone)
         /\ Cardinality(DOMAIN states \ gone) <= MaxKeys
    <2> HIDE DEF states
    <2> QED
      BY <1>2, <1>10, EvictionsSuffice
  <1>12. /\ DOMAIN limiter' = DOMAIN states \ gone
         /\ \A j \in DOMAIN limiter' : limiter'[j] = IF j = k THEN after ELSE limiter[j]
    BY <1>2 DEF Forget
  <1>13. /\ \A j : Guessing(j)' \subseteq Guessing(j)
         /\ login' \in [Threads -> [pc: {"idle", "asking", "verifying", "failed", "matched"},
                                    key: Keys \union {None}, now: Moments]]
         /\ \A u \in Threads : Prompt(u)'
    BY <1>1, Spans DEF LoginTypeOK, NoLogin, Moments, Guessing, LimitKept, Prompt
  <1>14. \A j \in Keys : guesses'[j] = IF j \in gone THEN <<>>
                                       ELSE IF j = k THEN Append(guesses[k], now) ELSE guesses[j]
    BY <1>2
  <1>15. LoginTypeOK' /\ IsFiniteSet(DOMAIN limiter)'
    <2>1. DOMAIN limiter' \subseteq Keys /\ \A j \in DOMAIN limiter' : limiter'[j] \in AttemptState
      BY <1>1, <1>9, <1>10, <1>12 DEF LoginTypeOK
    <2>2. guesses' \in [Keys -> Seq(Moments)]
      <3>1. Append(guesses[k], now) \in Seq(Moments) /\ <<>> \in Seq(Moments)
        BY <1>3
      <3>2. \A j \in Keys : guesses'[j] \in Seq(Moments)
        BY <1>1, <1>14, <3>1 DEF LoginTypeOK
      <3> QED
        BY <1>2, <3>2
    <2> QED
      BY <1>1, <1>11, <1>12, <1>13, <2>1, <2>2 DEF LoginTypeOK
  <1>16. ASSUME NEW j \in Keys, j \in gone PROVE Limited(j)'
    <2>1. Known(j)' = NewAttemptState
      BY <1>12, <1>16 DEF Known
    <2> QED
      BY <1>1, <1>14, <1>16, <2>1, Forgotten
  <1>17. ASSUME NEW j \in Keys, j \notin gone, j # k PROVE Limited(j)'
    <2>1. Known(j)' = Known(j)
      BY <1>10, <1>12, <1>17 DEF Known
    <2>2. guesses'[j] = guesses[j] /\ Limited(j)
      BY <1>14, <1>17 DEF LimitKept
    <2> QED
      BY <1>1, <1>13, <2>1, <2>2, Untouched
  <1>18. ASSUME k \notin gone PROVE Limited(k)'
    <2>1. Known(k)' = after /\ guesses'[k] = Append(guesses[k], now)
      BY <1>10, <1>12, <1>14, <1>18 DEF Known
    <2> DEFINE g == Append(guesses[k], now)
    <2>2. /\ g \in Seq(Moments) /\ Len(g) = Len(guesses[k]) + 1 /\ g[Len(guesses[k]) + 1] = now
          /\ \A i \in 1..Len(guesses[k]) : g[i] = guesses[k][i]
      BY <1>3
    <2>3. \A time \in Int : Cardinality(Since(g, time)) =
                              Cardinality(Since(guesses[k], time)) + IF now > time THEN 1 ELSE 0
      BY <1>3, SinceAppend
    <2> HIDE DEF g
    <2>4. \A i \in 1..Len(g) : g[i] <= clock
      BY <1>1, <1>3, <2>2 DEF Limited
    <2>5. Remembered(k)'
      <3> SUFFICES ASSUME NEW time \in Int, time >= clock - Reach,
                          time >= after.blockedUntil - Reach
                   PROVE  Cardinality(Since(g, time)) <= Cardinality(Since(after.attempts, time))
        BY <1>1, <2>1 DEF Remembered, g
      <3>1. CASE Len(tried) >= Attempts
        <4>1. time >= clock
          BY <1>1, <1>8, <3>1, Spans
        <4>2. \A i \in 1..Len(g) : g[i] \in Nat
          BY <2>2, Spans DEF Moments
        <4>3. \A i \in 1..Len(g) : ~(g[i] > time)
          BY <1>1, <2>4, <4>1, <4>2
        <4>4. Since(g, time) = {}
          BY <4>3 DEF Since
        <4> QED
          BY <1>8, <3>1, <4>4, FS_EmptySet, NothingSince
      <3>2. CASE ~(Len(tried) >= Attempts)
        <4>1. after.attempts = tried /\ after.blockedUntil = known.blockedUntil
          BY <1>7, <3>2
        <4>2. time >= now - Window
          BY <1>1, Spans
        <4>3. Cardinality(Since(guesses[k], time)) <= Cardinality(Since(known.attempts, time))
          BY <1>1, <4>1 DEF Limited, Remembered, known
        <4>4. Cardinality(Since(known.attempts, time)) <= Cardinality(Since(p, time))
          BY <1>5, <4>2
        <4>5. Cardinality(Since(tried, time)) =
                Cardinality(Since(p, time)) + IF now > time THEN 1 ELSE 0
          BY <1>5, <1>6, SinceAppend
        <4>6. /\ Cardinality(Since(guesses[k], time)) \in Nat /\ Cardinality(Since(p, time)) \in Nat
              /\ Cardinality(Since(known.attempts, time)) \in Nat
          BY <1>3, <1>4, <1>5, SinceFinite
        <4>7. Cardinality(Since(g, time)) =
                Cardinality(Since(guesses[k], time)) + IF now > time THEN 1 ELSE 0
          BY <2>3
        <4> QED
          BY <4>1, <4>3, <4>4, <4>5, <4>6, <4>7
      <3> QED
        BY <3>1, <3>2
    <2>6. /\ Cardinality(Guessing(k)') \in Nat
          /\ Cardinality(Guessing(k)') = Cardinality(Guessing(k)) - 1
      <3>1. t \in Guessing(k)
        BY <1>0, <1>1 DEF Guessing
      <3>2. Guessing(k)' = Guessing(k) \ {t}
        BY <1>1, Spans DEF Guessing, LoginTypeOK, NoLogin
      <3> QED
        BY <1>1, <3>1, <3>2, Counts, FS_RemoveElement, FS_CardinalityType
    <2>7. Cardinality(Since(g, clock - Reach)) + Cardinality(Guessing(k)')
            <= Attempts + Cardinality(Threads) - 1
      <3> DEFINE time == clock - Reach
      <3>1. time \in Int
        BY <1>1, Spans
      <3>2. /\ Cardinality(Since(guesses[k], time)) \in Nat /\ Cardinality(Guessing(k)) \in Nat
            /\ Cardinality(Threads) \in Nat
            /\ Cardinality(Since(guesses[k], time)) + Cardinality(Guessing(k))
                 <= Attempts + Cardinality(Threads) - 1
        BY <1>1, Counts DEF Limited
      <3> HIDE DEF time
      <3>3. Cardinality(Since(g, time)) =
              Cardinality(Since(guesses[k], time)) + IF now > time THEN 1 ELSE 0
        BY <2>3, <3>1
      <3>4. Cardinality(Since(g, time)) + Cardinality(Guessing(k)')
              <= Attempts + Cardinality(Threads) - 1
        BY <2>6, <3>2, <3>3, Spans
      <3> QED
        BY <3>4 DEF time
    <2> QED
      BY <1>1, <1>9, <2>1, <2>4, <2>5, <2>7 DEF Limited, g
  <1> QED
    BY <1>13, <1>15, <1>16, <1>17, <1>18 DEF LimitKept

LEMMA ClearKept == ASSUME LimitKept, NEW t \in Threads, Clear(t) PROVE LimitKept'
  <1>0. PICK k \in Keys : k = login[t].key
    BY DEF LimitKept, LoginTypeOK, Clear, Prompt
  <1>1. /\ login[t].pc = "matched" /\ LoginTypeOK /\ UNCHANGED clock
        /\ limiter' = Forget(limiter, {k}) /\ guesses' = [guesses EXCEPT ![k] = <<>>]
        /\ login' = [login EXCEPT ![t] = NoLogin] /\ clock \in Nat
    BY <1>0, Spans DEF LimitKept, LoginTypeOK, Clear, Moments
  <1>2. /\ DOMAIN limiter' = DOMAIN limiter \ {k}
        /\ \A j \in DOMAIN limiter' : limiter'[j] = limiter[j]
    BY <1>1 DEF Forget
  <1>3. /\ \A j : Guessing(j)' \subseteq Guessing(j)
        /\ login' \in [Threads -> [pc: {"idle", "asking", "verifying", "failed", "matched"},
                                   key: Keys \union {None}, now: Moments]]
        /\ \A u \in Threads : Prompt(u)'
    BY <1>1, Spans DEF LoginTypeOK, NoLogin, Moments, Guessing, LimitKept, Prompt
  <1>4. guesses' \in [Keys -> Seq(Moments)] /\ guesses'[k] = <<>>
        /\ \A j \in Keys : j # k => guesses'[j] = guesses[j]
    BY <1>1 DEF LoginTypeOK
  <1>5. IsFiniteSet(DOMAIN limiter') /\ Cardinality(DOMAIN limiter') <= MaxKeys
    <2>1. IsFiniteSet(DOMAIN limiter) /\ Cardinality(DOMAIN limiter) <= MaxKeys
      BY DEF LimitKept, LoginTypeOK
    <2> QED
      BY <1>2, <2>1, FS_Subset, FS_CardinalityType, Spans
  <1>6. LoginTypeOK'
    BY <1>1, <1>2, <1>3, <1>4, <1>5 DEF LoginTypeOK
  <1>7. Limited(k)'
    <2>1. Known(k)' = NewAttemptState
      BY <1>2 DEF Known
    <2> QED
      BY <1>1, <1>4, <2>1, Forgotten
  <1>8. ASSUME NEW j \in Keys, j # k PROVE Limited(j)'
    <2>1. Known(j)' = Known(j)
      BY <1>2, <1>8 DEF Known
    <2>2. guesses'[j] = guesses[j] /\ Limited(j)
      BY <1>4, <1>8 DEF LimitKept
    <2> QED
      BY <1>1, <1>3, <2>1, <2>2, Untouched
  <1> QED
    BY <1>3, <1>5, <1>6, <1>7, <1>8 DEF LimitKept

(* Time lets guesses and attempts grow old alike.                           *)
LEMMA TickKept == ASSUME LimitKept, Tick PROVE LimitKept'
  <1>1. /\ clock < MaxTime /\ clock' = clock + 1 /\ UNCHANGED <<limiter, login, guesses>>
        /\ \A t \in Threads : login[t].pc \in {"asking", "failed"} => clock < login[t].now + MaxLag
        /\ LoginTypeOK /\ clock \in Nat
    BY Spans DEF Tick, LimitKept, LoginTypeOK, Moments
  <1>2. LoginTypeOK'
    BY <1>1, Spans DEF LoginTypeOK, Moments
  <1>3. ASSUME NEW t \in Threads PROVE Prompt(t)'
    <2>1. login[t].now \in Nat /\ Prompt(t)
      BY <1>1, Spans DEF LimitKept, LoginTypeOK, Moments
    <2> QED
      BY <1>1, <2>1, Spans DEF Prompt
  <1>4. ASSUME NEW k \in Keys PROVE Limited(k)'
    <2>1. Known(k)' = Known(k) /\ Guessing(k)' = Guessing(k) /\ Limited(k)
      BY <1>1 DEF Known, Guessing, LimitKept
    <2>2. Remembered(k)'
      BY <1>1, <2>1, Spans DEF Limited, Remembered
    <2>3. guesses[k] \in Seq(Moments) /\ clock - Reach \in Int /\ clock' - Reach \in Int
      BY <1>1, Counts, Spans
    <2>4. /\ Cardinality(Since(guesses[k], clock' - Reach)) <= Cardinality(Since(guesses[k], clock - Reach))
          /\ Cardinality(Since(guesses[k], clock' - Reach)) \in Nat
      <3>1. clock - Reach <= clock' - Reach
        BY <1>1, Spans
      <3> HIDE DEF LimitKept
      <3> QED
        BY <2>3, <3>1, SinceLater, SinceFinite
    <2>5. Cardinality(Since(guesses[k], clock' - Reach)) + Cardinality(Guessing(k))
            <= Attempts + Cardinality(Threads) - 1
      <3>1. /\ Cardinality(Guessing(k)) \in Nat /\ Cardinality(Threads) \in Nat
            /\ Cardinality(Since(guesses[k], clock - Reach)) \in Nat /\ Attempts \in Nat
        BY <1>1, Counts, Spans
      <3>2. Cardinality(Since(guesses[k], clock - Reach)) + Cardinality(Guessing(k))
              <= Attempts + Cardinality(Threads) - 1
        BY <2>1 DEF Limited
      <3> HIDE DEF LimitKept
      <3> QED
        BY ONLY <2>4, <3>1, <3>2
    <2>6. \A i \in 1..Len(guesses[k]) : guesses[k][i] <= clock'
      <3>1. \A i \in 1..Len(guesses[k]) : guesses[k][i] \in Nat /\ guesses[k][i] <= clock
        <4>1. \A i \in 1..Len(guesses[k]) : guesses[k][i] \in Moments
          BY <2>3
        <4>2. \A i \in 1..Len(guesses[k]) : guesses[k][i] <= clock
          BY <2>1 DEF Limited
        <4>3. Moments \subseteq Nat
          BY Spans DEF Moments
        <4> QED
          BY ONLY <4>1, <4>2, <4>3
      <3> QED
        BY <1>1, <3>1
    <2> QED
      BY <1>1, <2>1, <2>2, <2>5, <2>6 DEF Limited
  <1> QED
    BY <1>1, <1>2, <1>3, <1>4 DEF LimitKept

LEMMA LimitAlwaysKept == LoginSpec => []LimitKept
  <1>1. LimitKept /\ UNCHANGED loginVars => LimitKept'
    BY DEF loginVars, LimitKept, LoginTypeOK, Prompt, Limited, Remembered, Known, Guessing
  <1>2. LimitKept /\ [LoginNext]_loginVars => LimitKept'
    BY <1>1, AskKept, RetryAfterKept, VerifyKept, RecordFailureKept, ClearKept, TickKept DEF LoginNext
  <1> QED
    BY <1>2, LoginStarts, PTL DEF LoginSpec

(* retry_after and record_failure hold the lock one after the other, with   *)
(* the check of the password between them: a key that is blocked has been   *)
(* guessed at, since it was last evicted or cleared, as often as allowed,   *)
(* and once more by each request that had passed the check before.          *)
THEOREM GuessesAlwaysBounded == LoginSpec => []GuessesBounded
  <1>1. LimitKept => GuessesBounded
    <2> SUFFICES ASSUME LimitKept, NEW k \in Keys
                 PROVE  Cardinality(Since(guesses[k], clock - Reach))
                          <= Attempts + Cardinality(Threads) - 1
      BY DEF GuessesBounded
    <2> QED
      BY Counts, Spans DEF LimitKept, Limited
  <1> QED
    BY <1>1, LimitAlwaysKept, PTL

-----------------------------------------------------------------------------
(* The household: each of its components moves as its own specification     *)
(* says, and rests while another one moves.                                 *)

LEMMA HouseholdStarts ==
  HouseholdInit => /\ FamiliesInit /\ LoginInit /\ AchievementsInit
                   /\ StreaksInit /\ SpecialInit /\ RemindersInit
  BY DEF HouseholdInit

LEMMA HouseholdMoves ==
  ASSUME [HouseholdNext]_<<part, familyVars, loginVars, achievementVars,
                           streakVars, specialVars, remindersVars>>
  PROVE  /\ [FamiliesNext]_familyVars /\ [LoginNext]_loginVars
         /\ [AchievementsNext]_achievementVars /\ [StreaksNext]_streakVars
         /\ [SpecialNext]_specialVars /\ [RemindersNext]_remindersVars
  BY DEF HouseholdNext, OnlyIn

(* What is proved of the components holds of them in the household: its     *)
(* specification implies theirs.                                            *)
THEOREM HouseholdImplementsParts ==
  HouseholdSpec => /\ FamiliesSpec /\ LoginSpec /\ AchievementsSpec
                   /\ StreaksSpec /\ SpecialSpec /\ RemindersSpec
  BY HouseholdStarts, HouseholdMoves, PTL
  DEF HouseholdSpec, FamiliesSpec, LoginSpec, AchievementsSpec, StreaksSpec, SpecialSpec,
      RemindersSpec

(* Every component of the household keeps its variables within their types. *)
THEOREM HouseholdTypeCorrect == HouseholdSpec => []HouseholdTypeOK
  <1>1. LimitKept => LoginTypeOK
    BY DEF LimitKept
  <1>2. /\ FamiliesTypeOK /\ LoginTypeOK /\ AchievementsTypeOK
        /\ StreaksTypeOK /\ SpecialTypeOK /\ RemindersTypeOK
        => HouseholdTypeOK
    BY DEF HouseholdTypeOK
  <1> QED
    BY <1>1, <1>2, HouseholdImplementsParts, FamiliesTypeCorrect, LimitAlwaysKept,
       AchievementsTypeCorrect, StreaksTypeCorrect, SpecialTypeCorrect, RemindersTypeCorrect, PTL

=============================================================================

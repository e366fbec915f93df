------------------------------ MODULE Families ------------------------------
(***************************************************************************)
(* The household: its first administrator, its members and their roles     *)
(* (routers/families.py, the bootstrap of routers/auth.py, rbac.py).       *)
(*                                                                         *)
(* A request begins with the unlocked read of the caller's own rows, on    *)
(* which its permission rests until the end.  Changes of members then lock *)
(* the family row, examine the member, and commit.  A step is one of these *)
(* statements.                                                             *)
(*                                                                         *)
(* Left out: names, e-mail addresses, passwords and notification switches  *)
(* (a request they make the handler refuse changes nothing), households    *)
(* other than the one the bootstrap founds, the restore of a backup.       *)
(***************************************************************************)
EXTENDS Handlers

CONSTANT Users  \* rows of users, used or not

ASSUME FamiliesAssumption == None \notin Users

VARIABLES founded,        \* families ever created
          role,           \* family_memberships.role, or "none"
          active,         \* users.is_active of the users that exist
          familyOwner,    \* who holds the lock of the families row
          bootstrapOwner, \* who holds _bootstrap_operation_lock
          member          \* the requests

household == <<founded, role, active>>
familyVars == <<household, familyOwner, bootstrapOwner, member>>

-----------------------------------------------------------------------------
(* "member" stands for parents and children.                               *)
Roles == {"member", "admin"}

Existing == DOMAIN active

Admins == {u \in Users : role[u] = "admin"}

(* own: the caller changes his own membership; seen: the role of the       *)
(* member as the session has read it.                                      *)
Request == [pc: {"idle", "begun", "locked", "checked"},
            op: {"none", "bootstrap", "create", "update", "delete"},
            target: Users \union {None}, own: BOOLEAN,
            role: Roles, active: BOOLEAN, seen: Roles \union {"none"}]

NoRequest == [pc |-> "idle", op |-> "none", target |-> None, own |-> FALSE,
              role |-> "member", active |-> TRUE, seen |-> "none"]

FamiliesInit ==
  /\ founded = 0
  /\ role = [u \in Users |-> "none"]
  /\ active = [u \in {} |-> TRUE]
  /\ familyOwner = None
  /\ bootstrapOwner = None
  /\ member = [t \in Threads |-> NoRequest]

-----------------------------------------------------------------------------
(* Steps of a request *)

At(t, pc, ops) == member[t].pc = pc /\ member[t].op \in ops

Goes(t, pc) == member' = [member EXCEPT ![t].pc = pc]

(* The end of the session: commit or rollback release its locks.           *)
Ends(t) ==
  /\ member' = [member EXCEPT ![t] = NoRequest]
  /\ familyOwner' = IF familyOwner = t THEN None ELSE familyOwner
  /\ bootstrapOwner' = IF bootstrapOwner = t THEN None ELSE bootstrapOwner

(* Mutant: the operation guard lets everybody pass. *)
BeginBootstrapUnguarded(t) ==
  /\ At(t, "idle", {"none"})
  /\ member' = [member EXCEPT ![t] = [NoRequest EXCEPT !.pc = "begun", !.op = "bootstrap"]]
  /\ UNCHANGED <<household, familyOwner, bootstrapOwner>>

(* A second bootstrap at the same time is refused, it does not wait.       *)
BeginBootstrap(t) ==
  /\ At(t, "idle", {"none"})
  /\ bootstrapOwner = None
  /\ bootstrapOwner' = t
  /\ member' = [member EXCEPT ![t] = [NoRequest EXCEPT !.pc = "begun", !.op = "bootstrap"]]
  /\ UNCHANGED <<household, familyOwner>>

FindNoUser(t) ==
  /\ At(t, "begun", {"bootstrap"})
  /\ \/ /\ Existing = {}
        /\ Goes(t, "checked")
        /\ UNCHANGED <<familyOwner, bootstrapOwner>>
     \/ /\ Existing # {}
        /\ Ends(t)
  /\ UNCHANGED household

NewUser(u, r) ==
  /\ u \notin Existing
  /\ active' = [v \in Existing \union {u} |-> IF v = u THEN TRUE ELSE active[v]]
  /\ role' = [role EXCEPT ![u] = r]

Bootstrap(t) ==
  /\ At(t, "checked", {"bootstrap"})
  /\ \E u \in Users : NewUser(u, "admin")
  /\ founded' = founded + 1
  /\ Ends(t)

(* get_current_user, get_membership_or_403 and require_roles: who the      *)
(* caller is and what he may do is read here and nowhere else.             *)
Authorize(t, op, caller, target, r, a) ==
  /\ At(t, "idle", {"none"})
  /\ caller \in Existing /\ active[caller] /\ role[caller] = "admin"
  /\ op = "delete" => target # caller
  /\ member' = [member EXCEPT ![t] =
       [pc |-> "begun", op |-> op, target |-> target, own |-> target = caller,
        role |-> r, active |-> a, seen |-> "none"]]
  /\ UNCHANGED <<household, familyOwner, bootstrapOwner>>

(* Requests as the payloads allow them: create_member adds a new user      *)
(* (None) or one whose e-mail address is known.                            *)
BeginChange(t) ==
  \E caller \in Users, r \in Roles :
    \/ \E target \in Existing \union {None} : Authorize(t, "create", caller, target, r, TRUE)
    \/ \E target \in Existing, a \in BOOLEAN : Authorize(t, "update", caller, target, r, a)
    \/ \E target \in Existing : Authorize(t, "delete", caller, target, "member", TRUE)

-----------------------------------------------------------------------------
(* create_member *)

FindNewMember(t) ==
  /\ At(t, "begun", {"create"})
  /\ \/ /\ member[t].target # None => role[member[t].target] = "none"
        /\ Goes(t, "checked")
        /\ UNCHANGED <<familyOwner, bootstrapOwner>>
     \/ /\ member[t].target # None /\ role[member[t].target] # "none"
        /\ Ends(t)
  /\ UNCHANGED household

(* The membership refers to the family, whose row must not be locked; a    *)
(* second membership of one user violates uq_family_user.                  *)
InsertMember(t) ==
  /\ At(t, "checked", {"create"})
  /\ RowIsFree(familyOwner)
  /\ LET u == member[t].target IN
     \/ u = None /\ \E v \in Users : NewUser(v, member[t].role)
     \/ /\ u # None /\ role[u] = "none"
        /\ role' = [role EXCEPT ![u] = member[t].role]
        /\ UNCHANGED active
     \/ u # None /\ role[u] # "none" /\ UNCHANGED <<role, active>>
  /\ Ends(t)
  /\ UNCHANGED founded

-----------------------------------------------------------------------------
(* update_member, delete_member *)

(* Mutant: the family row is read without a lock. *)
LockFamilyNever(t) ==
  /\ At(t, "begun", {"update", "delete"})
  /\ Goes(t, "locked")
  /\ UNCHANGED <<household, familyOwner, bootstrapOwner>>

LockFamily(t) ==
  /\ At(t, "begun", {"update", "delete"})
  /\ RowIsFree(familyOwner)
  /\ familyOwner' = Taken(t)
  /\ Goes(t, "locked")
  /\ UNCHANGED <<household, bootstrapOwner>>

(* The session already holds the caller's own membership as it was when    *)
(* the request began, and a query does not refresh it.                     *)
RoleRead(t) ==
  IF member[t].own THEN "admin" ELSE role[member[t].target]

OneAdmin == \A u, v \in Admins : u = v

LosesLastAdmin(t) ==
  /\ RoleRead(t) = "admin"
  /\ member[t].op = "update" => member[t].role # "admin"
  /\ OneAdmin

ExamineMember(t) ==
  /\ At(t, "locked", {"update", "delete"})
  /\ \/ /\ role[member[t].target] # "none" /\ ~LosesLastAdmin(t)
        /\ member' = [member EXCEPT ![t].pc = "checked", ![t].seen = RoleRead(t)]
        /\ UNCHANGED <<familyOwner, bootstrapOwner>>
     \/ /\ role[member[t].target] = "none" \/ LosesLastAdmin(t)
        /\ Ends(t)
  /\ UNCHANGED household

(* Only attributes that differ from what was read are written.             *)
UpdateMember(t) ==
  /\ At(t, "checked", {"update"})
  /\ LET u == member[t].target IN
     /\ active' = [active EXCEPT ![u] = member[t].active]
     /\ role' = IF member[t].role = member[t].seen THEN role
                ELSE [role EXCEPT ![u] = member[t].role]
  /\ Ends(t)
  /\ UNCHANGED founded

DeleteMember(t) ==
  /\ At(t, "checked", {"delete"})
  /\ role' = [role EXCEPT ![member[t].target] = "none"]
  /\ Ends(t)
  /\ UNCHANGED <<founded, active>>

-----------------------------------------------------------------------------
FamiliesNext ==
  \E t \in Threads :
    \/ BeginBootstrap(t) \/ FindNoUser(t) \/ Bootstrap(t)
    \/ BeginChange(t) \/ FindNewMember(t) \/ InsertMember(t)
    \/ LockFamily(t) \/ ExamineMember(t) \/ UpdateMember(t) \/ DeleteMember(t)

FamiliesSpec == FamiliesInit /\ [][FamiliesNext]_familyVars

-----------------------------------------------------------------------------
FamiliesTypeOK ==
  /\ founded \in Nat
  /\ role \in [Users -> Roles \union {"none"}]
  /\ Existing \subseteq Users /\ active \in [Existing -> BOOLEAN]
  /\ familyOwner \in Threads \union {None}
  /\ bootstrapOwner \in Threads \union {None}
  /\ member \in [Threads -> Request]

(* The bootstrap founds one household, and once it is founded it keeps an  *)
(* administrator, whatever two of them do to each other's roles at the     *)
(* same time ("Mindestens ein Admin muss in der Familie verbleiben").      *)
HouseholdGoverned ==
  /\ founded <= 1
  /\ founded = 1 => Admins # {}

(* Why that is so: a request that takes an administrator's role away has   *)
(* found another one and holds the family row, without which nobody else   *)
(* takes a role away.                                                      *)
Demotes(t) == /\ member[t].pc = "checked"
              /\ \/ member[t].op = "delete"
                 \/ member[t].op = "update" /\ member[t].role = "member"

GovernedSafely ==
  /\ FamiliesTypeOK
  /\ HouseholdGoverned
  /\ founded = 0 <=> Existing = {}
  /\ \A u \in Users : role[u] # "none" => u \in Existing
  /\ \A t \in Threads :
       /\ member[t].op = "bootstrap" => bootstrapOwner = t
       /\ member[t].op = "bootstrap" /\ member[t].pc = "checked" => Existing = {}
       /\ member[t].op \in {"create", "update", "delete"} => Existing # {}
       /\ member[t].target \in Existing \union {None}
       /\ member[t].op \in {"update", "delete"} =>
            /\ member[t].target \in Users
            /\ member[t].pc \in {"locked", "checked"} => familyOwner = t
       /\ Demotes(t) => \E v \in Admins : v # member[t].target

=============================================================================

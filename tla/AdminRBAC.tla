----------------------------- MODULE AdminRBAC -----------------------------
(***************************************************************************)
(* Administrators' roles: rbac_service.go over repository.go over          *)
(* admin_rbac.sql, behind the RequirePermission middleware.                *)
(*                                                                         *)
(* A user holds the permissions of the roles granted to them, and every    *)
(* request that changes roles or grants begins with one query of these.    *)
(* SetRolePermissions replaces the permissions of a role in a transaction  *)
(* of its own: a DELETE, an INSERT ... ON CONFLICT DO NOTHING for each     *)
(* permission, COMMIT.  At READ COMMITTED the DELETE does not see what     *)
(* another transaction has inserted, and a statement waits for another     *)
(* transaction that has touched one of its rows.                           *)
(*                                                                         *)
(* The audit log (which nothing reads to decide anything) and the names    *)
(* of roles are left out.                                                  *)
(***************************************************************************)
EXTENDS FiniteSets

CONSTANTS
    Manage,              \* the permission admin.manage_roles
    Assign,              \* the permission admin.assign_roles
    Others,              \* the rest of the catalog
    SystemRole,          \* super_admin, which the migration seeds
    CustomRoles,         \* the roles that may be created
    Admins,              \* users with the coarse role 'admin'
    Requests,            \* request slots
    NoJob                \* job[r] of a slot that serves no request

VARIABLES
    exists,              \* the rows of admin_roles
    deleted,             \* the roles that have been deleted
    perms,               \* perms[x]: the admin_role_permissions of role x,
                         \* as committed
    granted,             \* granted[u]: the admin_user_roles of user u
    job,                 \* job[r]: the request in slot r, or NoJob
    asked,               \* history variable, asked[x]: the permissions that
                         \* the last replacement to commit was to give role x
    mixing,              \* history variable: the requests whose replacement
                         \* has overlapped another one of the same role
    mixed                \* history variable: the roles last replaced by such

vars == <<exists, deleted, perms, granted, job, asked, mixing, mixed>>

-----------------------------------------------------------------------------
Permissions == {Manage, Assign} \cup Others

Roles == CustomRoles \cup {SystemRole}

\* A request that has passed the middleware and is to read its role, ...
Reading == [step : {"delete?"}, role : Roles]
             \cup [step : {"replace?"}, role : Roles, want : SUBSET Permissions]

\* ... to execute its only statement, ...
Single == [step : {"create", "delete"}, role : Roles]
            \cup [step : {"grant", "revoke"}, role : Roles, user : Admins]

\* ... or is in a transaction: "gone" and "new" are the rows it has deleted
\* and inserted, "todo" is what the statement it is at has still to do.
Transaction == [step : {"clear", "wait", "insert"}, role : Roles, want : SUBSET Permissions,
                gone : SUBSET Permissions, new : SUBSET Permissions,
                todo : SUBSET Permissions]

ASSUME RolesAssumption ==
    /\ NoJob \notin Reading \cup Single \cup Transaction
    /\ SystemRole \notin CustomRoles

TypeOK ==
    /\ exists \subseteq Roles /\ deleted \subseteq Roles
    /\ {perms, asked} \subseteq [Roles -> SUBSET Permissions]
    /\ granted \in [Admins -> SUBSET Roles]
    /\ job \in [Requests -> Reading \cup Single \cup Transaction \cup {NoJob}]
    /\ mixing \subseteq Requests /\ mixed \subseteq Roles

\* Whoever sets the system up grants super_admin.
Init ==
    /\ exists = {SystemRole} /\ deleted = {}
    /\ perms = [x \in Roles |-> IF x = SystemRole THEN Permissions ELSE {}]
    /\ granted \in [Admins -> {{}, {SystemRole}}]
    /\ job = [r \in Requests |-> NoJob]
    /\ asked = perms
    /\ mixing = {} /\ mixed = {}

At(r, step) == job[r] # NoJob /\ job[r].step = step

Become(r, newJob) == job' = [job EXCEPT ![r] = newJob]

Done(r) == Become(r, NoJob)

\* The requests whose transaction on role x has executed a statement.
Replacing(x) == {r \in Requests : (At(r, "wait") \/ At(r, "insert")) /\ job[r].role = x}

\* The rows of role x that transactions other than that of r have touched.
Locked(r, x) == UNION {job[q].gone \cup job[q].new : q \in Replacing(x) \ {r}}

-----------------------------------------------------------------------------
(***************************************************************************)
(* RequirePermission, and requests of one statement.                       *)
(***************************************************************************)

\* One query joins grants and role permissions.
HasPermission(u, code) == \E x \in granted[u] : code \in perms[x]

Admit(r, code, newJob) ==
    /\ job[r] = NoJob
    /\ \E u \in Admins : HasPermission(u, code)
    /\ Become(r, newJob)
    /\ UNCHANGED <<exists, deleted, perms, granted, asked, mixing, mixed>>

ManageRoles(r) ==
    \E x \in Roles :
       \/ Admit(r, Manage, [step |-> "create", role |-> x])
       \/ Admit(r, Manage, [step |-> "delete?", role |-> x])
       \/ \E want \in SUBSET Permissions :
             Admit(r, Manage, [step |-> "replace?", role |-> x, want |-> want])

AssignRoles(r) ==
    \E step \in {"grant", "revoke"}, x \in Roles, u \in Admins :
       Admit(r, Assign, [step |-> step, role |-> x, user |-> u])

CreateRole(r) ==
    /\ At(r, "create")
    /\ exists' = IF job[r].role \in deleted THEN exists ELSE exists \cup {job[r].role}
    /\ Done(r)
    /\ UNCHANGED <<deleted, perms, granted, asked, mixing, mixed>>

\* The foreign key refuses a role that does not exist.
GrantRole(r) ==
    /\ At(r, "grant")
    /\ granted' = [granted EXCEPT ![job[r].user] = @ \cup ({job[r].role} \cap exists)]
    /\ Done(r)
    /\ UNCHANGED <<exists, deleted, perms, asked, mixing, mixed>>

RevokeRole(r) ==
    /\ At(r, "revoke")
    /\ granted' = [granted EXCEPT ![job[r].user] = @ \ {job[r].role}]
    /\ Done(r)
    /\ UNCHANGED <<exists, deleted, perms, asked, mixing, mixed>>

-----------------------------------------------------------------------------
(***************************************************************************)
(* DeleteRole and SetRolePermissions.                                      *)
(***************************************************************************)

\* Both read the role first: it must exist and not be a system role.
GetRoleByID(r) ==
    LET x == job[r].role
        next == IF At(r, "delete?") THEN [step |-> "delete", role |-> x]
                ELSE [step |-> "clear", role |-> x, want |-> job[r].want,
                      gone |-> {}, new |-> {}, todo |-> {}]
    IN
      /\ At(r, "delete?") \/ At(r, "replace?")
      /\ IF x \in exists \ {SystemRole} THEN Become(r, next) ELSE Done(r)
      /\ UNCHANGED <<exists, deleted, perms, granted, asked, mixing, mixed>>

\* Permissions and grants of the role go with it (ON DELETE CASCADE), after
\* the transactions that have touched them.
DeleteRole(r) ==
    LET x == job[r].role IN
      /\ At(r, "delete")
      /\ Locked(r, x) = {}
      /\ exists' = exists \ {x}
      /\ deleted' = deleted \cup {x}
      /\ perms' = [perms EXCEPT ![x] = {}]
      /\ granted' = [u \in Admins |-> granted[u] \ {x}]
      /\ asked' = [asked EXCEPT ![x] = {}]
      /\ mixed' = mixed \ {x}
      /\ Done(r)
      /\ UNCHANGED mixing

\* DELETE ... WHERE role_id: the rows that are committed when it begins ...
Clear(r) ==
    LET x == job[r].role IN
      /\ At(r, "clear")
      /\ Become(r, [job[r] EXCEPT !.step = "wait", !.todo = perms[x]])
      /\ mixing' = IF Replacing(x) = {} THEN mixing ELSE mixing \cup Replacing(x) \cup {r}
      /\ UNCHANGED <<exists, deleted, perms, granted, asked, mixed>>

\* ... once no other transaction holds one of them.
DeleteRows(r) ==
    /\ At(r, "wait")
    /\ job[r].todo \cap Locked(r, job[r].role) = {}
    /\ Become(r, [job[r] EXCEPT !.step = "insert", !.gone = job[r].todo, !.todo = job[r].want])
    /\ UNCHANGED <<exists, deleted, perms, granted, asked, mixing, mixed>>

\* INSERT ... ON CONFLICT DO NOTHING, once no other transaction holds the row.
AddRolePermission(r, p) ==
    LET j == job[r] IN
      /\ At(r, "insert") /\ p \in j.todo
      /\ j.role \in exists
      /\ p \notin Locked(r, j.role)
      /\ Become(r, [j EXCEPT !.todo = @ \ {p},
                             !.new = IF p \in perms[j.role] \ j.gone THEN @ ELSE @ \cup {p}])
      /\ UNCHANGED <<exists, deleted, perms, granted, asked, mixing, mixed>>

\* A DELETE that waits for rows this transaction has deleted passes over them.
Commit(r) ==
    LET x == job[r].role IN
      /\ At(r, "insert") /\ job[r].todo = {}
      /\ perms' = [perms EXCEPT ![x] = (@ \ job[r].gone) \cup job[r].new]
      /\ asked' = [asked EXCEPT ![x] = IF x \in exists THEN job[r].want ELSE @]
      /\ mixed' = IF r \in mixing THEN mixed \cup {x} ELSE mixed \ {x}
      /\ mixing' = mixing \ {r}
      /\ job' = [q \in Requests |->
                   IF q = r THEN NoJob
                   ELSE IF At(q, "wait") /\ job[q].role = x
                   THEN [job[q] EXCEPT !.todo = @ \ job[r].gone]
                   ELSE job[q]]
      /\ UNCHANGED <<exists, deleted, granted>>

\* Mutant: a replacement that breaks off keeps what it has done.
MutantRollback(r) ==
    /\ r \in UNION {Replacing(x) : x \in Roles}
    /\ perms' = [perms EXCEPT ![job[r].role] = (@ \ job[r].gone) \cup job[r].new]
    /\ Done(r)
    /\ mixing' = mixing \ {r}
    /\ UNCHANGED <<exists, deleted, granted, asked, mixed>>

\* A statement fails (as the insertion for a role that is gone does, and one of
\* two transactions that wait for each other), or the process ends: the
\* transaction is rolled back.
Rollback(r) ==
    /\ job[r] # NoJob
    /\ Done(r)
    /\ mixing' = mixing \ {r}
    /\ UNCHANGED <<exists, deleted, perms, granted, asked, mixed>>

RoleStep(r) ==
    \/ ManageRoles(r) \/ CreateRole(r)
    \/ GetRoleByID(r) \/ DeleteRole(r)
    \/ Clear(r) \/ DeleteRows(r) \/ (\E p \in Permissions : AddRolePermission(r, p)) \/ Commit(r)

GrantStep(r) == AssignRoles(r) \/ GrantRole(r) \/ RevokeRole(r)

Next == \E r \in Requests : RoleStep(r) \/ GrantStep(r) \/ Rollback(r)

Spec == Init /\ [][Next]_vars

-----------------------------------------------------------------------------
\* Property of SetRolePermissions ("replaces a role's entire permission set"):
\* a role has exactly the permissions it was last asked to have, whatever broke
\* off or was deleted meanwhile, and never a part of them.  Two replacements
\* that overlap leave a mixture, which the next one that runs alone clears.
RoleIsAsAsked ==
    \A x \in Roles \ mixed : perms[x] = asked[x]

\* Property of DeleteRole and of the guards on system roles: a role that is
\* gone gives nobody anything, not even through a replacement or a grant that
\* was under way, and super_admin always gives everything.
NothingLeftBehind ==
    /\ perms[SystemRole] = Permissions
    /\ \A x \in Roles \ exists : perms[x] = {} /\ \A u \in Admins : x \notin granted[u]

\* The two, of states that are well formed.
RolesInv == TypeOK /\ RoleIsAsAsked /\ NothingLeftBehind
=============================================================================

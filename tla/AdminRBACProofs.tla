-------------------------- MODULE AdminRBACProofs --------------------------
(***************************************************************************)
(* Proofs about AdminRBAC, for any permissions, roles, administrators and  *)
(* number of requests: a role has the permissions it was last asked to     *)
(* have unless replacements of it have overlapped, a role that is gone     *)
(* gives nobody anything, and super_admin gives everything.                *)
(*                                                                         *)
(* What makes this inductive: a replacement that overlaps no other one of  *)
(* its role finds, between any two of its statements, the committed rows   *)
(* that its DELETE has seen; and a transaction about a role that has been  *)
(* deleted has inserted nothing.                                           *)
(***************************************************************************)
EXTENDS AdminRBAC, TLAPS

USE RolesAssumption

\* Roles are deleted for good, the system role never, and requests past
\* GetRoleByID are about a role that exists or has existed.
KnownInv ==
    /\ exists \cap deleted = {} /\ SystemRole \in exists
    /\ \A r \in Requests :
         job[r] # NoJob /\ job[r].step \in {"delete", "clear", "wait", "insert"} =>
           job[r].role \in (exists \cup deleted) \ {SystemRole}

\* A role without a row has nothing.
CleanInv ==
    /\ perms[SystemRole] = Permissions
    /\ \A x \in Roles \ exists :
         /\ perms[x] = {} /\ asked[x] = {}
         /\ \A u \in Admins : x \notin granted[u]

\* Transaction r on role x is past its first statement.
IsReplacing(r, x) ==
    job[r] # NoJob /\ job[r].step \in {"wait", "insert"} /\ job[r].role = x

\* What transaction r on role x finds unless another one overlaps it.
Undisturbed(r, x) ==
    /\ \A q \in Requests : IsReplacing(q, x) => q = r
    /\ x \in exists =>
         /\ job[r].step = "wait" => job[r].todo = perms[x]
         /\ job[r].step = "insert" =>
              job[r].gone = perms[x] /\ job[r].new \cup job[r].todo = job[r].want

ReplaceInv ==
    /\ \A r \in Requests, x \in Roles : IsReplacing(r, x) =>
         /\ job[r].step = "wait" \/ x \notin exists => job[r].new = {}
         /\ r \notin mixing => Undisturbed(r, x)
    /\ \A r \in Requests :
         job[r] # NoJob /\ job[r].step = "clear" => job[r].new = {} /\ job[r].gone = {}

IInv == TypeOK /\ KnownInv /\ CleanInv /\ ReplaceInv /\ RoleIsAsAsked

-----------------------------------------------------------------------------
LEMMA JobAt ==
    ASSUME TypeOK, NEW r \in Requests, job[r] # NoJob
    PROVE  /\ job[r] \in Reading \cup Single \cup Transaction
           /\ job[r].role \in Roles
           /\ job[r] \in Transaction <=> job[r].step \in {"clear", "wait", "insert"}
           /\ job[r].step \in {"grant", "revoke"} => job[r].user \in Admins
           /\ job[r].step \in {"replace?", "clear", "wait", "insert"} =>
                job[r].want \in SUBSET Permissions
           /\ job[r].step \in {"clear", "wait", "insert"} =>
                /\ job[r].gone \in SUBSET Permissions /\ job[r].new \in SUBSET Permissions
                /\ job[r].todo \in SUBSET Permissions
  <1>1. job[r] \in Reading \cup Single \cup Transaction
    BY DEF TypeOK
  <1>2. CASE job[r] \in Reading
    BY <1>2 DEF Reading, Transaction
  <1>3. CASE job[r] \in Single
    BY <1>3 DEF Single, Transaction
  <1>4. CASE job[r] \in Transaction
    BY <1>4 DEF Transaction
  <1>5. QED
    BY <1>1, <1>2, <1>3, <1>4

LEMMA InitEstablishes == Init => IInv
  <1> SUFFICES ASSUME Init PROVE IInv
    OBVIOUS
  <1>1. TypeOK
    BY DEF Init, TypeOK, Roles
  <1>2. KnownInv /\ CleanInv /\ ReplaceInv /\ RoleIsAsAsked
    BY DEF Init, KnownInv, CleanInv, ReplaceInv, RoleIsAsAsked, IsReplacing, Roles
  <1>3. QED
    BY <1>1, <1>2 DEF IInv

\* A slot changes hands outside of a transaction, or out of one, while the
\* permissions stay as they are; roles may be created meanwhile.
LEMMA Outside ==
    ASSUME IInv, NEW r \in Requests,
           NEW newJob \in Reading \cup Single \cup Transaction \cup {NoJob},
           Become(r, newJob),
           newJob # NoJob => newJob.step \notin {"wait", "insert"},
           newJob # NoJob /\ newJob.step = "clear" => newJob.new = {} /\ newJob.gone = {},
           exists' \cap deleted = {}, exists \subseteq exists', UNCHANGED <<perms, deleted>>,
           mixing \ {r} \subseteq mixing'
    PROVE  /\ job' \in [Requests -> Reading \cup Single \cup Transaction \cup {NoJob}]
           /\ ReplaceInv'
  <1> USE DEF IInv
  <1>1. /\ job' \in [Requests -> Reading \cup Single \cup Transaction \cup {NoJob}]
        /\ job'[r] = newJob
        /\ \A q \in Requests : q # r => job'[q] = job[q]
    BY DEF Become, TypeOK
  <1>2. ASSUME NEW q \in Requests, NEW x \in Roles, IsReplacing(q, x)'
        PROVE  IsReplacing(q, x) /\ job'[q] = job[q] /\ q # r
    BY <1>1, <1>2 DEF IsReplacing
  <1>3. ASSUME NEW q \in Requests, NEW x \in Roles, IsReplacing(q, x)'
        PROVE  /\ job'[q].step = "wait" \/ x \notin exists' => job'[q].new = {}
               /\ q \notin mixing' => Undisturbed(q, x)'
    <2>1. IsReplacing(q, x) /\ job'[q] = job[q] /\ q # r
      BY <1>2, <1>3
    <2>2. x \in exists \cup deleted
      BY <2>1 DEF KnownInv, IsReplacing
    <2>3. x \in exists' <=> x \in exists
      BY <2>2
    <2>4. job'[q].step = "wait" \/ x \notin exists' => job'[q].new = {}
      BY <2>1, <2>3 DEF ReplaceInv
    <2>5. ASSUME q \notin mixing' PROVE Undisturbed(q, x)'
      <3>1. Undisturbed(q, x)
        BY <2>1, <2>5 DEF ReplaceInv
      <3>2. QED
        BY <1>2, <2>1, <2>3, <3>1 DEF Undisturbed
    <2>6. QED
      BY <2>4, <2>5
  <1>4. ASSUME NEW q \in Requests, job'[q] # NoJob, job'[q].step = "clear"
        PROVE  job'[q].new = {} /\ job'[q].gone = {}
    BY <1>1, <1>4 DEF ReplaceInv
  <1>5. QED
    BY <1>1, <1>3, <1>4 DEF ReplaceInv

-----------------------------------------------------------------------------
(***************************************************************************)
(* Requests outside of the replacing transaction.                          *)
(***************************************************************************)

LEMMA AdmitKeeps ==
    ASSUME IInv, NEW r \in Requests, NEW code,
           NEW newJob \in Reading \cup Single, newJob.step # "delete",
           Admit(r, code, newJob)
    PROVE  IInv'
  <1>1. /\ Become(r, newJob)
        /\ UNCHANGED <<exists, deleted, perms, granted, asked, mixing, mixed>>
    BY DEF Admit
  <1>2. newJob.step \notin {"wait", "insert", "clear", "delete"}
    BY DEF Reading, Single
  <1>3. ReplaceInv' /\ job' \in [Requests -> Reading \cup Single \cup Transaction \cup {NoJob}]
    BY <1>1, <1>2, Outside DEF IInv, KnownInv
  <1>4. KnownInv'
    BY <1>1, <1>2 DEF IInv, KnownInv, Become, TypeOK
  <1>5. QED
    BY <1>1, <1>3, <1>4 DEF IInv, TypeOK, CleanInv, RoleIsAsAsked

LEMMA AdmissionsKeep ==
    ASSUME IInv, NEW r \in Requests, ManageRoles(r) \/ AssignRoles(r)
    PROVE  IInv'
  <1>1. ASSUME NEW x \in Roles, Admit(r, Manage, [step |-> "create", role |-> x])
        PROVE  IInv'
    <2>1. [step |-> "create", role |-> x] \in Reading \cup Single
      BY DEF Single
    <2>2. QED
      BY <1>1, <2>1, AdmitKeeps
  <1>2. ASSUME NEW x \in Roles, Admit(r, Manage, [step |-> "delete?", role |-> x])
        PROVE  IInv'
    <2>1. [step |-> "delete?", role |-> x] \in Reading \cup Single
      BY DEF Reading
    <2>2. QED
      BY <1>2, <2>1, AdmitKeeps
  <1>3. ASSUME NEW x \in Roles, NEW want \in SUBSET Permissions,
               Admit(r, Manage, [step |-> "replace?", role |-> x, want |-> want])
        PROVE  IInv'
    <2>1. [step |-> "replace?", role |-> x, want |-> want] \in Reading \cup Single
      BY DEF Reading
    <2>2. QED
      BY <1>3, <2>1, AdmitKeeps
  <1>4. ASSUME NEW x \in Roles, NEW u \in Admins, NEW step \in {"grant", "revoke"},
               Admit(r, Assign, [step |-> step, role |-> x, user |-> u])
        PROVE  IInv'
    <2>1. [step |-> step, role |-> x, user |-> u] \in Reading \cup Single
      BY DEF Single
    <2>2. QED
      BY <1>4, <2>1, AdmitKeeps
  <1>5. QED
    BY <1>1, <1>2, <1>3, <1>4 DEF ManageRoles, AssignRoles

LEMMA SinglesKeep ==
    ASSUME IInv, NEW r \in Requests, CreateRole(r) \/ GrantRole(r) \/ RevokeRole(r)
    PROVE  IInv'
  <1>1. /\ job[r] # NoJob /\ Become(r, NoJob)
        /\ UNCHANGED <<deleted, perms, asked, mixing, mixed>>
    BY DEF CreateRole, GrantRole, RevokeRole, At, Done
  <1>2. /\ exists' \cap deleted = {} /\ exists \subseteq exists' /\ exists' \subseteq Roles
    BY JobAt DEF CreateRole, GrantRole, RevokeRole, At, IInv, KnownInv, TypeOK
  <1>3. granted' \in [Admins -> SUBSET Roles]
    BY JobAt DEF CreateRole, GrantRole, RevokeRole, At, IInv, TypeOK
  <1>4. \A u \in Admins : granted'[u] \subseteq granted[u] \cup exists
    BY JobAt DEF CreateRole, GrantRole, RevokeRole, At, IInv, TypeOK
  <1>5. ReplaceInv' /\ job' \in [Requests -> Reading \cup Single \cup Transaction \cup {NoJob}]
    BY <1>1, <1>2, Outside
  <1>6. KnownInv'
    BY <1>1, <1>2 DEF IInv, KnownInv, Become, TypeOK
  <1>7. CleanInv'
    BY <1>1, <1>2, <1>4 DEF IInv, CleanInv
  <1>8. QED
    BY <1>1, <1>2, <1>3, <1>5, <1>6, <1>7 DEF IInv, TypeOK, RoleIsAsAsked

LEMMA GetRoleKeeps ==
    ASSUME IInv, NEW r \in Requests, GetRoleByID(r)
    PROVE  IInv'
  <1> DEFINE deleting == [step |-> "delete", role |-> job[r].role]
             replacing == [step |-> "clear", role |-> job[r].role, want |-> job[r].want,
                           gone |-> {}, new |-> {}, todo |-> {}]
  <1>1. /\ job[r] # NoJob /\ job[r].step \in {"delete?", "replace?"}
        /\ UNCHANGED <<exists, deleted, perms, granted, asked, mixing, mixed>>
    BY DEF GetRoleByID, At
  <1>2. \/ Become(r, NoJob)
        \/ /\ job[r].role \in exists \ {SystemRole}
           /\ Become(r, deleting) \/ (job[r].step = "replace?" /\ Become(r, replacing))
    BY <1>1 DEF GetRoleByID, At, Done
  <1>3. /\ deleting \in Reading \cup Single \cup Transaction
        /\ job[r].step = "replace?" => replacing \in Reading \cup Single \cup Transaction
    BY <1>1, JobAt DEF IInv, Single, Transaction
  <1>4. PICK newJob \in Reading \cup Single \cup Transaction \cup {NoJob} :
          /\ Become(r, newJob)
          /\ newJob # NoJob =>
               /\ newJob.step \notin {"wait", "insert"}
               /\ newJob.step = "clear" => newJob.new = {} /\ newJob.gone = {}
               /\ newJob.role \in exists \ {SystemRole}
    BY <1>2, <1>3
  <1>5. ReplaceInv' /\ job' \in [Requests -> Reading \cup Single \cup Transaction \cup {NoJob}]
    BY <1>1, <1>4, Outside DEF IInv, KnownInv
  <1>6. KnownInv'
    BY <1>1, <1>4 DEF IInv, KnownInv, Become, TypeOK
  <1>7. QED
    BY <1>1, <1>5, <1>6 DEF IInv, TypeOK, CleanInv, RoleIsAsAsked

LEMMA RollbackKeeps ==
    ASSUME IInv, NEW r \in Requests, Rollback(r)
    PROVE  IInv'
  <1>1. /\ Become(r, NoJob) /\ mixing' = mixing \ {r}
        /\ UNCHANGED <<exists, deleted, perms, granted, asked, mixed>>
    BY DEF Rollback, Done
  <1>2. ReplaceInv' /\ job' \in [Requests -> Reading \cup Single \cup Transaction \cup {NoJob}]
    BY <1>1, Outside DEF IInv, KnownInv
  <1>3. KnownInv'
    BY <1>1 DEF IInv, KnownInv, Become, TypeOK
  <1>4. QED
    BY <1>1, <1>2, <1>3 DEF IInv, TypeOK, CleanInv, RoleIsAsAsked

-----------------------------------------------------------------------------
(***************************************************************************)
(* DeleteRole and the statements of a replacement.                         *)
(***************************************************************************)

\* No transaction has touched a row of the role: none has inserted anything.
LEMMA DeleteKeeps ==
    ASSUME IInv, NEW r \in Requests, DeleteRole(r), NEW x, job[r].role = x
    PROVE  IInv'
  <1> USE DEF IInv
  <1>1. /\ job[r] # NoJob /\ job[r].step = "delete" /\ x \in Roles
        /\ Become(r, NoJob) /\ UNCHANGED mixing
        /\ x \in (exists \cup deleted) \ {SystemRole}
    BY JobAt DEF DeleteRole, At, Done, KnownInv
  <1>2. /\ exists' = exists \ {x} /\ deleted' = deleted \cup {x} /\ mixed' = mixed \ {x}
        /\ perms' = [perms EXCEPT ![x] = {}] /\ asked' = [asked EXCEPT ![x] = {}]
        /\ granted' = [u \in Admins |-> granted[u] \ {x}]
    BY DEF DeleteRole
  <1>3. \A q \in Requests : IsReplacing(q, x) => job[q].new = {} /\ job[q].gone = {}
    <2>1. Locked(r, x) = {}
      BY DEF DeleteRole
    <2>2. \A q \in Requests : IsReplacing(q, x) => q \in Replacing(x) \ {r}
      BY <1>1 DEF IsReplacing, Replacing, At
    <2>3. QED
      BY <2>1, <2>2 DEF Locked
  <1>4. /\ job' \in [Requests -> Reading \cup Single \cup Transaction \cup {NoJob}]
        /\ job'[r] = NoJob
        /\ \A q \in Requests : q # r => job'[q] = job[q]
    BY <1>1 DEF Become, TypeOK
  <1>5. TypeOK'
    BY <1>1, <1>2, <1>4 DEF TypeOK
  <1>6. KnownInv'
    BY <1>1, <1>2, <1>4 DEF KnownInv
  <1>7. CleanInv'
    BY <1>1, <1>2 DEF CleanInv, TypeOK
  <1>8. RoleIsAsAsked'
    BY <1>1, <1>2 DEF RoleIsAsAsked, TypeOK
  <1>9. ReplaceInv'
    <2>1. ASSUME NEW q \in Requests, NEW y \in Roles, IsReplacing(q, y)'
          PROVE  IsReplacing(q, y) /\ job'[q] = job[q] /\ q # r
      BY <1>4, <2>1 DEF IsReplacing
    <2>2. ASSUME NEW q \in Requests, NEW y \in Roles, IsReplacing(q, y)'
          PROVE  job'[q].step = "wait" \/ y \notin exists' => job'[q].new = {}
      BY <1>2, <1>3, <2>1, <2>2 DEF ReplaceInv
    <2>3. ASSUME NEW q \in Requests, NEW y \in Roles, IsReplacing(q, y)', q \notin mixing'
          PROVE  Undisturbed(q, y)'
      <3>1. Undisturbed(q, y)
        BY <1>1, <2>1, <2>3 DEF ReplaceInv
      <3>2. y # x => perms'[y] = perms[y]
        BY <1>2 DEF TypeOK
      <3>3. QED
        BY <1>2, <2>1, <2>3, <3>1, <3>2 DEF Undisturbed
    <2>4. QED
      BY <1>4, <2>2, <2>3 DEF ReplaceInv
  <1>10. QED
    BY <1>5, <1>6, <1>7, <1>8, <1>9

\* One statement of transaction r on role x, which changes no table.
LEMMA StatementKeeps ==
    ASSUME IInv, NEW r \in Requests, NEW x \in Roles, NEW newJob \in Transaction,
           job[r] \in Transaction, job[r].role = x, newJob.role = x,
           newJob.step \in {"wait", "insert"}, Become(r, newJob),
           UNCHANGED <<exists, deleted, perms, granted, asked, mixed>>,
           mixing \subseteq mixing', mixing' \subseteq Requests,
           \A q \in Requests : IsReplacing(q, x) /\ q \notin mixing' => q = r,
           r \notin mixing' => \A q \in Requests : IsReplacing(q, x) => q = r,
           newJob.step = "wait" \/ x \notin exists => newJob.new = {},
           r \notin mixing' /\ x \in exists =>
             /\ newJob.step = "wait" => newJob.todo = perms[x]
             /\ newJob.step = "insert" =>
                  newJob.gone = perms[x] /\ newJob.new \cup newJob.todo = newJob.want
    PROVE  IInv'
  <1> USE DEF IInv
  <1>1. /\ job' \in [Requests -> Reading \cup Single \cup Transaction \cup {NoJob}]
        /\ job'[r] = newJob
        /\ \A q \in Requests : q # r => job'[q] = job[q]
    BY DEF Become, TypeOK
  <1>2. newJob # NoJob /\ job[r] # NoJob /\ job[r].step \in {"clear", "wait", "insert"}
    BY DEF Transaction
  <1>3. TypeOK'
    BY <1>1 DEF TypeOK
  <1>4. KnownInv'
    BY <1>1, <1>2 DEF KnownInv
  <1>5. CleanInv' /\ RoleIsAsAsked'
    BY DEF CleanInv, RoleIsAsAsked
  <1>6. ASSUME NEW q \in Requests, NEW y \in Roles, IsReplacing(q, y)'
        PROVE  (q = r /\ y = x) \/ (q # r /\ IsReplacing(q, y) /\ job'[q] = job[q])
    BY <1>1, <1>6 DEF IsReplacing
  <1>7. ASSUME NEW q \in Requests, NEW y \in Roles, IsReplacing(q, y)'
        PROVE  /\ job'[q].step = "wait" \/ y \notin exists' => job'[q].new = {}
               /\ q \notin mixing' => Undisturbed(q, y)'
    <2>1. CASE q = r /\ y = x
      <3>1. job'[q].step = "wait" \/ y \notin exists' => job'[q].new = {}
        BY <1>1, <2>1
      <3>2. ASSUME q \notin mixing' PROVE Undisturbed(q, y)'
        <4>1. \A s \in Requests : IsReplacing(s, x)' => s = r
          BY <1>6, <2>1, <3>2
        <4>2. QED
          BY <1>1, <2>1, <3>2, <4>1 DEF Undisturbed
      <3>3. QED
        BY <3>1, <3>2
    <2>2. CASE q # r /\ IsReplacing(q, y) /\ job'[q] = job[q]
      <3>1. job'[q].step = "wait" \/ y \notin exists' => job'[q].new = {}
        BY <2>2 DEF ReplaceInv
      <3>2. ASSUME q \notin mixing' PROVE Undisturbed(q, y)'
        <4>1. y # x
          BY <2>2, <3>2
        <4>2. Undisturbed(q, y)
          BY <2>2, <3>2 DEF ReplaceInv
        <4>3. \A s \in Requests : IsReplacing(s, y)' => s = q
          BY <1>6, <4>1, <4>2 DEF Undisturbed
        <4>4. QED
          BY <2>2, <4>2, <4>3 DEF Undisturbed
      <3>3. QED
        BY <3>1, <3>2
    <2>3. QED
      BY <1>6, <1>7, <2>1, <2>2
  <1>8. ASSUME NEW q \in Requests, job'[q] # NoJob, job'[q].step = "clear"
        PROVE  job'[q].new = {} /\ job'[q].gone = {}
    BY <1>1, <1>8 DEF ReplaceInv
  <1>9. ReplaceInv'
    BY <1>7, <1>8 DEF ReplaceInv
  <1>10. QED
    BY <1>3, <1>4, <1>5, <1>9

LEMMA ClearKeeps ==
    ASSUME IInv, NEW r \in Requests, Clear(r), NEW x, job[r].role = x
    PROVE  IInv'
  <1> DEFINE waiting == [job[r] EXCEPT !.step = "wait", !.todo = perms[x]]
  <1>1. /\ job[r] # NoJob /\ job[r].step = "clear" /\ Become(r, waiting)
        /\ mixing' = IF Replacing(x) = {} THEN mixing ELSE mixing \cup Replacing(x) \cup {r}
        /\ UNCHANGED <<exists, deleted, perms, granted, asked, mixed>>
    BY DEF Clear, At
  <1>2. x \in Roles /\ job[r] \in Transaction /\ job[r].new = {}
    BY <1>1, JobAt DEF IInv, ReplaceInv
  <1>3. /\ waiting \in Transaction /\ waiting.step = "wait" /\ waiting.role = x
        /\ waiting.todo = perms[x] /\ waiting.new = {}
    BY <1>2 DEF Transaction, IInv, TypeOK
  <1>4. \A q \in Requests : IsReplacing(q, x) => q \in Replacing(x)
    BY DEF IsReplacing, Replacing, At
  <1>5. mixing \subseteq mixing' /\ mixing' \subseteq Requests
    BY <1>1 DEF IInv, TypeOK, Replacing
  <1>6. /\ \A q \in Requests : IsReplacing(q, x) => q \in mixing'
        /\ r \notin mixing' => \A q \in Requests : ~ IsReplacing(q, x)
    BY <1>1, <1>4
  <1>7. QED
    BY <1>1, <1>2, <1>3, <1>5, <1>6, StatementKeeps

LEMMA DeleteRowsKeeps ==
    ASSUME IInv, NEW r \in Requests, DeleteRows(r), NEW x, job[r].role = x
    PROVE  IInv'
  <1> DEFINE inserting == [job[r] EXCEPT !.step = "insert", !.gone = job[r].todo,
                                         !.todo = job[r].want]
  <1>1. /\ job[r] # NoJob /\ job[r].step = "wait" /\ Become(r, inserting)
        /\ UNCHANGED <<exists, deleted, perms, granted, asked, mixing, mixed>>
    BY DEF DeleteRows, At
  <1>2. x \in Roles /\ job[r] \in Transaction
    BY <1>1, JobAt DEF IInv
  <1>3. IsReplacing(r, x)
    BY <1>1 DEF IsReplacing
  <1>4. /\ inserting \in Transaction /\ inserting.step = "insert" /\ inserting.role = x
        /\ inserting.gone = job[r].todo /\ inserting.todo = job[r].want
        /\ inserting.want = job[r].want /\ inserting.new = job[r].new
    BY <1>2 DEF Transaction
  <1>5. job[r].new = {} /\ (r \notin mixing => Undisturbed(r, x))
    BY <1>1, <1>2, <1>3 DEF IInv, ReplaceInv
  <1>6. \A q \in Requests : IsReplacing(q, x) /\ q \notin mixing => q = r
    BY <1>2, <1>3 DEF IInv, ReplaceInv, Undisturbed
  <1>7. /\ r \notin mixing => \A q \in Requests : IsReplacing(q, x) => q = r
        /\ r \notin mixing /\ x \in exists =>
             inserting.gone = perms[x] /\ inserting.new \cup inserting.todo = inserting.want
    BY <1>1, <1>4, <1>5 DEF Undisturbed
  <1>8. mixing \subseteq mixing' /\ mixing' \subseteq Requests
    BY <1>1 DEF IInv, TypeOK
  <1>9. QED
    BY <1>1, <1>2, <1>4, <1>5, <1>6, <1>7, <1>8, StatementKeeps

LEMMA AddKeeps ==
    ASSUME IInv, NEW r \in Requests, NEW p \in Permissions, AddRolePermission(r, p),
           NEW x, job[r].role = x
    PROVE  IInv'
  <1> DEFINE added == [job[r] EXCEPT !.todo = @ \ {p},
                         !.new = IF p \in perms[x] \ job[r].gone THEN @ ELSE @ \cup {p}]
  <1>1. /\ job[r] # NoJob /\ job[r].step = "insert" /\ p \in job[r].todo /\ x \in exists
        /\ Become(r, added)
        /\ UNCHANGED <<exists, deleted, perms, granted, asked, mixing, mixed>>
    BY DEF AddRolePermission, At
  <1>2. x \in Roles /\ job[r] \in Transaction
    BY <1>1, JobAt DEF IInv
  <1>3. IsReplacing(r, x)
    BY <1>1 DEF IsReplacing
  <1>4. /\ added \in Transaction /\ added.step = "insert" /\ added.role = x
        /\ added.gone = job[r].gone /\ added.todo = job[r].todo \ {p}
        /\ added.want = job[r].want
        /\ added.new = IF p \in perms[x] \ job[r].gone THEN job[r].new
                       ELSE job[r].new \cup {p}
    BY <1>1, <1>2 DEF Transaction
  <1>5. r \notin mixing => Undisturbed(r, x)
    BY <1>2, <1>3 DEF IInv, ReplaceInv
  <1>6. \A q \in Requests : IsReplacing(q, x) /\ q \notin mixing => q = r
    BY <1>2, <1>3 DEF IInv, ReplaceInv, Undisturbed
  <1>7. /\ r \notin mixing => \A q \in Requests : IsReplacing(q, x) => q = r
        /\ r \notin mixing /\ x \in exists =>
             added.gone = perms[x] /\ added.new \cup added.todo = added.want
    BY <1>1, <1>4, <1>5 DEF Undisturbed
  <1>8. mixing \subseteq mixing' /\ mixing' \subseteq Requests
    BY <1>1 DEF IInv, TypeOK
  <1>9. QED
    BY <1>1, <1>2, <1>4, <1>6, <1>7, <1>8, StatementKeeps

LEMMA CommitKeeps ==
    ASSUME IInv, NEW r \in Requests, Commit(r), NEW x, job[r].role = x
    PROVE  IInv'
  <1> USE DEF IInv
  <1>1. /\ job[r] # NoJob /\ job[r].step = "insert" /\ job[r].todo = {}
        /\ x \in (exists \cup deleted) \ {SystemRole} /\ x \in Roles
        /\ job[r].gone \in SUBSET Permissions /\ job[r].new \in SUBSET Permissions
        /\ job[r].want \in SUBSET Permissions
        /\ IsReplacing(r, x)
    BY JobAt DEF Commit, At, KnownInv, IsReplacing
  <1>2. /\ perms' = [perms EXCEPT ![x] = (@ \ job[r].gone) \cup job[r].new]
        /\ asked' = [asked EXCEPT ![x] = IF x \in exists THEN job[r].want ELSE @]
        /\ mixed' = (IF r \in mixing THEN mixed \cup {x} ELSE mixed \ {x})
        /\ mixing' = mixing \ {r}
        /\ UNCHANGED <<exists, deleted, granted>>
    BY DEF Commit
  <1>3. job' = [q \in Requests |->
                  IF q = r THEN NoJob
                  ELSE IF At(q, "wait") /\ job[q].role = x
                  THEN [job[q] EXCEPT !.todo = @ \ job[r].gone]
                  ELSE job[q]]
    BY DEF Commit
  <1>4. ASSUME NEW q \in Requests, q # r, At(q, "wait"), job[q].role = x
        PROVE  /\ job'[q] \in Transaction
               /\ job'[q].step = job[q].step /\ job'[q].role = job[q].role
               /\ job'[q].new = job[q].new
    <2>1. job[q] \in Transaction
      BY <1>4, JobAt DEF At
    <2>2. job'[q] = [job[q] EXCEPT !.todo = @ \ job[r].gone]
      BY <1>3, <1>4
    <2>3. QED
      BY <2>1, <2>2 DEF Transaction
  <1>5. \A q \in Requests : q # r /\ ~ (At(q, "wait") /\ job[q].role = x) => job'[q] = job[q]
    BY <1>3
  <1>6. job' \in [Requests -> Reading \cup Single \cup Transaction \cup {NoJob}]
    BY <1>3, <1>4, <1>5 DEF TypeOK
  <1>7. TypeOK'
    BY <1>1, <1>2, <1>6 DEF TypeOK
  <1>8. KnownInv'
    BY <1>2, <1>3, <1>4, <1>5 DEF KnownInv, At
  <1>9. x \notin exists => perms[x] = {} /\ asked[x] = {} /\ job[r].new = {}
    BY <1>1 DEF CleanInv, ReplaceInv
  <1>10. CleanInv'
    BY <1>1, <1>2, <1>9 DEF CleanInv, TypeOK
  <1>11. RoleIsAsAsked'
    <2>1. \A y \in Roles : y # x =>
            /\ perms'[y] = perms[y] /\ asked'[y] = asked[y]
            /\ y \in mixed' <=> y \in mixed
      BY <1>2 DEF TypeOK
    <2>2. x \notin mixed' => perms'[x] = asked'[x]
      <3>1. CASE x \in exists /\ r \notin mixing
        <4>1. job[r].gone = perms[x] /\ job[r].new = job[r].want
          <5>1. Undisturbed(r, x)
            BY <1>1, <3>1 DEF ReplaceInv
          <5>2. job[r].gone = perms[x] /\ job[r].new \cup job[r].todo = job[r].want
            BY <1>1, <3>1, <5>1 DEF Undisturbed
          <5>3. QED
            BY <1>1, <5>2
        <4>2. QED
          BY <1>1, <1>2, <3>1, <4>1 DEF TypeOK
      <3>2. CASE x \notin exists
        BY <1>1, <1>2, <1>9, <3>2 DEF TypeOK
      <3>3. QED
        BY <1>2, <3>1, <3>2
    <2>3. QED
      BY <2>1, <2>2 DEF RoleIsAsAsked
  <1>12. ReplaceInv'
    <2>1. ASSUME NEW q \in Requests, NEW y \in Roles, IsReplacing(q, y)'
          PROVE  /\ IsReplacing(q, y) /\ q # r
                 /\ job'[q].new = job[q].new /\ job'[q].step = job[q].step
                 /\ y # x => job'[q] = job[q]
      BY <1>3, <1>4, <1>5, <2>1 DEF IsReplacing, At
    <2>2. ASSUME NEW q \in Requests, NEW y \in Roles, IsReplacing(q, y)'
          PROVE  job'[q].step = "wait" \/ y \notin exists' => job'[q].new = {}
      BY <1>2, <2>1, <2>2 DEF ReplaceInv
    <2>3. ASSUME NEW q \in Requests, NEW y \in Roles, IsReplacing(q, y)', q \notin mixing'
          PROVE  Undisturbed(q, y)'
      <3>1. Undisturbed(q, y)
        BY <1>2, <2>1, <2>3 DEF ReplaceInv
      <3>2. y # x
        BY <1>1, <2>1, <2>3, <3>1 DEF Undisturbed
      <3>3. perms'[y] = perms[y]
        BY <1>2, <3>2 DEF TypeOK
      <3>4. QED
        BY <1>2, <2>1, <2>3, <3>1, <3>2, <3>3 DEF Undisturbed
    <2>4. ASSUME NEW q \in Requests, job'[q] # NoJob, job'[q].step = "clear"
          PROVE  job'[q].new = {} /\ job'[q].gone = {}
      BY <1>3, <1>4, <1>5, <2>4 DEF ReplaceInv, At
    <2>5. QED
      BY <2>2, <2>3, <2>4 DEF ReplaceInv
  <1>13. QED
    BY <1>7, <1>8, <1>10, <1>11, <1>12

-----------------------------------------------------------------------------
LEMMA Invariant == Spec => []IInv
  <1>1. IInv /\ UNCHANGED vars => IInv'
    BY DEF IInv, TypeOK, KnownInv, CleanInv, ReplaceInv, RoleIsAsAsked, IsReplacing,
           Undisturbed, vars
  <1>2. ASSUME IInv, NEW r \in Requests, RoleStep(r) \/ GrantStep(r) \/ Rollback(r)
        PROVE  IInv'
    BY <1>2, AdmissionsKeep, SinglesKeep, GetRoleKeeps, DeleteKeeps, ClearKeeps,
       DeleteRowsKeeps, AddKeeps, CommitKeeps, RollbackKeeps
    DEF RoleStep, GrantStep
  <1>3. IInv /\ [Next]_vars => IInv'
    BY <1>1, <1>2 DEF Next
  <1>4. QED
    BY <1>3, InitEstablishes, PTL DEF Spec

\* A role is as it was last asked to be unless replacements of it overlapped,
\* and what is deleted is gone, whatever interleaves with it.
THEOREM RolesCorrect == Spec => []RolesInv
  <1>1. IInv => RolesInv
    BY DEF IInv, CleanInv, RolesInv, NothingLeftBehind
  <1>2. QED
    BY <1>1, Invariant, PTL
=============================================================================

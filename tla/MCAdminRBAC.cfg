CONSTANTS
    Manage = manage
    Assign = assign
    Others = {}
    SystemRole = super_admin
    CustomRoles = {x1}
    Admins = {u1, u2}
    Requests = {r1, r2}
    NoJob = NoJob
SYMMETRY Symmetry
SPECIFICATION Spec
INVARIANT RolesInv
CHECK_DEADLOCK FALSE

--------------------------- MODULE Authorization ---------------------------
(* Roles, permissions and resource scopes, and what a route decides from    *)
(* them.  Pure functions: who changes roles is MemberAdmin's matter.        *)
RoleCodes      == {"owner", "admin", "service_advisor", "technician"}
ResourceScopes == {"tenant", "assigned", "quality_control"}

\* The patterns of the 103 rows of the matrix, each with one of its permissions.
PermissionCodes == {"workshop.read", "workshop.profile.update", "roles.assign_owner",
                    "customers.create", "media.read", "media.upload", "technician_logs.create",
                    "quality_checks.perform"}

\* The cell of a role, "deny" where the role has no such permission.
RbacMatrix(code, role) ==
  CASE role = "owner" -> "tenant"
    [] role = "admin" -> IF code = "roles.assign_owner" THEN "deny" ELSE "tenant"
    [] role = "service_advisor" ->
         IF code \in {"workshop.profile.update", "roles.assign_owner", "technician_logs.create"}
         THEN "deny" ELSE "tenant"
    [] role = "technician" ->
         CASE code = "workshop.read" -> "tenant"
           [] code \in {"media.read", "media.upload", "technician_logs.create"} -> "assigned"
           [] code = "quality_checks.perform" -> "quality_control"
           [] OTHER -> "deny"

\* listRolePermissionRows: the rows of role_permissions the roles reach.
RolePermissionRows(roles) ==
  {row \in PermissionCodes \X ResourceScopes : \E r \in roles : RbacMatrix(row[1], r) = row[2]}

\* The grant of several roles: tenant dominates, else the union; {} is none.
CombinePermissionScopes(scopes) == IF "tenant" \in scopes THEN {"tenant"} ELSE scopes

\* buildPermissionGrantMap.  A row that is not of the matrix would fail the
\* whole request.
PermissionGrantMap(rows) ==
  [code \in PermissionCodes |-> CombinePermissionScopes({row[2] : row \in {r \in rows : r[1] = code}})]

GrantOf(roles, code) == PermissionGrantMap(RolePermissionRows(roles))[code]

\* The check a grant asks for, as a set with at most one element: a restricted
\* grant opens a tripwire on a route about one resource and is nothing elsewhere.
AuthorizePermissionRequirement(scope, grant) ==
  IF "tenant" \in grant THEN {"not_required"}
  ELSE {c \in {"required_pending"} : grant # {} /\ scope = "resource"}

\* The checks to which a route may lead its callers, whatever their roles.
Checks == [route \in PermissionCodes \X {"tenant", "resource"} |->
             UNION {AuthorizePermissionRequirement(route[2], GrantOf(roles, route[1])) : roles \in SUBSET RoleCodes}]
=============================================================================

----------------------------- MODULE AccessControl -----------------------------
(***************************************************************************)
(* Roles and permissions: the tables of rbac.prisma, filled by the seed    *)
(* script and by registration, and read on every request by JwtStrategy    *)
(* and PermissionsGuard.                                                   *)
(*                                                                         *)
(* The seed is a process of its own.  It runs upsert after upsert without  *)
(* a transaction, may fail anywhere, may be run again, and may run twice   *)
(* at the same time (two deployments), while the service answers requests. *)
(* findByIdWithRoles is one call that Prisma answers with several queries, *)
(* so the roles and their permissions are read at different moments.       *)
(*                                                                         *)
(* A permission is the pair that its name "resource:action" spells.  Rows  *)
(* are identified with their unique keys.                                  *)
(***************************************************************************)
CONSTANTS
    PERMISSIONS,    \* the table of the seed script
    Users,          \* e-mail addresses, that of the seeded administrator included
    AdminEmail,
    Seeders,        \* the runs of the seed script at the same time
    Requests,       \* the requests that may be in flight together
    Routes,         \* the sets of permissions that routes require
    None

ListUsers   == {<<"user", "read">>}         \* GET /users
UsersManage == <<"users", "manage">>
Roles       == {"super-admin", "admin", "user"}

ASSUME AdminIsUser == AdminEmail \in Users /\ None \notin Users \cup Roles
ASSUME RoutesAssumption == ListUsers \in Routes

VARIABLES
    permission, role, rolePermission, userRole,     \* tables, as sets of keys
    user,           \* the users table
    active,         \* users with emailVerified and status
    seed,           \* per run of the seed: the statement it has reached
    todo,           \* per run: what a Promise.all has yet to upsert
    request,        \* the frame of each request
    seeded          \* history: some run of the seed has completed

tables == <<permission, role, rolePermission, userRole, user, active>>
vars   == <<tables, seed, todo, request, seeded>>

Idle == [at |-> "idle", user |-> None, role |-> None, roles |-> {},
         permissions |-> {}, required |-> {}, full |-> FALSE]

Init ==
    /\ permission = {} /\ role = {} /\ rolePermission = {} /\ userRole = {}
    /\ user = {} /\ active = {}
    /\ seed = [s \in Seeders |-> "off"]
    /\ todo = [s \in Seeders |-> {}]
    /\ request = [c \in Requests |-> Idle]
    /\ seeded = FALSE

-----------------------------------------------------------------------------
(***************************************************************************)
(* main of prisma/seed.ts                                                  *)
(***************************************************************************)
Reached(s, at) == seed[s] = at /\ todo[s] = {}
Proceed(s, at) == seed' = [seed EXCEPT ![s] = at]

StartSeed(s) ==
    /\ seed[s] \in {"off", "done"}
    /\ Proceed(s, "permissions")
    /\ todo' = [todo EXCEPT ![s] = PERMISSIONS]
    /\ UNCHANGED <<tables, request, seeded>>

UpsertPermission(s, p) ==
    /\ seed[s] = "permissions" /\ p \in todo[s]
    /\ permission' = permission \cup {p}
    /\ todo' = [todo EXCEPT ![s] = @ \ {p}]
    /\ UNCHANGED <<role, rolePermission, userRole, user, active, seed, request,
                   seeded>>

\* The roles, one after the other.
UpsertRole(s, r, before, after) ==
    /\ Reached(s, before)
    /\ role' = role \cup {r}
    /\ Proceed(s, after)
    /\ todo' = [todo EXCEPT ![s] = IF after = "grants" THEN PERMISSIONS ELSE {}]
    /\ UNCHANGED <<permission, rolePermission, userRole, user, active, request,
                   seeded>>

UpsertRoles(s) ==
    \/ UpsertRole(s, "super-admin", "permissions", "admin")
    \/ UpsertRole(s, "admin", "admin", "user")
    \/ UpsertRole(s, "user", "user", "grants")

\* Faults: the two columns are swapped; the wrong role gets everything.
GrantSwapped(s, p) ==
    /\ seed[s] = "grants" /\ p \in todo[s]
    /\ rolePermission' = rolePermission \cup {<<p, "super-admin">>}
    /\ todo' = [todo EXCEPT ![s] = @ \ {p}]
    /\ UNCHANGED <<permission, role, userRole, user, active, seed, request, seeded>>

GrantToAdmin(s, p) ==
    /\ seed[s] = "grants" /\ p \in todo[s]
    /\ rolePermission' = rolePermission \cup {<<"admin", p>>}
    /\ todo' = [todo EXCEPT ![s] = @ \ {p}]
    /\ UNCHANGED <<permission, role, userRole, user, active, seed, request, seeded>>

GrantToSuperAdmin(s, p) ==
    /\ seed[s] = "grants" /\ p \in todo[s]
    /\ rolePermission' = rolePermission \cup {<<"super-admin", p>>}
    /\ todo' = [todo EXCEPT ![s] = @ \ {p}]
    /\ UNCHANGED <<permission, role, userRole, user, active, seed, request, seeded>>

GrantUsersManage(s) ==
    /\ Reached(s, "grants")
    /\ rolePermission' = rolePermission \cup
          {<<"admin", p>> : p \in PERMISSIONS \cap {UsersManage}}
    /\ Proceed(s, "adminUser")
    /\ UNCHANGED <<permission, role, userRole, user, active, todo, request, seeded>>

\* An administrator who has registered already stays as he is.
UpsertAdminUser(s) ==
    /\ Reached(s, "adminUser")
    /\ user' = user \cup {AdminEmail}
    /\ active' = IF AdminEmail \in user THEN active ELSE active \cup {AdminEmail}
    /\ Proceed(s, "adminRole")
    /\ UNCHANGED <<permission, role, rolePermission, userRole, todo, request, seeded>>

UpsertAdminRole(s) ==
    /\ Reached(s, "adminRole")
    /\ userRole' = userRole \cup {<<AdminEmail, "super-admin">>}
    /\ Proceed(s, "done")
    /\ seeded' = TRUE
    /\ UNCHANGED <<permission, role, rolePermission, user, active, todo, request>>

\* A statement fails: main rejects and the process exits.
FailSeed(s) ==
    /\ seed[s] \notin {"off", "done"}
    /\ Proceed(s, "off")
    /\ todo' = [todo EXCEPT ![s] = {}]
    /\ UNCHANGED <<tables, request, seeded>>

SeedStep(s) ==
    \/ StartSeed(s)
    \/ \E p \in PERMISSIONS : UpsertPermission(s, p) \/ GrantToSuperAdmin(s, p)
    \/ UpsertRoles(s)
    \/ GrantUsersManage(s)
    \/ UpsertAdminUser(s)
    \/ UpsertAdminRole(s)
    \/ FailSeed(s)

-----------------------------------------------------------------------------
(***************************************************************************)
(* UserService.create.  A request that names no role gets the first row    *)
(* that the database returns: any role there is.                           *)
(***************************************************************************)
FindRole(c, u, r) ==
    /\ request[c] = Idle
    /\ r \in role /\ u \notin user
    /\ request' = [request EXCEPT ![c] =
          [Idle EXCEPT !.at = "create", !.user = u, !.role = r]]
    /\ UNCHANGED <<tables, seed, todo, seeded>>

\* The nested create inserts the user with the role, or neither.
CreateUser(c) ==
    /\ request[c].at = "create"
    /\ IF request[c].user \in user
       THEN UNCHANGED <<user, userRole>>
       ELSE /\ user' = user \cup {request[c].user}
            /\ userRole' = userRole \cup {<<request[c].user, request[c].role>>}
    /\ request' = [request EXCEPT ![c] = Idle]
    /\ UNCHANGED <<permission, role, rolePermission, active, seed, todo, seeded>>

MarkEmailVerified(u) ==
    /\ u \in user \ active
    /\ active' = active \cup {u}
    /\ UNCHANGED <<permission, role, rolePermission, userRole, user, seed, todo,
                   request, seeded>>

-----------------------------------------------------------------------------
(***************************************************************************)
(* A request with a valid access token to a route.  JwtStrategy.validate   *)
(* rejects a user who is not active, and flattens what it has read.        *)
(***************************************************************************)
LoadRoles(c, u, required) ==
    /\ request[c] = Idle
    /\ u \in active
    /\ request' = [request EXCEPT ![c] =
          [Idle EXCEPT !.at = "loading", !.user = u, !.required = required,
                       !.roles = {r \in Roles : <<u, r>> \in userRole},
                       !.full = seeded]]
    /\ UNCHANGED <<tables, seed, todo, seeded>>

LoadPermissions(c) ==
    /\ request[c].at = "loading"
    /\ request' = [request EXCEPT ![c].at = "deciding",
          ![c].permissions = {p \in PERMISSIONS :
              \E r \in request[c].roles : <<r, p>> \in rolePermission}]
    /\ UNCHANGED <<tables, seed, todo, seeded>>

\* hasPermission: exactly, or by the wildcard of the resource.
HasPermission(permissions, required) ==
    \E p \in permissions : p = required \/ p = <<required[1], "manage">>

\* Faults: one permission is enough; the wildcard is required by mistake.
CanActivateBySome(permissions, required) ==
    required = {} \/ \E r \in required : HasPermission(permissions, r)

CanActivateByManage(permissions, required) ==
    \A r \in required : <<r[1], "manage">> \in permissions

\* PermissionsGuard.canActivate.  Its refusal of a request without a user is
\* out of reach: JwtAuthGuard, which runs before it, has set the user of every
\* request that a permission is required of.
CanActivate(permissions, required) ==
    \A r \in required : HasPermission(permissions, r)

Decide(c) ==
    LET verdict == IF CanActivate(request[c].permissions, request[c].required)
                   THEN "admitted" ELSE "refused"
    IN  /\ request[c].at = "deciding"
        /\ request' = [request EXCEPT ![c].at = verdict]
        /\ UNCHANGED <<tables, seed, todo, seeded>>

Answer(c) ==
    /\ request[c].at \in {"admitted", "refused"}
    /\ request' = [request EXCEPT ![c] = Idle]
    /\ UNCHANGED <<tables, seed, todo, seeded>>

RequestStep(c) ==
    \/ \E u \in Users, r \in Roles : FindRole(c, u, r)
    \/ CreateUser(c)
    \/ \E u \in Users, required \in Routes : LoadRoles(c, u, required)
    \/ LoadPermissions(c)
    \/ Decide(c)
    \/ Answer(c)

Next ==
    \/ \E s \in Seeders : SeedStep(s)
    \/ \E c \in Requests : RequestStep(c)
    \/ \E u \in Users : MarkEmailVerified(u)

Spec == Init /\ [][Next]_vars

-----------------------------------------------------------------------------
Frame == [at : {"idle", "create", "loading", "deciding", "admitted", "refused"},
          user : Users \cup {None}, role : Roles \cup {None},
          roles : SUBSET Roles, permissions : SUBSET PERMISSIONS,
          required : Routes \cup {{}}, full : BOOLEAN]

\* Every variable has its type.
TypeOK ==
    /\ permission \subseteq PERMISSIONS
    /\ role \subseteq Roles
    /\ rolePermission \subseteq Roles \X PERMISSIONS
    /\ userRole \subseteq Users \X Roles
    /\ user \subseteq Users
    /\ active \subseteq user
    /\ seed \in [Seeders -> {"off", "permissions", "admin", "user", "grants",
                             "adminUser", "adminRole", "done"}]
    /\ todo \in [Seeders -> SUBSET PERMISSIONS]
    /\ request \in [Requests -> Frame]
    /\ seeded \in BOOLEAN

(* The reference: what the tables entitle a user to.                       *)
Entitled(u, r) ==
    \E x \in Roles, p \in PERMISSIONS :
        /\ <<u, x>> \in userRole
        /\ <<x, p>> \in rolePermission
        /\ p = r \/ (p[1] = r[1] /\ p[2] = "manage")

(* A request is admitted only if the tables entitle its user to all that   *)
(* the route requires, although they were read piece by piece while the    *)
(* seed was filling them.                                                  *)
AdmittedIsEntitled ==
    \A c \in Requests : request[c].at = "admitted" =>
        \A r \in request[c].required : Entitled(request[c].user, r)

(* Once a seed has completed, a super-admin is refused nothing that the    *)
(* seed defines, whatever other runs of the seed are doing.                *)
SuperAdminIsAdmitted ==
    \A c \in Requests :
        request[c].at = "refused" /\ request[c].full
            /\ "super-admin" \in request[c].roles
        => ~(request[c].required \subseteq PERMISSIONS)

(* A seed that completes leaves all of the tables behind, whatever failed  *)
(* or ran before it or beside it, and nothing else was granted.            *)
SeedIsComplete ==
    seeded =>
        /\ permission = PERMISSIONS /\ role = Roles
        /\ rolePermission = ({"super-admin"} \X PERMISSIONS)
                    \cup ({"admin"} \X (PERMISSIONS \cap {UsersManage}))
        /\ <<AdminEmail, "super-admin">> \in userRole

=============================================================================

-------------------------- MODULE AccessControlProofs --------------------------
(***************************************************************************)
(* Proofs about AccessControl for any table of permissions, any number of  *)
(* users, requests, routes and seeds under way.                            *)
(*                                                                         *)
(* The tables only grow, and never beyond what the seed defines: a request *)
(* that has read a part of them may therefore still rely on it, and a seed *)
(* may rely on the statements before the one it has reached, whatever the  *)
(* other seeds do.  SeedInv says what a seed has achieved where it is,     *)
(* RequestInv where a request has what it knows from.                      *)
(***************************************************************************)
EXTENDS AccessControl, TLAPS

SeedGrants == ({"super-admin"} \X PERMISSIONS)
                 \cup ({"admin"} \X (PERMISSIONS \cap {UsersManage}))

\* The statements that a seed executes, in order, from one of them on.
FromAdminRole   == {"adminRole", "done"}
FromAdminUser   == {"adminUser"} \cup FromAdminRole
FromGrants      == {"grants"} \cup FromAdminUser
FromUser        == {"user"} \cup FromGrants
FromAdmin       == {"admin"} \cup FromUser

\* A request that is under way knows its user, a registration its role.
TypeInv ==
    /\ TypeOK
    /\ \A c \in Requests :
          /\ request[c].at # "idle" => request[c].user \in Users
          /\ request[c].at = "create" => request[c].role \in Roles

Progress(s) ==
    /\ seed[s] = "permissions" => PERMISSIONS \ todo[s] \subseteq permission
    /\ seed[s] \in FromAdmin   => permission = PERMISSIONS /\ "super-admin" \in role
    /\ seed[s] \in FromUser    => "admin" \in role
    /\ seed[s] \in FromGrants  => "user" \in role
    /\ seed[s] = "grants"      =>
          {"super-admin"} \X (PERMISSIONS \ todo[s]) \subseteq rolePermission
    /\ seed[s] \in FromAdminUser => rolePermission = SeedGrants

SeedInv ==
    /\ rolePermission \subseteq SeedGrants
    /\ \A s \in Seeders : Progress(s)
    /\ SeedIsComplete

\* What a request has read comes from the tables.
HasRead(c) ==
    /\ \A r \in request[c].roles : <<request[c].user, r>> \in userRole
    /\ \A p \in request[c].permissions :
          \E r \in request[c].roles : <<r, p>> \in rolePermission
    /\ request[c].full => seeded
    /\ request[c].at \in {"deciding", "refused"} /\ request[c].full
          /\ "super-admin" \in request[c].roles
       => request[c].permissions = PERMISSIONS

\* The verdict is that of the guard on what was read.
HasDecided(c) ==
    /\ request[c].at = "admitted" =>
          CanActivate(request[c].permissions, request[c].required)
    /\ request[c].at = "refused" =>
          ~CanActivate(request[c].permissions, request[c].required)

RequestInv == \A c \in Requests : HasRead(c) /\ HasDecided(c)

IInv == TypeInv /\ SeedInv /\ RequestInv

-----------------------------------------------------------------------------
\* The frame of a free request has the type of frames.
LEMMA IdleTyped == Idle \in Frame
BY DEF Idle, Frame

\* The types hold initially.
LEMMA TypeInit == Init => TypeInv
<1> SUFFICES ASSUME Init PROVE TypeInv
  OBVIOUS
<1>1. request \in [Requests -> Frame]
  BY IdleTyped DEF Init
<1>2. seeded \in BOOLEAN
  BY DEF Init
<1>3. TypeOK
  BY <1>1, <1>2 DEF Init, TypeOK
<1> QED
  BY <1>3 DEF Init, TypeInv, Idle

\* Every step preserves the types.
LEMMA TypeStep == TypeInv /\ [Next]_vars => TypeInv'
<1> SUFFICES ASSUME TypeInv, [Next]_vars
             PROVE  TypeInv'
  OBVIOUS
<1> USE AdminIsUser
<1>1. ASSUME NEW s \in Seeders, SeedStep(s) PROVE TypeInv'
  <2>1. CASE StartSeed(s)
    BY <2>1 DEF StartSeed, Proceed, tables, TypeInv, TypeOK
  <2>2. ASSUME NEW p \in PERMISSIONS, UpsertPermission(s, p) PROVE TypeInv'
    BY <2>2 DEF UpsertPermission, TypeInv, TypeOK
  <2>3. ASSUME NEW p \in PERMISSIONS, GrantToSuperAdmin(s, p) PROVE TypeInv'
    BY <2>3 DEF GrantToSuperAdmin, TypeInv, TypeOK, Roles
  <2>4. CASE UpsertRoles(s)
    BY <2>4, ZenonT(40)
    DEF UpsertRoles, UpsertRole, Reached, Proceed, TypeInv, TypeOK, Roles
  <2>5. CASE GrantUsersManage(s)
    BY <2>5 DEF GrantUsersManage, Proceed, TypeInv, TypeOK, Roles
  <2>6. CASE UpsertAdminUser(s)
    BY <2>6 DEF UpsertAdminUser, Proceed, TypeInv, TypeOK
  <2>7. CASE UpsertAdminRole(s)
    BY <2>7 DEF UpsertAdminRole, Proceed, TypeInv, TypeOK, Roles
  <2>8. CASE FailSeed(s)
    BY <2>8 DEF FailSeed, Proceed, tables, TypeInv, TypeOK
  <2> QED
    BY <1>1, <2>1, <2>2, <2>3, <2>4, <2>5, <2>6, <2>7, <2>8 DEF SeedStep
<1>2. ASSUME NEW c \in Requests, RequestStep(c) PROVE TypeInv'
  <2>1. ASSUME NEW u \in Users, NEW r \in Roles, FindRole(c, u, r) PROVE TypeInv'
    BY <2>1 DEF FindRole, tables, TypeInv, TypeOK, Idle, Frame
  <2>2. CASE CreateUser(c)
    <3>1. request' \in [Requests -> Frame]
      BY <2>2, IdleTyped DEF CreateUser, TypeInv, TypeOK
    <3>2. user' \subseteq Users /\ userRole' \subseteq Users \X Roles /\ user \subseteq user'
      BY <2>2 DEF CreateUser, TypeInv, TypeOK
    <3> QED
      BY <2>2, <3>1, <3>2 DEF CreateUser, TypeInv, TypeOK, Idle
  <2>3. ASSUME NEW u \in Users, NEW required \in Routes, LoadRoles(c, u, required)
        PROVE  TypeInv'
    <3>1. request' \in [Requests -> Frame]
      <4>1. seeded \in BOOLEAN /\ {r \in Roles : <<u, r>> \in userRole} \in SUBSET Roles
        BY DEF TypeInv, TypeOK
      <4>2. [Idle EXCEPT !.at = "loading", !.user = u, !.required = required,
                         !.roles = {r \in Roles : <<u, r>> \in userRole},
                         !.full = seeded] \in Frame
        BY <4>1, IdleTyped DEF Frame
      <4> QED
        BY <2>3, <4>2 DEF LoadRoles, TypeInv, TypeOK
    <3> QED
      BY <2>3, <3>1 DEF LoadRoles, tables, TypeInv, TypeOK, Idle
  <2>4. CASE LoadPermissions(c)
    <3> DEFINE read == {p \in PERMISSIONS :
                           \E r \in request[c].roles : <<r, p>> \in rolePermission}
    <3>1. read \in SUBSET PERMISSIONS /\ request[c] \in Frame
      BY DEF TypeInv, TypeOK
    <3>2. request' = [request EXCEPT ![c] =
             [request[c] EXCEPT !.at = "deciding", !.permissions = read]]
      BY <2>4 DEF LoadPermissions
    <3> HIDE DEF read
    <3>3. [request[c] EXCEPT !.at = "deciding", !.permissions = read] \in Frame
      BY <3>1 DEF Frame
    <3>4. request[c].user \in Users
      BY <2>4 DEF LoadPermissions, TypeInv
    <3>5. /\ request' \in [Requests -> Frame]
          /\ \A d \in Requests \ {c} : request'[d] = request[d]
      BY <3>2, <3>3 DEF TypeInv, TypeOK
    <3>6. request'[c].user = request[c].user /\ request'[c].at = "deciding"
      BY <3>1, <3>2 DEF Frame, TypeInv, TypeOK
    <3> QED
      BY <2>4, <3>4, <3>5, <3>6 DEF LoadPermissions, tables, TypeInv, TypeOK
  <2>5. CASE Decide(c)
    BY <2>5 DEF Decide, tables, TypeInv, TypeOK, Frame
  <2>6. CASE Answer(c)
    BY <2>6 DEF Answer, tables, TypeInv, TypeOK, Idle, Frame
  <2> QED
    BY <1>2, <2>1, <2>2, <2>3, <2>4, <2>5, <2>6 DEF RequestStep
<1>3. ASSUME NEW u \in Users, MarkEmailVerified(u) PROVE TypeInv'
  BY <1>3 DEF MarkEmailVerified, TypeInv, TypeOK
<1>4. CASE UNCHANGED vars
  BY <1>4 DEF vars, tables, TypeInv, TypeOK
<1> QED
  BY <1>1, <1>2, <1>3, <1>4 DEF Next

-----------------------------------------------------------------------------
(* No step takes anything out of the tables or forgets a completed seed.   *)
Grows ==
    /\ permission \subseteq permission' /\ role \subseteq role'
    /\ rolePermission \subseteq rolePermission' /\ userRole \subseteq userRole'
    /\ seeded => seeded'

\* No step takes a row from a table.
LEMMA Growth == TypeInv /\ [Next]_vars => Grows
<1> SUFFICES ASSUME TypeInv, [Next]_vars PROVE Grows
  OBVIOUS
<1>1. ASSUME NEW s \in Seeders, SeedStep(s) PROVE Grows
  <2>1. CASE UpsertRoles(s)
    BY <2>1 DEF UpsertRoles, UpsertRole, Grows
  <2>2. CASE UpsertAdminRole(s)
    BY <2>2 DEF UpsertAdminRole, Grows
  <2>3. CASE StartSeed(s) \/ FailSeed(s) \/ GrantUsersManage(s) \/ UpsertAdminUser(s)
    BY <2>3 DEF StartSeed, FailSeed, GrantUsersManage, UpsertAdminUser, tables, Grows
  <2>4. ASSUME NEW p \in PERMISSIONS, UpsertPermission(s, p) \/ GrantToSuperAdmin(s, p)
        PROVE  Grows
    BY <2>4 DEF UpsertPermission, GrantToSuperAdmin, Grows
  <2> QED
    BY <1>1, <2>1, <2>2, <2>3, <2>4 DEF SeedStep
<1>2. ASSUME NEW c \in Requests, RequestStep(c) PROVE Grows
  <2>1. CASE CreateUser(c)
    BY <2>1 DEF CreateUser, Grows
  <2>2. CASE UNCHANGED tables /\ UNCHANGED seeded
    BY <2>2 DEF tables, Grows
  <2> QED
    BY <1>2, <2>1, <2>2 DEF RequestStep, FindRole, LoadRoles, LoadPermissions,
       Decide, Answer
<1>3. ASSUME NEW u \in Users, MarkEmailVerified(u) PROVE Grows
  BY <1>3 DEF MarkEmailVerified, Grows
<1>4. CASE UNCHANGED vars
  BY <1>4 DEF vars, tables, Grows
<1> QED
  BY <1>1, <1>2, <1>3, <1>4 DEF Next

(* A seed that does not move keeps what it has achieved.                   *)
LEMMA ProgressKept ==
    ASSUME Grows, TypeOK', rolePermission' \subseteq SeedGrants,
           NEW s \in Seeders, Progress(s), seed'[s] = seed[s], todo'[s] = todo[s]
    PROVE  Progress(s)'
BY DEF Grows, TypeOK, Progress, FromAdmin, FromUser, FromGrants, FromAdminUser,
   FromAdminRole

\* A completed seed stays complete while no other one completes.
LEMMA CompletenessKept ==
    ASSUME Grows, TypeOK', rolePermission' \subseteq SeedGrants,
           SeedIsComplete, seeded' = seeded
    PROVE  SeedIsComplete'
BY DEF Grows, TypeOK, SeedIsComplete, SeedGrants

\* No seed has run initially.
LEMMA SeedInit == Init => SeedInv
BY DEF Init, SeedInv, Progress, SeedIsComplete, SeedGrants, FromAdmin, FromUser,
   FromGrants, FromAdminUser, FromAdminRole

\* Every step preserves what the seeds have achieved.
LEMMA SeedInvStep == TypeInv /\ SeedInv /\ [Next]_vars => SeedInv'
<1> SUFFICES ASSUME TypeInv, SeedInv, [Next]_vars
             PROVE  SeedInv'
  OBVIOUS
<1>1. Grows /\ TypeInv' /\ TypeOK /\ TypeOK'
  BY Growth, TypeStep DEF TypeInv
<1> USE DEF FromAdmin, FromUser, FromGrants, FromAdminUser, FromAdminRole
<1>2. ASSUME NEW s \in Seeders, SeedStep(s) PROVE SeedInv'
  <2>1. seed[s] \in {"off", "done"} \cup {"permissions"} \cup FromAdmin
    BY <1>1 DEF TypeOK
  <2>2. \A t \in Seeders \ {s} : seed'[t] = seed[t] /\ todo'[t] = todo[t]
    BY <1>1, <1>2 DEF SeedStep, StartSeed, UpsertPermission, GrantToSuperAdmin,
       UpsertRoles, UpsertRole, GrantUsersManage, UpsertAdminUser, UpsertAdminRole,
       FailSeed, Proceed, TypeOK
  <2>3. rolePermission' \subseteq SeedGrants
    BY <1>2 DEF SeedInv, SeedGrants, SeedStep, StartSeed, UpsertPermission,
       GrantToSuperAdmin, UpsertRoles, UpsertRole, GrantUsersManage,
       UpsertAdminUser, UpsertAdminRole, FailSeed, tables
  <2>4. \A t \in Seeders \ {s} : Progress(t)'
    BY <1>1, <2>2, <2>3, ProgressKept DEF SeedInv
  <2>5. ASSUME seeded' = seeded, Progress(s)' PROVE SeedInv'
    BY <1>1, <2>3, <2>4, <2>5, CompletenessKept DEF SeedInv
  <2>6. Progress(s)
    BY DEF SeedInv
  <2>7. CASE StartSeed(s)
    BY <1>1, <2>5, <2>7 DEF StartSeed, Proceed, Progress, TypeOK
  <2>8. ASSUME NEW p \in PERMISSIONS, UpsertPermission(s, p) PROVE SeedInv'
    BY <1>1, <2>5, <2>6, <2>8 DEF UpsertPermission, Progress, TypeOK
  <2>9. ASSUME NEW p \in PERMISSIONS, GrantToSuperAdmin(s, p) PROVE SeedInv'
    BY <1>1, <2>5, <2>6, <2>9 DEF GrantToSuperAdmin, Progress, TypeOK
  <2>10. CASE UpsertRoles(s)
    BY <1>1, <2>5, <2>6, <2>10, ZenonT(40)
    DEF UpsertRoles, UpsertRole, Reached, Proceed, Progress, TypeOK
  <2>11. CASE GrantUsersManage(s)
    BY <1>1, <2>3, <2>5, <2>6, <2>11
    DEF GrantUsersManage, Reached, Proceed, Progress, TypeOK, SeedGrants
  <2>12. CASE UpsertAdminUser(s)
    BY <1>1, <2>5, <2>6, <2>12
    DEF UpsertAdminUser, Reached, Proceed, Progress, TypeOK
  <2>13. CASE UpsertAdminRole(s)
    <3>1. Progress(s)'
      BY <1>1, <2>6, <2>13 DEF UpsertAdminRole, Reached, Proceed, Progress, TypeOK
    <3>2. SeedIsComplete'
      BY <1>1, <2>6, <2>13, ZenonT(40)
      DEF UpsertAdminRole, Reached, Progress, TypeOK, Roles, SeedIsComplete, SeedGrants
    <3> QED
      BY <2>3, <2>4, <3>1, <3>2 DEF SeedInv
  <2>14. CASE FailSeed(s)
    BY <1>1, <2>5, <2>14 DEF FailSeed, Proceed, Progress, TypeOK
  <2> QED
    BY <1>2, <2>7, <2>8, <2>9, <2>10, <2>11, <2>12, <2>13, <2>14 DEF SeedStep
\* The other steps leave the seeds, the grants and the history alone.
<1>3. ASSUME UNCHANGED <<seed, todo, rolePermission, seeded>> PROVE SeedInv'
  BY <1>1, <1>3, ProgressKept, CompletenessKept DEF SeedInv
<1>4. ASSUME NEW c \in Requests, RequestStep(c) PROVE SeedInv'
  BY <1>3, <1>4 DEF RequestStep, FindRole, CreateUser, LoadRoles, LoadPermissions,
     Decide, Answer, tables
<1>5. ASSUME NEW u \in Users, MarkEmailVerified(u) PROVE SeedInv'
  BY <1>3, <1>5 DEF MarkEmailVerified
<1>6. CASE UNCHANGED vars
  BY <1>3, <1>6 DEF vars, tables
<1> QED
  BY <1>2, <1>4, <1>5, <1>6 DEF Next

-----------------------------------------------------------------------------
\* No request has read anything initially.
LEMMA RequestInit == Init => RequestInv
BY DEF Init, Idle, RequestInv, HasRead, HasDecided

(* Growing tables take nothing away from what a request has read.          *)
LEMMA RequestKept ==
    ASSUME Grows, NEW c \in Requests, HasRead(c), HasDecided(c),
           request'[c] = request[c]
    PROVE  HasRead(c)' /\ HasDecided(c)'
BY DEF Grows, HasRead, HasDecided, CanActivate, HasPermission

\* A request that has read nothing relies on nothing.
LEMMA UnreadInv ==
    ASSUME NEW c \in Requests, request'[c].roles = {}, request'[c].permissions = {},
           ~request'[c].full, request'[c].at \notin {"admitted", "refused"}
    PROVE  HasRead(c)' /\ HasDecided(c)'
BY DEF HasRead, HasDecided

\* Every step preserves what the requests have read and decided.
LEMMA RequestInvStep == IInv /\ [Next]_vars => RequestInv'
<1> SUFFICES ASSUME IInv, [Next]_vars
             PROVE  RequestInv'
  OBVIOUS
<1>1. Grows /\ TypeOK /\ TypeOK'
  BY Growth, TypeStep DEF IInv, TypeInv
<1>2. ASSUME NEW c \in Requests,
             \A d \in Requests \ {c} : request'[d] = request[d],
             HasRead(c)' /\ HasDecided(c)'
      PROVE  RequestInv'
  BY <1>1, <1>2, RequestKept DEF IInv, RequestInv
<1>3. ASSUME NEW c \in Requests, RequestStep(c) PROVE RequestInv'
  <2>1. \A d \in Requests \ {c} : request'[d] = request[d]
    BY <1>1, <1>3 DEF RequestStep, FindRole, CreateUser, LoadRoles,
       LoadPermissions, Decide, Answer, TypeOK
  <2>2. HasRead(c) /\ HasDecided(c)
    BY DEF IInv, RequestInv
  <2>3. ASSUME NEW u \in Users, NEW r \in Roles, FindRole(c, u, r)
        PROVE  HasRead(c)' /\ HasDecided(c)'
    BY <1>1, <2>3, UnreadInv DEF FindRole, Idle, TypeOK
  <2>4. CASE CreateUser(c) \/ Answer(c)
    BY <1>1, <1>2, <2>1, <2>4, UnreadInv DEF CreateUser, Answer, Idle, TypeOK
  <2>5. ASSUME NEW u \in Users, NEW required \in Routes, LoadRoles(c, u, required)
        PROVE  HasRead(c)' /\ HasDecided(c)'
    <3>1. /\ request'[c].at = "loading" /\ request'[c].user = u
          /\ request'[c].roles = {r \in Roles : <<u, r>> \in userRole}
          /\ request'[c].permissions = {}
          /\ request'[c].full = seeded
          /\ userRole' = userRole /\ seeded' = seeded
      BY <1>1, <2>5 DEF LoadRoles, Idle, TypeOK, tables
    <3> QED
      BY <3>1 DEF HasRead, HasDecided
  <2>6. CASE LoadPermissions(c)
    <3>1. /\ request[c].at = "loading" /\ request'[c].at = "deciding"
          /\ request'[c].permissions = {p \in PERMISSIONS :
                \E r \in request[c].roles : <<r, p>> \in rolePermission}
          /\ request'[c].user = request[c].user
          /\ request'[c].roles = request[c].roles
          /\ request'[c].full = request[c].full
          /\ UNCHANGED <<userRole, rolePermission, seeded>>
      <4> DEFINE read == {p \in PERMISSIONS :
                             \E r \in request[c].roles : <<r, p>> \in rolePermission}
      <4>1. /\ request[c].at = "loading"
            /\ request' = [request EXCEPT ![c] =
                  [request[c] EXCEPT !.at = "deciding", !.permissions = read]]
        BY <2>6 DEF LoadPermissions
      <4>2. UNCHANGED <<userRole, rolePermission, seeded>>
        BY <2>6 DEF LoadPermissions, tables
      <4>3. request[c] \in Frame /\ request \in [Requests -> Frame]
        BY <1>1 DEF TypeOK
      <4> HIDE DEF read
      <4>4. request'[c] = [request[c] EXCEPT !.at = "deciding", !.permissions = read]
        BY <4>1, <4>3
      <4>5. /\ request'[c].at = "deciding" /\ request'[c].permissions = read
            /\ request'[c].user = request[c].user
            /\ request'[c].roles = request[c].roles
            /\ request'[c].full = request[c].full
        BY <4>3, <4>4 DEF Frame
      <4> QED
        BY <4>1, <4>2, <4>5 DEF read
    \* With a seed completed, every grant of a super-admin is there.
    <3>2. request'[c].full /\ "super-admin" \in request'[c].roles
          => request'[c].permissions = PERMISSIONS
      <4>1. request[c].full => {"super-admin"} \X PERMISSIONS \subseteq rolePermission
        BY <2>2 DEF HasRead, IInv, SeedInv, SeedIsComplete
      <4> QED
        BY <3>1, <4>1
    <3>3. HasRead(c)' /\ HasDecided(c)'
      BY <2>2, <3>1, <3>2 DEF HasRead, HasDecided
    <3> QED
      BY <1>2, <2>1, <3>3
  <2>7. CASE Decide(c)
    <3>1. /\ request[c].at = "deciding"
          /\ request'[c].at = IF CanActivate(request[c].permissions, request[c].required)
                              THEN "admitted" ELSE "refused"
          /\ request'[c].permissions = request[c].permissions
          /\ request'[c].user = request[c].user
          /\ request'[c].roles = request[c].roles
          /\ request'[c].full = request[c].full
          /\ request'[c].required = request[c].required
          /\ UNCHANGED <<userRole, rolePermission, seeded>>
      BY <1>1, <2>7 DEF Decide, TypeOK, Frame, tables
    <3>2. HasRead(c)'
      BY <2>2, <3>1 DEF HasRead
    <3>3. HasDecided(c)'
      BY <3>1 DEF HasDecided, CanActivate, HasPermission
    <3> QED
      BY <1>2, <2>1, <3>2, <3>3
  <2> QED
    BY <1>2, <1>3, <2>1, <2>3, <2>4, <2>5, <2>6, <2>7 DEF RequestStep
<1>4. ASSUME UNCHANGED request PROVE RequestInv'
  BY <1>1, <1>4, RequestKept DEF IInv, RequestInv
<1>5. ASSUME NEW s \in Seeders, SeedStep(s) PROVE RequestInv'
  BY <1>4, <1>5 DEF SeedStep, StartSeed, UpsertPermission, GrantToSuperAdmin,
     UpsertRoles, UpsertRole, GrantUsersManage, UpsertAdminUser, UpsertAdminRole,
     FailSeed
<1>6. ASSUME NEW u \in Users, MarkEmailVerified(u) PROVE RequestInv'
  BY <1>4, <1>6 DEF MarkEmailVerified
<1>7. CASE UNCHANGED vars
  BY <1>4, <1>7 DEF vars
<1> QED
  BY <1>3, <1>5, <1>6, <1>7 DEF Next

\* The invariant holds in every reachable state.
LEMMA Invariance == Spec => []IInv
<1>1. Init => IInv
  BY TypeInit, SeedInit, RequestInit DEF IInv
<1>2. IInv /\ [Next]_vars => IInv'
  BY TypeStep, SeedInvStep, RequestInvStep DEF IInv
<1> QED
  BY <1>1, <1>2, PTL DEF Spec

-----------------------------------------------------------------------------
(* Every variable of the access control keeps its type.                    *)
THEOREM AccessControlTypeCorrect == Spec => []TypeOK
<1>1. IInv => TypeOK
  BY DEF IInv, TypeInv
<1> QED
  BY <1>1, Invariance, PTL

(* Nobody is admitted to a route without being entitled to it by the       *)
(* tables, whichever permissions exist and whatever seeds are under way.   *)
THEOREM AdmissionIsSound == Spec => []AdmittedIsEntitled
<1>1. ASSUME IInv, NEW c \in Requests, request[c].at = "admitted",
             NEW required \in request[c].required
      PROVE  Entitled(request[c].user, required)
  <2>1. PICK p \in request[c].permissions :
           p = required \/ p = <<required[1], "manage">>
    BY <1>1 DEF IInv, RequestInv, HasDecided, CanActivate, HasPermission
  <2>2. /\ request[c].permissions \subseteq PERMISSIONS
        /\ request[c].roles \subseteq Roles
    BY <1>1 DEF IInv, TypeInv, TypeOK, Frame
  <2>3. PICK r \in request[c].roles : <<r, p>> \in rolePermission
    BY <1>1 DEF IInv, RequestInv, HasRead
  <2>4. <<request[c].user, r>> \in userRole
    BY <1>1 DEF IInv, RequestInv, HasRead
  <2>5. p = required \/ (p[1] = required[1] /\ p[2] = "manage")
    BY <2>1
  <2> QED
    BY <2>2, <2>3, <2>4, <2>5 DEF Entitled
<1>2. IInv => AdmittedIsEntitled
  BY <1>1 DEF AdmittedIsEntitled
<1> QED
  BY <1>2, Invariance, PTL

(* Once a seed has completed no super-admin is refused what it defines.    *)
THEOREM SuperAdminsAreAdmitted == Spec => []SuperAdminIsAdmitted
<1>1. ASSUME IInv, NEW c \in Requests, request[c].at = "refused",
             request[c].full, "super-admin" \in request[c].roles
      PROVE  ~(request[c].required \subseteq PERMISSIONS)
  <2>1. request[c].permissions = PERMISSIONS
    BY <1>1 DEF IInv, RequestInv, HasRead
  <2>2. ~CanActivate(PERMISSIONS, request[c].required)
    BY <1>1, <2>1 DEF IInv, RequestInv, HasDecided
  <2> QED
    BY <2>2 DEF CanActivate, HasPermission
<1>2. IInv => SuperAdminIsAdmitted
  BY <1>1 DEF SuperAdminIsAdmitted
<1> QED
  BY <1>2, Invariance, PTL

(* A completed seed leaves exactly its grants, for any number of seeds.    *)
THEOREM SeedCompletes == Spec => []SeedIsComplete
<1>1. IInv => SeedIsComplete
  BY DEF IInv, SeedInv
<1> QED
  BY <1>1, Invariance, PTL

(* GET /users requires a permission that neither the table of the seed nor *)
(* a wildcard in it covers: with such a table nobody is ever admitted to   *)
(* it, super-admins included.                                              *)
THEOREM NobodyListsUsers ==
    ASSUME <<"user", "read">> \notin PERMISSIONS,
           <<"user", "manage">> \notin PERMISSIONS
    PROVE  Spec => [](\A c \in Requests :
                         request[c].at = "admitted" => request[c].required # ListUsers)
<1>1. ASSUME IInv, NEW c \in Requests, request[c].at = "admitted",
             request[c].required = ListUsers
      PROVE  FALSE
  <2>1. request[c].permissions \subseteq PERMISSIONS
    BY <1>1 DEF IInv, TypeInv, TypeOK, Frame
  <2>2. CanActivate(request[c].permissions, ListUsers)
    BY <1>1 DEF IInv, RequestInv, HasDecided
  <2> QED
    BY <2>1, <2>2 DEF CanActivate, HasPermission, ListUsers
<1>2. IInv => \A c \in Requests :
         request[c].at = "admitted" => request[c].required # ListUsers
  BY <1>1
<1> QED
  BY <1>2, Invariance, PTL

=============================================================================

---------------------------- MODULE CookieSession ----------------------------
(***************************************************************************)
(* AuthController between a browser and the token service, with and        *)
(* without COOKIE_AUTH: which tokens the browser keeps in its cookies,     *)
(* which its scripts read from answers, and which of them the controller   *)
(* and JwtStrategy take from a request.                                    *)
(*                                                                         *)
(* The table of refresh tokens is an instance of RefreshSessions, which    *)
(* TokenService implements.  Refresh tokens outlive the clock here.  A     *)
(* token t stands for the pair that issueTokens returns: the access token  *)
(* of t is valid for AccessTtl.  The tabs of one browser share its jar and *)
(* what scripts have read; answers reach it in any order, or never.  The   *)
(* clock advances in units that divide the 15 minutes of the access cookie.*)
(***************************************************************************)
EXTENDS Naturals

CONSTANTS
    Tabs,           \* requests that the browser has in flight
    Users,          \* verified users who use this browser
    Tokens,         \* the pairs that may be issued
    AccessTtl,      \* JWT_ACCESS_TTL
    AccessAge,      \* maxAge of the cookie access_token
    RefreshAge,     \* maxAge of the cookie refresh_token
    MaxTime,        \* bound on the clock
    None            \* no token, no user, never

ASSUME NoneIsNothing == None \notin Tokens \cup Users \cup Nat
ASSUME TimesAssumption == {AccessTtl, AccessAge, RefreshAge, MaxTime} \subseteq Nat

VARIABLES
    cookieAuth,     \* COOKIE_AUTH of the environment
    status, owner, parent,  \* the refresh tokens, see RefreshSessions
    issuedAt,       \* when each pair was issued
    jar,            \* the cookies, by name and path
    held,           \* the pairs that scripts have read from answers
    call,           \* the request of each tab
    now,
    left,           \* history: a logout was answered, and no login since
    lockedAt        \* history: when logout-all left a user without sessions

Sessions == INSTANCE RefreshSessions

table == <<status, owner, parent, issuedAt>>
vars  == <<cookieAuth, table, jar, held, call, now, left, lockedAt>>

RefreshPath == "/api/v1/auth/refresh"
LogoutPath  == "/api/v1/auth/logout"
Cookies == {"access_token", "refresh_token"} \X {"/", RefreshPath}

NoCookie == [token |-> None, until |-> 0]
EmptyJar == [k \in Cookies |-> NoCookie]
Idle == [at |-> "idle", op |-> "none", user |-> None, access |-> None,
         refresh |-> None, result |-> None]

Init ==
    /\ cookieAuth \in BOOLEAN
    /\ Sessions!Init
    /\ issuedAt = [t \in Tokens |-> 0]
    /\ jar = EmptyJar
    /\ held = {}
    /\ call = [c \in Tabs |-> Idle]
    /\ now = 0
    /\ left = FALSE
    /\ lockedAt = [u \in Users |-> None]

-----------------------------------------------------------------------------
(***************************************************************************)
(* What a request carries.                                                 *)
(***************************************************************************)
\* The value of req.cookies[name] in a request to url.
CookieSent(name, url) ==
    LET sent == {k \in {name} \X {"/", RefreshPath} :
                    k[2] \in {"/", url} /\ jar[k] # NoCookie}
    IN  IF sent = {} THEN None ELSE jar[CHOOSE k \in sent : TRUE].token

\* The refresh token of a request: body is None if it names no issued token.
Presented(url, body) ==
    IF cookieAuth THEN CookieSent("refresh_token", url) ELSE body

\* Extractors of JwtStrategy: the cookie hides the Authorization header.
AccessToken(bearer) ==
    LET cookie == CookieSent("access_token", LogoutPath)
    IN  IF cookie # None THEN cookie ELSE bearer

\* ignoreExpiration is false.
Valid(t) == t # None /\ now < issuedAt[t] + AccessTtl

Enters(bearer, u) ==
    /\ Valid(AccessToken(bearer))
    /\ owner[AccessToken(bearer)] = u

-----------------------------------------------------------------------------
(***************************************************************************)
(* The handlers, up to their awaits.                                       *)
(***************************************************************************)
Start(c, frame) ==
    /\ call[c] = Idle
    /\ call' = [call EXCEPT ![c] = frame]

Continue(c, at) == call' = [call EXCEPT ![c].at = at]

Login(c, u) ==
    /\ Start(c, [Idle EXCEPT !.at = "issue", !.op = "login", !.user = u])
    /\ lockedAt' = [lockedAt EXCEPT ![u] = None]
    /\ UNCHANGED <<cookieAuth, table, jar, held, now, left>>

\* Fault: a revoked token passes.
RefreshRevoked(c, body) ==
    LET t == Presented(RefreshPath, body)
    IN  /\ t # None /\ status[t] # "absent"
        /\ Start(c, [Idle EXCEPT !.at = "revoke", !.op = "refresh",
                                 !.user = owner[t], !.refresh = t])
        /\ UNCHANGED <<cookieAuth, table, jar, held, now, left, lockedAt>>

Refresh(c, body) ==
    LET t == Presented(RefreshPath, body)
    IN  /\ t # None /\ status[t] = "live"
        /\ Start(c, [Idle EXCEPT !.at = "revoke", !.op = "refresh",
                                 !.user = owner[t], !.refresh = t])
        /\ UNCHANGED <<cookieAuth, table, jar, held, now, left, lockedAt>>

\* Fault: exp is taken for iat.
IssueTokensLate(c, t) ==
    /\ call[c].at = "issue"
    /\ IF call[c].op = "login"
       THEN Sessions!Open(t, call[c].user)
       ELSE Sessions!Succeed(t, call[c].refresh)
    /\ issuedAt' = [issuedAt EXCEPT ![t] = now + AccessTtl]
    /\ call' = [call EXCEPT ![c] =
          [Idle EXCEPT !.at = "answer", !.op = call[c].op, !.result = t]]
    /\ UNCHANGED <<cookieAuth, jar, held, now, left, lockedAt>>

IssueTokens(c, t) ==
    /\ call[c].at = "issue"
    /\ IF call[c].op = "login"
       THEN Sessions!Open(t, call[c].user)
       ELSE Sessions!Succeed(t, call[c].refresh)
    /\ issuedAt' = [issuedAt EXCEPT ![t] = now]
    /\ call' = [call EXCEPT ![c] =
          [Idle EXCEPT !.at = "answer", !.op = call[c].op, !.result = t]]
    /\ UNCHANGED <<cookieAuth, jar, held, now, left, lockedAt>>

Logout(c, bearer, body) ==
    LET access == AccessToken(bearer)
        t == Presented(LogoutPath, body)
    IN  /\ Valid(access)
        /\ Start(c, [Idle EXCEPT !.at = IF t # None THEN "revoke" ELSE "answer",
                                 !.op = "logout", !.access = access,
                                 !.refresh = t])
        /\ UNCHANGED <<cookieAuth, table, jar, held, now, left, lockedAt>>

\* refreshTokens and revokeRefreshToken revoke the token of the request.
RevokeOne(c) ==
    /\ call[c].at = "revoke"
    /\ Sessions!Revoke({call[c].refresh} \cap {t \in Tokens : status[t] = "live"},
                       owner[call[c].refresh])
    /\ Continue(c, IF call[c].op = "refresh" THEN "issue" ELSE "answer")
    /\ UNCHANGED <<cookieAuth, issuedAt, jar, held, now, left, lockedAt>>

LogoutAll(c, bearer) ==
    LET access == AccessToken(bearer)
    IN  /\ Valid(access)
        /\ Start(c, [Idle EXCEPT !.at = "revokeAll", !.op = "logoutAll",
                                 !.user = owner[access]])
        /\ UNCHANGED <<cookieAuth, table, jar, held, now, left, lockedAt>>

\* A request of the user that may still issue tokens.
Issuing(c, u) == call[c].user = u /\ call[c].op \in {"login", "refresh"}
                 /\ call[c].at \in {"revoke", "issue"}

RevokeAll(c) ==
    LET u == call[c].user
    IN  /\ call[c].at = "revokeAll"
        /\ Sessions!Revoke({t \in Tokens : status[t] = "live" /\ owner[t] = u}, u)
        /\ Continue(c, "answer")
        /\ lockedAt' = IF \E d \in Tabs : Issuing(d, u) THEN lockedAt
                       ELSE [lockedAt EXCEPT ![u] = now]
        /\ UNCHANGED <<cookieAuth, issuedAt, jar, held, now, left>>

-----------------------------------------------------------------------------
(***************************************************************************)
(* The answer reaches the browser.                                         *)
(***************************************************************************)
SetCookies(t) ==
    [jar EXCEPT ![<<"access_token", "/">>] = [token |-> t, until |-> now + AccessAge],
                ![<<"refresh_token", RefreshPath>>] =
                    [token |-> t, until |-> now + RefreshAge]]

\* Fault: without its path the refresh cookie is not the one that was set.
ClearCookiesAtRoot ==
    [jar EXCEPT ![<<"access_token", "/">>] = NoCookie,
                ![<<"refresh_token", "/">>] = NoCookie]

ClearCookies ==
    [jar EXCEPT ![<<"access_token", "/">>] = NoCookie,
                ![<<"refresh_token", RefreshPath>>] = NoCookie]

AnswerLogin(c) ==
    /\ call[c].at = "answer" /\ call[c].op = "login"
    /\ IF cookieAuth
       THEN jar' = SetCookies(call[c].result) /\ UNCHANGED held
       ELSE held' = held \cup {call[c].result} /\ UNCHANGED jar
    /\ left' = FALSE
    /\ call' = [call EXCEPT ![c] = Idle]
    /\ UNCHANGED <<cookieAuth, table, now, lockedAt>>

\* Fault: the access cookie is renewed, the refresh cookie is forgotten.
AnswerRefreshHalf(c) ==
    /\ call[c].at = "answer" /\ call[c].op = "refresh"
    /\ held' = held \cup {call[c].result}
    /\ jar' = [jar EXCEPT ![<<"access_token", "/">>] =
                 [token |-> call[c].result, until |-> now + AccessAge]]
    /\ call' = [call EXCEPT ![c] = Idle]
    /\ UNCHANGED <<cookieAuth, table, now, left, lockedAt>>

\* In both modes the new pair is in the body only.
AnswerRefresh(c) ==
    /\ call[c].at = "answer" /\ call[c].op = "refresh"
    /\ held' = held \cup {call[c].result}
    /\ call' = [call EXCEPT ![c] = Idle]
    /\ UNCHANGED <<cookieAuth, table, jar, now, left, lockedAt>>

AnswerLogout(c) ==
    /\ call[c].at = "answer" /\ call[c].op = "logout"
    /\ jar' = IF cookieAuth THEN ClearCookies ELSE jar
    /\ left' = TRUE
    /\ call' = [call EXCEPT ![c] = Idle]
    /\ UNCHANGED <<cookieAuth, table, held, now, lockedAt>>

AnswerLogoutAll(c) ==
    /\ call[c].at = "answer" /\ call[c].op = "logoutAll"
    /\ call' = [call EXCEPT ![c] = Idle]
    /\ UNCHANGED <<cookieAuth, table, jar, held, now, left, lockedAt>>

(* The request fails, or its answer is lost.                               *)
Fail(c) ==
    /\ call[c] # Idle
    /\ call' = [call EXCEPT ![c] = Idle]
    /\ UNCHANGED <<cookieAuth, table, jar, held, now, left, lockedAt>>

\* The browser drops the cookies whose maxAge is over.
Tick ==
    /\ now < MaxTime
    /\ now' = now + 1
    /\ jar' = [k \in Cookies |-> IF now' < jar[k].until THEN jar[k] ELSE NoCookie]
    /\ UNCHANGED <<cookieAuth, table, held, call, left, lockedAt>>

Step(c) ==
    \/ \E u \in Users : Login(c, u)
    \/ \E body \in held \cup {None} : Refresh(c, body)
    \/ \E bearer, body \in held \cup {None} : Logout(c, bearer, body)
    \/ \E bearer \in held \cup {None} : LogoutAll(c, bearer)
    \/ \E t \in Tokens : IssueTokens(c, t)
    \/ RevokeOne(c)
    \/ RevokeAll(c)
    \/ AnswerLogin(c) \/ AnswerRefresh(c) \/ AnswerLogout(c) \/ AnswerLogoutAll(c)
    \/ Fail(c)

Next == Tick \/ \E c \in Tabs : Step(c)

Spec == Init /\ [][Next]_vars

-----------------------------------------------------------------------------
Frame == [at : {"idle", "revoke", "revokeAll", "issue", "answer"},
          op : {"none", "login", "refresh", "logout", "logoutAll"},
          user : Users \cup {None}, access : Tokens \cup {None},
          refresh : Tokens \cup {None}, result : Tokens \cup {None}]

\* Every variable has its type.
TypeOK ==
    /\ cookieAuth \in BOOLEAN
    /\ status \in [Tokens -> {"absent", "live", "revoked"}]
    /\ owner \in [Tokens -> Users \cup {None}]
    /\ parent \in [Tokens -> Tokens \cup {None}]
    /\ issuedAt \in [Tokens -> 0..MaxTime]
    /\ jar \in [Cookies -> [token : Tokens \cup {None}, until : Nat]]
    /\ held \subseteq Tokens
    /\ call \in [Tabs -> Frame]
    /\ now \in 0..MaxTime
    /\ left \in BOOLEAN
    /\ lockedAt \in [Users -> Nat \cup {None}]

(* The two cookies never come from different answers: whatever the order   *)
(* in which logins, refreshes and logouts of several tabs are answered, a  *)
(* browser that is one user with its access cookie is not another user, or *)
(* in another session, with its refresh cookie.                            *)
CookiesBelongTogether ==
    LET a == CookieSent("access_token", RefreshPath)
        r == CookieSent("refresh_token", RefreshPath)
    IN  a # None /\ r # None => a = r

(* After a logout nothing is left in the browser until somebody logs in,   *)
(* even if refreshes were in flight at the time.                           *)
LogoutForgets == cookieAuth /\ left => jar = EmptyJar

(* Once logout-all has left a user without sessions, with none under way,  *)
(* and the access tokens have run out, no request of this browser enters   *)
(* as that user before the next login, in neither mode.                    *)
LockedOut ==
    \A u \in Users :
        lockedAt[u] # None /\ now >= lockedAt[u] + AccessTtl
        => \A bearer \in held \cup {None} : ~Enters(bearer, u)

-----------------------------------------------------------------------------
(***************************************************************************)
(* Claims of the documentation that the code does not meet.                *)
(***************************************************************************)

(* POST /auth/logout: "Revoke current session".  When it is answered the   *)
(* session of the cookie it was called with is over.                       *)
LogoutRevokesSession ==
    \A c \in Tabs :
        cookieAuth /\ call[c].at = "answer" /\ call[c].op = "logout"
        => status[call[c].access] # "live"

(* POST /auth/refresh: "Rotate refresh token".  When the answer of a       *)
(* refresh has arrived (its new token is in held), the browser no longer   *)
(* sends the token that was rotated away, which the next refresh would     *)
(* refuse.                                                                 *)
CookieFollowsRotation ==
    cookieAuth => \A t \in held :
        parent[t] # None => CookieSent("refresh_token", RefreshPath) # parent[t]

=============================================================================

-------------------------- MODULE CookieSessionProofs --------------------------
(***************************************************************************)
(* Proofs about CookieSession for any number of tabs, users and tokens and *)
(* any lifetimes of the tokens and of the cookies.                         *)
(*                                                                         *)
(* The properties speak of the browser and of the table of refresh tokens; *)
(* what moves between the two are the frames of the requests.  IInv ties   *)
(* all three together: JarOK says which cookies the browser can have,      *)
(* TableOK that tokens are issued to users, FrameOK what a request holds   *)
(* at each await, RootsOK that a cookie holds a token of a login, and      *)
(* LocksOK what is left of a user whom logout-all has left locked out.     *)
(***************************************************************************)
EXTENDS CookieSession, TLAPS

AccessKey  == <<"access_token", "/">>
RefreshKey == <<"refresh_token", RefreshPath>>

Issued(t) == t \in Tokens /\ status[t] # "absent"

\* The browser has no cookies but these two, and both are of one pair.
JarOK ==
    /\ \A k \in Cookies : \/ jar[k] = NoCookie
                          \/ k \in {AccessKey, RefreshKey} /\ Issued(jar[k].token)
    /\ \/ jar[AccessKey] = NoCookie
       \/ jar[RefreshKey] = NoCookie
       \/ jar[AccessKey].token = jar[RefreshKey].token

\* Tokens are issued to users, and rotated from tokens that were issued.
TableOK ==
    \A t \in Tokens :
        /\ status[t] = "absent" => owner[t] = None /\ parent[t] = None
        /\ Issued(t) => owner[t] \in Users
        /\ parent[t] # None => Issued(parent[t])

FrameOK(c) ==
    /\ call[c].at = "issue" => call[c].op \in {"login", "refresh"}
    /\ call[c].at = "revoke" => /\ call[c].op \in {"refresh", "logout"}
                                /\ Issued(call[c].refresh)
    /\ call[c].at = "revokeAll" => call[c].op = "logoutAll" /\ call[c].user \in Users
    /\ call[c].at = "issue" /\ call[c].op = "login" => call[c].user \in Users
    /\ call[c].at \in {"revoke", "issue"} /\ call[c].op = "refresh" =>
          Issued(call[c].refresh) /\ call[c].user = owner[call[c].refresh]
    /\ call[c].at = "answer" /\ call[c].op \in {"login", "refresh"} =>
          Issued(call[c].result)

FramesOK == \A c \in Tabs : FrameOK(c)

\* What a login is about to put in a cookie, or a rotation took from one,
\* was not rotated.
RootOK(c) ==
    /\ call[c].at = "answer" /\ call[c].op = "login" =>
          parent[call[c].result] = None
    /\ cookieAuth /\ call[c].op = "refresh" /\ call[c].at \in {"revoke", "issue"} =>
          parent[call[c].refresh] = None

RootsOK ==
    /\ \A k \in Cookies : jar[k] # NoCookie => parent[jar[k].token] = None
    /\ \A c \in Tabs : RootOK(c)

\* A token obtained by rotation is never rotated itself.
RotatesOnce ==
    cookieAuth => \A t \in Tokens :
        parent[t] # None => parent[parent[t]] = None

\* A user who is locked out has no session and no request that opens one.
LocksOK ==
    \A u \in Users : lockedAt[u] # None =>
        /\ \A t \in Tokens : owner[t] = u =>
              status[t] # "live" /\ issuedAt[t] <= lockedAt[u]
        /\ \A c \in Tabs : ~Issuing(c, u)

IInv ==
    /\ TypeOK
    /\ JarOK
    /\ TableOK
    /\ \A t \in held : Issued(t)
    /\ \A t \in Tokens : issuedAt[t] <= now
    /\ FramesOK
    /\ RootsOK
    /\ LocksOK
    /\ LogoutForgets
    /\ RotatesOnce

-----------------------------------------------------------------------------
(* What a request carries.                                                 *)
LEMMA Keys == /\ AccessKey \in Cookies /\ RefreshKey \in Cookies
              /\ AccessKey # RefreshKey
BY DEF AccessKey, RefreshKey, Cookies, RefreshPath

\* If at most one cookie of a name is sent, it is the one that the server
\* reads.
LEMMA OneCookieSent ==
    ASSUME NEW name, NEW url, NEW key \in {name} \X {"/", RefreshPath},
           key[2] \in {"/", url},
           \A k \in {name} \X {"/", RefreshPath} :
              k # key /\ k[2] \in {"/", url} => jar[k] = NoCookie
    PROVE  CookieSent(name, url) =
              IF jar[key] = NoCookie THEN None ELSE jar[key].token
<1> DEFINE sent == {k \in {name} \X {"/", RefreshPath} :
                       k[2] \in {"/", url} /\ jar[k] # NoCookie}
<1>1. CASE jar[key] = NoCookie
  <2>1. sent = {}
    BY <1>1
  <2> QED
    BY <1>1, <2>1 DEF CookieSent
<1>2. CASE jar[key] # NoCookie
  <2>1. sent = {key}
    BY <1>2
  <2>2. (CHOOSE k \in {key} : TRUE) = key
    OBVIOUS
  <2>3. CookieSent(name, url) =
           IF sent = {} THEN None ELSE jar[CHOOSE k \in sent : TRUE].token
    BY DEF CookieSent
  <2> HIDE DEF sent
  <2> QED
    BY <1>2, <2>1, <2>2, <2>3
<1> QED
  BY <1>1, <1>2

\* What the server reads from the two cookies, by the path of the request.
LEMMA CookiesSent ==
    ASSUME JarOK
    PROVE  /\ \A url \in {RefreshPath, LogoutPath} :
                 CookieSent("access_token", url) =
                    IF jar[AccessKey] = NoCookie THEN None
                    ELSE jar[AccessKey].token
           /\ CookieSent("refresh_token", RefreshPath) =
                 IF jar[RefreshKey] = NoCookie THEN None
                 ELSE jar[RefreshKey].token
           /\ CookieSent("refresh_token", LogoutPath) = None
<1>1. \A k \in Cookies : k \notin {AccessKey, RefreshKey} => jar[k] = NoCookie
  BY DEF JarOK
<1>2. ASSUME NEW url \in {RefreshPath, LogoutPath}
      PROVE  CookieSent("access_token", url) =
                IF jar[AccessKey] = NoCookie THEN None ELSE jar[AccessKey].token
  <2>1. /\ AccessKey \in {"access_token"} \X {"/", RefreshPath}
        /\ AccessKey[2] \in {"/", url}
    BY DEF AccessKey
  <2>2. \A k \in {"access_token"} \X {"/", RefreshPath} :
           k # AccessKey => jar[k] = NoCookie
    BY <1>1 DEF Cookies, AccessKey, RefreshKey
  <2> QED
    BY <2>1, <2>2, OneCookieSent
<1>3. CookieSent("refresh_token", RefreshPath) =
         IF jar[RefreshKey] = NoCookie THEN None ELSE jar[RefreshKey].token
  <2>1. /\ RefreshKey \in {"refresh_token"} \X {"/", RefreshPath}
        /\ RefreshKey[2] \in {"/", RefreshPath}
    BY DEF RefreshKey
  <2>2. \A k \in {"refresh_token"} \X {"/", RefreshPath} :
           k # RefreshKey => jar[k] = NoCookie
    BY <1>1 DEF Cookies, AccessKey, RefreshKey
  <2> QED
    BY <2>1, <2>2, OneCookieSent
<1>4. CookieSent("refresh_token", LogoutPath) = None
  <2> DEFINE key == <<"refresh_token", "/">>
  <2>1. /\ key \in {"refresh_token"} \X {"/", RefreshPath}
        /\ key[2] \in {"/", LogoutPath}
    OBVIOUS
  <2>2. \A k \in {"refresh_token"} \X {"/", RefreshPath} :
           k # key /\ k[2] \in {"/", LogoutPath} => jar[k] = NoCookie
    BY DEF RefreshPath, LogoutPath
  <2>3. jar[key] = NoCookie
    BY <1>1 DEF Cookies, AccessKey, RefreshKey, RefreshPath
  <2> QED
    BY <2>1, <2>2, <2>3, OneCookieSent
<1> QED
  BY <1>2, <1>3, <1>4

\* The tokens of a request were issued; those of a cookie, by a login.
LEMMA Carried ==
    ASSUME IInv, NEW body \in held \cup {None}
    PROVE  /\ \A url \in {RefreshPath, LogoutPath} :
                 LET t == Presented(url, body)
                 IN  t # None => /\ Issued(t)
                                 /\ cookieAuth => parent[t] = None
           /\ AccessToken(body) # None => Issued(AccessToken(body))
<1>1. \A k \in {AccessKey, RefreshKey} : jar[k] # NoCookie =>
         Issued(jar[k].token) /\ parent[jar[k].token] = None
  BY Keys DEF IInv, JarOK, RootsOK
<1>2. body # None => Issued(body)
  BY DEF IInv
<1>3. JarOK
  BY DEF IInv
<1> QED
  BY <1>1, <1>2, <1>3, CookiesSent DEF Presented, AccessToken

-----------------------------------------------------------------------------
(* The invariant holds initially.                                          *)
LEMMA InvInit == Init => IInv
<1> SUFFICES ASSUME Init PROVE IInv
  OBVIOUS
<1>1. \A k \in Cookies : jar[k] = NoCookie
  BY DEF Init, EmptyJar
<1>2. \A c \in Tabs : call[c].at = "idle" /\ call[c].op = "none"
  BY DEF Init, Idle
<1>3. \A t \in Tokens : /\ status[t] = "absent" /\ owner[t] = None
                        /\ parent[t] = None /\ issuedAt[t] = 0
  BY DEF Init, Sessions!Init
<1>4. TypeOK
  <2>1. NoCookie \in [token : Tokens \cup {None}, until : Nat]
    BY DEF NoCookie
  <2>2. jar \in [Cookies -> [token : Tokens \cup {None}, until : Nat]]
    BY <2>1 DEF Init, EmptyJar
  <2>3. Idle \in Frame
    BY DEF Idle, Frame
  <2>4. MaxTime \in Nat
    BY TimesAssumption
  <2>5. call \in [Tabs -> Frame]
    BY <2>3 DEF Init
  <2>6. issuedAt \in [Tokens -> 0..MaxTime] /\ now \in 0..MaxTime
    BY <2>4 DEF Init
  <2>7. /\ status \in [Tokens -> {"absent", "live", "revoked"}]
        /\ owner \in [Tokens -> Users \cup {None}]
        /\ parent \in [Tokens -> Tokens \cup {None}]
    BY DEF Init, Sessions!Init
  <2>8. /\ cookieAuth \in BOOLEAN /\ held \subseteq Tokens /\ left \in BOOLEAN
        /\ lockedAt \in [Users -> Nat \cup {None}]
    BY DEF Init
  <2> QED
    BY <2>2, <2>5, <2>6, <2>7, <2>8 DEF TypeOK
<1>5. JarOK
  BY <1>1, Keys DEF JarOK
<1>6. TableOK
  BY <1>3 DEF TableOK, Issued
<1>7. FramesOK
  BY <1>2 DEF FramesOK, FrameOK
<1>8. RootsOK
  BY <1>1, <1>2 DEF RootsOK, RootOK
<1>9. LocksOK
  BY DEF Init, LocksOK
<1>10. LogoutForgets /\ RotatesOnce
  BY <1>3 DEF Init, LogoutForgets, RotatesOnce
<1> QED
  BY <1>3, <1>4, <1>5, <1>6, <1>7, <1>8, <1>9, <1>10 DEF IInv, Init

-----------------------------------------------------------------------------
(* Steps of a request that touch neither the table nor the browser.        *)
LEMMA CallStep ==
    ASSUME IInv, TypeOK', NEW c \in Tabs,
           UNCHANGED <<cookieAuth, table, jar, held, now, left>>,
           \A d \in Tabs \ {c} : call'[d] = call[d],
           FrameOK(c)', RootOK(c)',
           \A u \in Users : lockedAt'[u] # None =>
              lockedAt'[u] = lockedAt[u] /\ ~Issuing(c, u)'
    PROVE  IInv'
<1> USE DEF table
<1>1. JarOK'
  BY DEF IInv, JarOK, Issued
<1>2. TableOK'
  BY DEF IInv, TableOK, Issued
<1>3. /\ (\A t \in held : Issued(t))'
      /\ (\A t \in Tokens : issuedAt[t] <= now)'
  BY DEF IInv, Issued
<1>4. FramesOK'
  BY DEF IInv, FramesOK, FrameOK, Issued
<1>5. RootsOK'
  BY DEF IInv, RootsOK, RootOK
<1>6. LocksOK'
  BY DEF IInv, LocksOK, Issuing
<1>7. LogoutForgets' /\ RotatesOnce'
  BY DEF IInv, LogoutForgets, RotatesOnce
<1> QED
  BY <1>1, <1>2, <1>3, <1>4, <1>5, <1>6, <1>7 DEF IInv

\* A request that starts gets the frame of its operation.
LEMMA Started ==
    ASSUME TypeOK, NEW c \in Tabs, NEW frame \in Frame, Start(c, frame)
    PROVE  /\ call' \in [Tabs -> Frame]
           /\ call'[c] = frame
           /\ \A d \in Tabs \ {c} : call'[d] = call[d]
BY DEF TypeOK, Start

LEMMA LoginStep ==
    ASSUME IInv, NEW c \in Tabs, NEW u \in Users, Login(c, u)
    PROVE  IInv'
<1> DEFINE frame == [Idle EXCEPT !.at = "issue", !.op = "login", !.user = u]
<1>1. frame \in Frame
  BY DEF Idle, Frame
<1>2. frame.at = "issue" /\ frame.op = "login" /\ frame.user = u
  BY DEF Idle
<1>3. TypeOK /\ Start(c, frame)
  BY DEF IInv, Login
<1> HIDE DEF frame
<1>4. /\ call' \in [Tabs -> Frame]
      /\ call'[c] = frame
      /\ \A d \in Tabs \ {c} : call'[d] = call[d]
  BY <1>1, <1>3, Started
<1>5. TypeOK'
  BY <1>3, <1>4 DEF Login, table, TypeOK
<1>6. FrameOK(c)' /\ RootOK(c)'
  BY <1>2, <1>4 DEF FrameOK, RootOK
<1>7. ASSUME NEW v \in Users, lockedAt'[v] # None
      PROVE  lockedAt'[v] = lockedAt[v] /\ ~Issuing(c, v)'
  BY <1>2, <1>3, <1>4, <1>7 DEF Login, TypeOK, Issuing
<1> QED
  BY <1>4, <1>5, <1>6, <1>7, CallStep DEF Login

LEMMA RefreshStep ==
    ASSUME IInv, NEW c \in Tabs, NEW body \in held \cup {None}, Refresh(c, body)
    PROVE  IInv'
<1> DEFINE t == Presented(RefreshPath, body)
           frame == [Idle EXCEPT !.at = "revoke", !.op = "refresh",
                                 !.user = owner[t], !.refresh = t]
<1>1. /\ t # None /\ status[t] = "live"
      /\ Start(c, frame)
      /\ UNCHANGED <<cookieAuth, table, jar, held, now, left, lockedAt>>
  BY DEF Refresh
<1>2. Issued(t) /\ (cookieAuth => parent[t] = None)
  BY <1>1, Carried
<1> HIDE DEF t
<1>3. TypeOK /\ TableOK /\ LocksOK
  BY DEF IInv
<1>4. t \in Tokens /\ owner[t] \in Users
  BY <1>2, <1>3 DEF TableOK, Issued
<1>5. frame \in Frame
  BY <1>4 DEF Idle, Frame
<1>6. /\ frame.at = "revoke" /\ frame.op = "refresh"
      /\ frame.user = owner[t] /\ frame.refresh = t
  BY DEF Idle
<1> HIDE DEF frame
<1>7. /\ call' \in [Tabs -> Frame]
      /\ call'[c] = frame
      /\ \A d \in Tabs \ {c} : call'[d] = call[d]
  BY <1>1, <1>3, <1>5, Started
<1>8. TypeOK'
  BY <1>1, <1>3, <1>7 DEF table, TypeOK
<1>9. FrameOK(c)' /\ RootOK(c)'
  BY <1>1, <1>2, <1>6, <1>7 DEF FrameOK, RootOK, Issued, table
<1>10. ASSUME NEW v \in Users, lockedAt'[v] # None
       PROVE  lockedAt'[v] = lockedAt[v] /\ ~Issuing(c, v)'
  <2>1. lockedAt'[v] = lockedAt[v]
    BY <1>1
  <2>2. owner[t] # v
    BY <1>1, <1>3, <1>4, <1>10, <2>1 DEF LocksOK
  <2> QED
    BY <1>6, <1>7, <2>1, <2>2 DEF Issuing
<1> QED
  BY <1>1, <1>7, <1>8, <1>9, <1>10, CallStep

LEMMA LogoutStep ==
    ASSUME IInv, NEW c \in Tabs, NEW bearer \in held \cup {None},
           NEW body \in held \cup {None}, Logout(c, bearer, body)
    PROVE  IInv'
<1> DEFINE access == AccessToken(bearer)
           t == Presented(LogoutPath, body)
           frame == [Idle EXCEPT !.at = IF t # None THEN "revoke" ELSE "answer",
                                 !.op = "logout", !.access = access,
                                 !.refresh = t]
<1>1. /\ Valid(access)
      /\ Start(c, frame)
      /\ UNCHANGED <<cookieAuth, table, jar, held, now, left, lockedAt>>
  BY DEF Logout
<1>2. (t # None => Issued(t)) /\ Issued(access)
  BY <1>1, Carried DEF Valid
<1>3. TypeOK
  BY DEF IInv
<1>4. t \in Tokens \cup {None} /\ access \in Tokens
  BY <1>2 DEF Issued
<1> HIDE DEF t, access
<1>5. frame \in Frame
  BY <1>4 DEF Idle, Frame
<1>6. /\ frame.at = IF t # None THEN "revoke" ELSE "answer"
      /\ frame.op = "logout" /\ frame.refresh = t
  BY DEF Idle
<1> HIDE DEF frame
<1>7. /\ call' \in [Tabs -> Frame]
      /\ call'[c] = frame
      /\ \A d \in Tabs \ {c} : call'[d] = call[d]
  BY <1>1, <1>3, <1>5, Started
<1>8. TypeOK'
  BY <1>1, <1>3, <1>7 DEF table, TypeOK
<1>9. FrameOK(c)' /\ RootOK(c)'
  BY <1>1, <1>2, <1>6, <1>7 DEF FrameOK, RootOK, Issued, table
<1>10. \A v \in Users : lockedAt'[v] = lockedAt[v] /\ ~Issuing(c, v)'
  BY <1>1, <1>6, <1>7 DEF Issuing
<1> QED
  BY <1>1, <1>7, <1>8, <1>9, <1>10, CallStep

LEMMA LogoutAllStep ==
    ASSUME IInv, NEW c \in Tabs, NEW bearer \in held \cup {None},
           LogoutAll(c, bearer)
    PROVE  IInv'
<1> DEFINE access == AccessToken(bearer)
           frame == [Idle EXCEPT !.at = "revokeAll", !.op = "logoutAll",
                                 !.user = owner[access]]
<1>1. /\ Valid(access)
      /\ Start(c, frame)
      /\ UNCHANGED <<cookieAuth, table, jar, held, now, left, lockedAt>>
  BY DEF LogoutAll
<1>2. TypeOK /\ TableOK
  BY DEF IInv
<1>3. owner[access] \in Users
  BY <1>1, <1>2, Carried DEF Valid, TableOK, Issued
<1> HIDE DEF access
<1>4. frame \in Frame
  BY <1>3 DEF Idle, Frame
<1>5. /\ frame.at = "revokeAll" /\ frame.op = "logoutAll"
      /\ frame.user = owner[access]
  BY DEF Idle
<1> HIDE DEF frame
<1>6. /\ call' \in [Tabs -> Frame]
      /\ call'[c] = frame
      /\ \A d \in Tabs \ {c} : call'[d] = call[d]
  BY <1>1, <1>2, <1>4, Started
<1>7. TypeOK'
  BY <1>1, <1>2, <1>6 DEF table, TypeOK
<1>8. FrameOK(c)' /\ RootOK(c)'
  BY <1>1, <1>3, <1>5, <1>6 DEF FrameOK, RootOK, table
<1>9. \A v \in Users : lockedAt'[v] = lockedAt[v] /\ ~Issuing(c, v)'
  BY <1>1, <1>5, <1>6 DEF Issuing
<1> QED
  BY <1>1, <1>6, <1>7, <1>8, <1>9, CallStep

\* A request that ends leaves its frame idle.
LEMMA Ended ==
    ASSUME TypeOK, NEW c \in Tabs, call' = [call EXCEPT ![c] = Idle]
    PROVE  /\ call' \in [Tabs -> Frame]
           /\ call'[c].at = "idle" /\ call'[c].op = "none"
           /\ \A d \in Tabs \ {c} : call'[d] = call[d]
           /\ FrameOK(c)' /\ RootOK(c)'
           /\ \A v \in Users : ~Issuing(c, v)'
<1>1. Idle \in Frame
  BY DEF Idle, Frame
<1>2. /\ call' \in [Tabs -> Frame]
      /\ call'[c] = Idle
      /\ \A d \in Tabs \ {c} : call'[d] = call[d]
  BY <1>1 DEF TypeOK
<1>3. call'[c].at = "idle" /\ call'[c].op = "none"
  BY <1>2 DEF Idle
<1> QED
  BY <1>2, <1>3 DEF FrameOK, RootOK, Issuing

\* A request that ends without touching the browser.
LEMMA QuietEnd ==
    ASSUME IInv, NEW c \in Tabs, AnswerLogoutAll(c) \/ Fail(c)
    PROVE  IInv'
<1>1. /\ call' = [call EXCEPT ![c] = Idle]
      /\ UNCHANGED <<cookieAuth, table, jar, held, now, left, lockedAt>>
  BY DEF AnswerLogoutAll, Fail
<1>2. TypeOK
  BY DEF IInv
<1>3. TypeOK'
  BY <1>1, <1>2, Ended DEF table, TypeOK
<1> QED
  BY <1>1, <1>2, <1>3, Ended, CallStep

-----------------------------------------------------------------------------
(* Steps that reach the browser: the table stays as it is.                 *)
LEMMA BrowserStep ==
    ASSUME IInv, TypeOK',
           UNCHANGED <<cookieAuth, table, lockedAt>>,
           \A c \in Tabs : \/ call'[c] = call[c]
                           \/ /\ FrameOK(c)' /\ RootOK(c)'
                              /\ \A v \in Users : ~Issuing(c, v)',
           \A t \in held' : Issued(t),
           now <= now',
           JarOK', LogoutForgets',
           \A k \in Cookies : jar'[k] # NoCookie => parent[jar'[k].token] = None
    PROVE  IInv'
<1> USE DEF table
<1>1. TableOK'
  BY DEF IInv, TableOK, Issued
<1>2. (\A t \in held : Issued(t))'
  BY DEF Issued
<1>3. (\A t \in Tokens : issuedAt[t] <= now)'
  BY DEF IInv, TypeOK
<1>4. FramesOK'
  BY DEF IInv, FramesOK, FrameOK, Issued
<1>5. RootsOK'
  BY DEF IInv, RootsOK, RootOK
<1>6. LocksOK'
  BY DEF IInv, LocksOK, Issuing
<1>7. RotatesOnce'
  BY DEF IInv, RotatesOnce
<1> QED
  BY <1>1, <1>2, <1>3, <1>4, <1>5, <1>6, <1>7 DEF IInv

LEMMA AnswerLoginStep ==
    ASSUME IInv, NEW c \in Tabs, AnswerLogin(c)
    PROVE  IInv'
<1> DEFINE t == call[c].result
<1>1. /\ call[c].at = "answer" /\ call[c].op = "login"
      /\ call' = [call EXCEPT ![c] = Idle]
      /\ left' = FALSE
      /\ UNCHANGED <<cookieAuth, table, now, lockedAt>>
      /\ IF cookieAuth THEN jar' = SetCookies(t) /\ UNCHANGED held
                       ELSE held' = held \cup {t} /\ UNCHANGED jar
  BY DEF AnswerLogin
<1>2. /\ TypeOK /\ JarOK /\ FramesOK /\ RootsOK
      /\ \A s \in held : Issued(s)
  BY DEF IInv
<1>3. Issued(t) /\ parent[t] = None
  BY <1>1, <1>2 DEF FramesOK, FrameOK, RootsOK, RootOK
<1>4. t \in Tokens
  BY <1>3 DEF Issued
<1> HIDE DEF t
<1>5. CASE cookieAuth
  <2> DEFINE a == [token |-> t, until |-> now + AccessAge]
             r == [token |-> t, until |-> now + RefreshAge]
  <2>1. jar' = [jar EXCEPT ![AccessKey] = a, ![RefreshKey] = r]
    BY <1>1, <1>5 DEF SetCookies, AccessKey, RefreshKey
  <2>2. a.token = t /\ r.token = t
    OBVIOUS
  <2>3. now + AccessAge \in Nat /\ now + RefreshAge \in Nat
    BY <1>2, TimesAssumption DEF TypeOK
  <2>4. /\ a \in [token : Tokens \cup {None}, until : Nat]
        /\ r \in [token : Tokens \cup {None}, until : Nat]
    BY <1>4, <2>3
  <2> HIDE DEF a, r
  <2>5. jar' \in [Cookies -> [token : Tokens \cup {None}, until : Nat]]
    BY <1>2, <2>1, <2>4 DEF TypeOK
  <2>6. /\ jar'[AccessKey] = a /\ jar'[RefreshKey] = r
        /\ \A k \in Cookies \ {AccessKey, RefreshKey} : jar'[k] = jar[k]
    BY <1>2, <2>1, Keys DEF TypeOK
  <2>7. TypeOK'
    BY <1>1, <1>2, <1>5, <2>5, Ended DEF table, TypeOK
  <2>8. JarOK'
    BY <1>1, <1>2, <1>3, <2>2, <2>6, Keys DEF JarOK, Issued, table
  <2>9. \A k \in Cookies : jar'[k] # NoCookie => parent[jar'[k].token] = None
    BY <1>2, <1>3, <2>2, <2>6, Keys DEF RootsOK
  <2>10. LogoutForgets'
    BY <1>1 DEF LogoutForgets
  <2>11. \A s \in held' : Issued(s)
    BY <1>1, <1>2, <1>5
  <2>12. now <= now'
    BY <1>1, <1>2 DEF TypeOK
  <2> QED
    BY <1>1, <1>2, <2>7, <2>8, <2>9, <2>10, <2>11, <2>12, Ended, BrowserStep
<1>6. CASE ~cookieAuth
  <2>1. UNCHANGED <<cookieAuth, table, jar, now, lockedAt>> /\ held' = held \cup {t}
    BY <1>1, <1>6
  <2>2. TypeOK'
    BY <1>1, <1>2, <1>4, <2>1, Ended DEF table, TypeOK
  <2>3. JarOK'
    BY <1>2, <2>1 DEF JarOK, Issued, table
  <2>4. LogoutForgets'
    BY <1>1 DEF LogoutForgets
  <2>5. \A s \in held' : Issued(s)
    BY <1>2, <1>3, <2>1
  <2>6. now <= now'
    BY <1>1, <1>2 DEF TypeOK
  <2>7. \A k \in Cookies : jar'[k] # NoCookie => parent[jar'[k].token] = None
    BY <1>2, <2>1 DEF RootsOK
  <2> QED
    BY <1>1, <1>2, <2>2, <2>3, <2>4, <2>5, <2>6, <2>7, Ended, BrowserStep
<1> QED
  BY <1>5, <1>6

LEMMA AnswerRefreshStep ==
    ASSUME IInv, NEW c \in Tabs, AnswerRefresh(c)
    PROVE  IInv'
<1> DEFINE t == call[c].result
<1>1. /\ call[c].at = "answer" /\ call[c].op = "refresh"
      /\ held' = held \cup {t}
      /\ call' = [call EXCEPT ![c] = Idle]
      /\ UNCHANGED <<cookieAuth, table, jar, now, left, lockedAt>>
  BY DEF AnswerRefresh
<1>2. /\ TypeOK /\ JarOK /\ FramesOK /\ RootsOK /\ LogoutForgets
      /\ \A s \in held : Issued(s)
  BY DEF IInv
<1>3. Issued(t)
  BY <1>1, <1>2 DEF FramesOK, FrameOK
<1>4. t \in Tokens
  BY <1>3 DEF Issued
<1> HIDE DEF t
<1>5. TypeOK'
  BY <1>1, <1>2, <1>4, Ended DEF table, TypeOK
<1>6. JarOK' /\ LogoutForgets'
  BY <1>1, <1>2 DEF JarOK, Issued, LogoutForgets, table
<1>7. \A s \in held' : Issued(s)
  BY <1>1, <1>2, <1>3
<1>8. now <= now'
  BY <1>1, <1>2 DEF TypeOK
<1>9. \A k \in Cookies : jar'[k] # NoCookie => parent[jar'[k].token] = None
  BY <1>1, <1>2 DEF RootsOK
<1> QED
  BY <1>1, <1>2, <1>5, <1>6, <1>7, <1>8, <1>9, Ended, BrowserStep

\* Clearing the two cookies leaves the jar empty: there are no others.
LEMMA Cleared ==
    ASSUME TypeOK, JarOK
    PROVE  ClearCookies = EmptyJar
<1>1. /\ ClearCookies \in [Cookies -> [token : Tokens \cup {None}, until : Nat]]
      /\ \A k \in Cookies : ClearCookies[k] = NoCookie
  BY Keys DEF TypeOK, JarOK, ClearCookies, AccessKey, RefreshKey, NoCookie
<1> QED
  BY <1>1 DEF EmptyJar

LEMMA AnswerLogoutStep ==
    ASSUME IInv, NEW c \in Tabs, AnswerLogout(c)
    PROVE  IInv'
<1>1. /\ jar' = IF cookieAuth THEN ClearCookies ELSE jar
      /\ left' = TRUE
      /\ call' = [call EXCEPT ![c] = Idle]
      /\ UNCHANGED <<cookieAuth, table, held, now, lockedAt>>
  BY DEF AnswerLogout
<1>2. /\ TypeOK /\ JarOK /\ RootsOK
      /\ \A s \in held : Issued(s)
  BY DEF IInv
<1>3. jar' = IF cookieAuth THEN EmptyJar ELSE jar
  BY <1>1, <1>2, Cleared
<1>4. /\ jar' \in [Cookies -> [token : Tokens \cup {None}, until : Nat]]
      /\ \A k \in Cookies : jar'[k] \in {jar[k], NoCookie}
  BY <1>2, <1>3 DEF TypeOK, EmptyJar, NoCookie
<1>5. TypeOK'
  BY <1>1, <1>2, <1>4, Ended DEF table, TypeOK
<1>6. JarOK'
  BY <1>1, <1>2, <1>4, Keys DEF JarOK, Issued, table
<1>7. LogoutForgets'
  BY <1>1, <1>3 DEF LogoutForgets, EmptyJar, NoCookie
<1>8. \A s \in held' : Issued(s)
  BY <1>1, <1>2
<1>9. now <= now'
  BY <1>1, <1>2 DEF TypeOK
<1>10. \A k \in Cookies : jar'[k] # NoCookie => parent[jar'[k].token] = None
  BY <1>2, <1>4 DEF RootsOK
<1> QED
  BY <1>1, <1>2, <1>5, <1>6, <1>7, <1>8, <1>9, <1>10, Ended, BrowserStep

\* Time passes, and cookies expire.
LEMMA TickStep ==
    ASSUME IInv, Tick
    PROVE  IInv'
<1>1. /\ now < MaxTime /\ now' = now + 1
      /\ jar' = [k \in Cookies |-> IF now' < jar[k].until THEN jar[k] ELSE NoCookie]
      /\ UNCHANGED <<cookieAuth, table, held, call, left, lockedAt>>
  BY DEF Tick
<1>2. /\ TypeOK /\ JarOK /\ RootsOK /\ LogoutForgets
      /\ \A s \in held : Issued(s)
  BY DEF IInv
<1>3. /\ jar' \in [Cookies -> [token : Tokens \cup {None}, until : Nat]]
      /\ \A k \in Cookies : jar'[k] \in {jar[k], NoCookie}
  BY <1>1, <1>2 DEF TypeOK, NoCookie
<1>4. now' \in 0..MaxTime /\ now <= now'
  BY <1>1, <1>2, TimesAssumption DEF TypeOK
<1>5. TypeOK'
  BY <1>1, <1>2, <1>3, <1>4 DEF table, TypeOK
<1>6. JarOK'
  BY <1>1, <1>2, <1>3, Keys DEF JarOK, Issued, table
<1>7. LogoutForgets'
  <2>1. ASSUME cookieAuth, left PROVE jar' = EmptyJar
    <3>1. \A k \in Cookies : jar[k] = NoCookie
      BY <1>2, <2>1 DEF LogoutForgets, EmptyJar
    <3>2. \A k \in Cookies : jar'[k] = NoCookie
      BY <1>3, <3>1
    <3> QED
      BY <1>3, <3>2 DEF EmptyJar
  <2>2. EmptyJar' = EmptyJar
    BY DEF EmptyJar, NoCookie
  <2> QED
    BY <1>1, <2>1, <2>2 DEF LogoutForgets
<1>8. \A s \in held' : Issued(s)
  BY <1>1, <1>2
<1>9. \A k \in Cookies : jar'[k] # NoCookie => parent[jar'[k].token] = None
  BY <1>2, <1>3 DEF RootsOK
<1> QED
  BY <1>1, <1>4, <1>5, <1>6, <1>7, <1>8, <1>9, BrowserStep

-----------------------------------------------------------------------------
(* Steps that reach the table of refresh tokens.                           *)
LEMMA IssueTokensStep ==
    ASSUME IInv, NEW c \in Tabs, NEW t \in Tokens, IssueTokens(c, t)
    PROVE  IInv'
<1> DEFINE op == call[c].op
           u == call[c].user
           p == call[c].refresh
           frame == [Idle EXCEPT !.at = "answer", !.op = op, !.result = t]
<1>1. /\ call[c].at = "issue"
      /\ status[t] = "absent" /\ status' = [status EXCEPT ![t] = "live"]
      /\ issuedAt' = [issuedAt EXCEPT ![t] = now]
      /\ call' = [call EXCEPT ![c] = frame]
      /\ UNCHANGED <<cookieAuth, jar, held, now, left, lockedAt>>
  BY DEF IssueTokens, Sessions!Open, Sessions!Succeed
<1>2. /\ TypeOK /\ JarOK /\ TableOK /\ FramesOK /\ RootsOK /\ LocksOK
      /\ LogoutForgets /\ RotatesOnce
      /\ \A s \in held : Issued(s)
      /\ \A s \in Tokens : issuedAt[s] <= now
  BY DEF IInv
<1>3. \/ /\ op = "login" /\ u \in Users
         /\ owner' = [owner EXCEPT ![t] = u] /\ parent' = parent
      \/ /\ op = "refresh" /\ Issued(p) /\ u = owner[p]
         /\ cookieAuth => parent[p] = None
         /\ owner' = [owner EXCEPT ![t] = u]
         /\ parent' = [parent EXCEPT ![t] = p]
  <2>1. CASE op = "login"
    BY <1>1, <1>2, <2>1 DEF IssueTokens, Sessions!Open, FramesOK, FrameOK
  <2>2. CASE op = "refresh"
    <3>1. Sessions!Succeed(t, p)
      BY <2>2 DEF IssueTokens
    <3>2. Issued(p) /\ u = owner[p]
      BY <1>1, <1>2, <2>2 DEF FramesOK, FrameOK
    <3>3. cookieAuth => parent[p] = None
      BY <1>1, <1>2, <2>2 DEF RootsOK, RootOK
    <3> QED
      BY <2>2, <3>1, <3>2, <3>3 DEF Sessions!Succeed
  <2> QED
    BY <1>1, <1>2, <2>1, <2>2 DEF FramesOK, FrameOK
<1>4. u \in Users /\ op \in {"login", "refresh"} /\ Issuing(c, u)
  BY <1>1, <1>2, <1>3 DEF TableOK, Issued, Issuing
<1>5. lockedAt[u] = None
  BY <1>2, <1>4 DEF LocksOK
<1>6. frame \in Frame
  BY <1>4 DEF Idle, Frame
<1>7. frame.at = "answer" /\ frame.op = op /\ frame.result = t
  BY DEF Idle
<1> HIDE DEF frame, op, u, p
\* What the step leaves as it was.
<1>8. /\ call' \in [Tabs -> Frame]
      /\ call'[c] = frame
      /\ \A d \in Tabs \ {c} : call'[d] = call[d]
  BY <1>1, <1>2, <1>6 DEF TypeOK
<1>9. ASSUME NEW s, Issued(s)
      PROVE  /\ s # t /\ Issued(s)' /\ status'[s] = status[s]
             /\ owner'[s] = owner[s] /\ parent'[s] = parent[s]
  BY <1>1, <1>2, <1>3, <1>9 DEF Issued, TypeOK
<1>10. \A s \in Tokens \ {t} :
          /\ status'[s] = status[s] /\ owner'[s] = owner[s]
          /\ parent'[s] = parent[s] /\ issuedAt'[s] = issuedAt[s]
  BY <1>1, <1>2, <1>3 DEF TypeOK
<1>11. /\ Issued(t)' /\ owner'[t] = u /\ issuedAt'[t] = now
       /\ \/ op = "login" /\ parent'[t] = None
          \/ /\ op = "refresh" /\ parent'[t] = p /\ Issued(p)
             /\ cookieAuth => parent[p] = None
  BY <1>1, <1>2, <1>3 DEF Issued, TypeOK, TableOK
<1>12. TypeOK'
  <2>1. /\ status' \in [Tokens -> {"absent", "live", "revoked"}]
        /\ owner' \in [Tokens -> Users \cup {None}]
        /\ issuedAt' \in [Tokens -> 0..MaxTime]
    BY <1>1, <1>2, <1>3, <1>4 DEF TypeOK
  <2>2. parent' \in [Tokens -> Tokens \cup {None}]
    BY <1>2, <1>3 DEF TypeOK, Issued
  <2> QED
    BY <1>1, <1>2, <1>8, <2>1, <2>2 DEF TypeOK
<1>13. JarOK'
  BY <1>1, <1>2, <1>9 DEF JarOK
<1>14. TableOK'
  <2>1. ASSUME NEW s \in Tokens
        PROVE  (/\ status[s] = "absent" => owner[s] = None /\ parent[s] = None
                /\ Issued(s) => owner[s] \in Users
                /\ parent[s] # None => Issued(parent[s]))'
    <3>1. CASE s = t
      BY <1>4, <1>9, <1>11, <3>1 DEF Issued
    <3>2. CASE s # t
      <4>1. /\ status'[s] = status[s] /\ owner'[s] = owner[s]
            /\ parent'[s] = parent[s] /\ (Issued(s)' <=> Issued(s))
        BY <1>10, <3>2 DEF Issued
      <4> QED
        BY <1>2, <1>9, <4>1 DEF TableOK
    <3> QED
      BY <3>1, <3>2
  <2> QED
    BY <2>1 DEF TableOK
<1>15. /\ (\A s \in held : Issued(s))'
       /\ (\A s \in Tokens : issuedAt[s] <= now)'
  <2>1. now \in Nat
    BY <1>2, TimesAssumption DEF TypeOK
  <2> QED
    BY <1>1, <1>2, <1>9, <1>10, <1>11, <2>1
<1>16. FramesOK'
  <2>1. FrameOK(c)'
    BY <1>7, <1>8, <1>11 DEF FrameOK
  <2>2. ASSUME NEW d \in Tabs \ {c} PROVE FrameOK(d)'
    BY <1>2, <1>8, <1>9 DEF FramesOK, FrameOK
  <2> QED
    BY <2>1, <2>2 DEF FramesOK
<1>17. RootsOK'
  <2>1. (\A k \in Cookies : jar[k] # NoCookie => parent[jar[k].token] = None)'
    BY <1>1, <1>2, <1>9 DEF JarOK, RootsOK
  <2>2. RootOK(c)'
    BY <1>7, <1>8, <1>11 DEF RootOK
  <2>3. ASSUME NEW d \in Tabs \ {c} PROVE RootOK(d)'
    BY <1>1, <1>2, <1>8, <1>9 DEF FramesOK, FrameOK, RootsOK, RootOK
  <2> QED
    BY <2>1, <2>2, <2>3 DEF RootsOK
<1>18. LocksOK'
  <2>1. ASSUME NEW v \in Users, lockedAt'[v] # None
        PROVE  /\ \A s \in Tokens : owner'[s] = v =>
                     status'[s] # "live" /\ issuedAt'[s] <= lockedAt'[v]
               /\ \A d \in Tabs : ~Issuing(d, v)'
    <3>1. v # u /\ lockedAt'[v] = lockedAt[v]
      BY <1>1, <1>5, <2>1
    <3>2. ~Issuing(c, v)'
      BY <1>7, <1>8 DEF Issuing
    <3>3. \A d \in Tabs \ {c} : ~Issuing(d, v)'
      BY <1>2, <1>8, <2>1, <3>1 DEF LocksOK, Issuing
    <3> QED
      BY <1>2, <1>10, <1>11, <2>1, <3>1, <3>2, <3>3 DEF LocksOK
  <2> QED
    BY <2>1 DEF LocksOK
<1>19. LogoutForgets'
  BY <1>1, <1>2 DEF LogoutForgets, EmptyJar, NoCookie
<1>20. RotatesOnce'
  <2>1. ASSUME cookieAuth, NEW s \in Tokens, parent'[s] # None
        PROVE  parent'[parent'[s]] = None
    <3>1. CASE s = t
      BY <1>9, <1>11, <2>1, <3>1
    <3>2. CASE s # t
      <4>1. parent'[s] = parent[s] /\ Issued(parent[s])
        BY <1>2, <1>10, <2>1, <3>2 DEF TableOK
      <4> QED
        BY <1>2, <1>9, <2>1, <4>1 DEF RotatesOnce
    <3> QED
      BY <3>1, <3>2
  <2> QED
    BY <1>1, <2>1 DEF RotatesOnce
<1> QED
  BY <1>12, <1>13, <1>14, <1>15, <1>16, <1>17, <1>18, <1>19, <1>20 DEF IInv

\* Revoking changes no owner and issues nothing; only the request moves on.
LEMMA RevokeStep ==
    ASSUME IInv, NEW c \in Tabs, NEW S \in SUBSET Tokens,
           \A t \in S : status[t] = "live",
           status' = [t \in Tokens |-> IF t \in S THEN "revoked" ELSE status[t]],
           NEW at \in {"issue", "answer"}, Continue(c, at),
           UNCHANGED <<cookieAuth, owner, parent, issuedAt, jar, held, now, left>>,
           FrameOK(c)', RootOK(c)', LocksOK',
           lockedAt' \in [Users -> Nat \cup {None}]
    PROVE  IInv'
<1>1. /\ TypeOK /\ JarOK /\ TableOK /\ FramesOK /\ RootsOK
      /\ LogoutForgets /\ RotatesOnce
      /\ \A s \in held : Issued(s)
      /\ \A s \in Tokens : issuedAt[s] <= now
  BY DEF IInv
<1>2. \A s \in Tokens : status'[s] = "absent" <=> status[s] = "absent"
  BY <1>1 DEF TypeOK
<1>3. \A s : Issued(s)' <=> Issued(s)
  BY <1>2 DEF Issued
<1>4. \A d \in Tabs \ {c} : call'[d] = call[d]
  BY <1>1 DEF Continue, TypeOK
<1>5. TypeOK'
  <2>1. status' \in [Tokens -> {"absent", "live", "revoked"}]
    BY <1>1 DEF TypeOK
  <2>2. [call[c] EXCEPT !.at = at] \in Frame
    <3>1. \A f \in Frame : [f EXCEPT !.at = at] \in Frame
      BY DEF Frame
    <3> QED
      BY <1>1, <3>1 DEF TypeOK
  <2>3. call' = [call EXCEPT ![c] = [call[c] EXCEPT !.at = at]]
    BY DEF Continue
  <2>4. call' \in [Tabs -> Frame]
    BY <1>1, <2>2, <2>3 DEF TypeOK
  <2> QED
    BY <1>1, <2>1, <2>4 DEF TypeOK
<1>6. JarOK'
  BY <1>1, <1>3 DEF JarOK
<1>7. TableOK'
  BY <1>1, <1>2, <1>3 DEF TableOK
<1>8. /\ (\A s \in held : Issued(s))'
      /\ (\A s \in Tokens : issuedAt[s] <= now)'
  BY <1>1, <1>3
<1>9. FramesOK'
  BY <1>1, <1>3, <1>4 DEF FramesOK, FrameOK
<1>10. RootsOK'
  BY <1>1, <1>4 DEF RootsOK, RootOK
<1>11. LogoutForgets' /\ RotatesOnce'
  BY <1>1 DEF LogoutForgets, RotatesOnce, EmptyJar, NoCookie
<1> QED
  BY <1>5, <1>6, <1>7, <1>8, <1>9, <1>10, <1>11 DEF IInv

LEMMA RevokeOneStep ==
    ASSUME IInv, NEW c \in Tabs, RevokeOne(c)
    PROVE  IInv'
<1> DEFINE S == {call[c].refresh} \cap {t \in Tokens : status[t] = "live"}
           at == IF call[c].op = "refresh" THEN "issue" ELSE "answer"
<1>1. /\ call[c].at = "revoke"
      /\ status' = [t \in Tokens |-> IF t \in S THEN "revoked" ELSE status[t]]
      /\ Continue(c, at)
      /\ UNCHANGED <<cookieAuth, owner, parent, issuedAt, jar, held, now, left,
                     lockedAt>>
  BY DEF RevokeOne, Sessions!Revoke
<1>2. S \in SUBSET Tokens /\ \A t \in S : status[t] = "live"
  OBVIOUS
<1>3. at \in {"issue", "answer"}
  OBVIOUS
<1>4. TypeOK /\ FramesOK /\ RootsOK /\ LocksOK
  BY DEF IInv
<1>5. /\ call'[c].at = at
      /\ call'[c].op = call[c].op /\ call'[c].user = call[c].user
      /\ call'[c].refresh = call[c].refresh /\ call'[c].result = call[c].result
      /\ \A d \in Tabs \ {c} : call'[d] = call[d]
  BY <1>1, <1>4 DEF Continue, TypeOK, Frame
<1>6. \A t \in Tokens : /\ status'[t] = "absent" <=> status[t] = "absent"
                        /\ status'[t] = "live" => status[t] = "live"
  BY <1>1, <1>4 DEF TypeOK
<1>7. call[c].op \in {"refresh", "logout"}
  BY <1>1, <1>4 DEF FramesOK, FrameOK
<1>8. FrameOK(c)'
  <2>1. FrameOK(c)
    BY <1>4 DEF FramesOK
  <2> QED
    BY <1>1, <1>5, <1>6, <1>7, <2>1 DEF FrameOK, Issued
<1>9. RootOK(c)'
  BY <1>1, <1>4, <1>5, <1>7 DEF RootsOK, RootOK
<1>10. LocksOK'
  <2>1. \A d \in Tabs, v \in Users : Issuing(d, v)' => Issuing(d, v)
    BY <1>1, <1>5 DEF Issuing
  <2> QED
    BY <1>1, <1>4, <1>6, <2>1 DEF LocksOK
<1>11. lockedAt' \in [Users -> Nat \cup {None}]
  BY <1>1, <1>4 DEF TypeOK
<1> HIDE DEF S, at
<1> QED
  BY <1>1, <1>2, <1>3, <1>8, <1>9, <1>10, <1>11, RevokeStep

LEMMA RevokeAllStep ==
    ASSUME IInv, NEW c \in Tabs, RevokeAll(c)
    PROVE  IInv'
<1> DEFINE u == call[c].user
           S == {t \in Tokens : status[t] = "live" /\ owner[t] = u}
<1>1. /\ call[c].at = "revokeAll"
      /\ status' = [t \in Tokens |-> IF t \in S THEN "revoked" ELSE status[t]]
      /\ Continue(c, "answer")
      /\ lockedAt' = IF \E d \in Tabs : Issuing(d, u) THEN lockedAt
                     ELSE [lockedAt EXCEPT ![u] = now]
      /\ UNCHANGED <<cookieAuth, owner, parent, issuedAt, jar, held, now, left>>
  BY DEF RevokeAll, Sessions!Revoke
<1>2. S \in SUBSET Tokens /\ \A t \in S : status[t] = "live"
  OBVIOUS
<1>3. /\ TypeOK /\ FramesOK /\ RootsOK /\ LocksOK
      /\ \A s \in Tokens : issuedAt[s] <= now
  BY DEF IInv
<1>4. /\ call'[c].at = "answer" /\ call'[c].op = call[c].op
      /\ \A d \in Tabs \ {c} : call'[d] = call[d]
  BY <1>1, <1>3 DEF Continue, TypeOK, Frame
<1>5. call[c].op = "logoutAll" /\ u \in Users
  BY <1>1, <1>3 DEF FramesOK, FrameOK
<1>6. /\ \A t \in Tokens : status'[t] = "live" => status[t] = "live"
      /\ \A t \in Tokens : owner[t] = u => status'[t] # "live"
  BY <1>1, <1>3 DEF TypeOK
<1> HIDE DEF S, u
<1>7. FrameOK(c)' /\ RootOK(c)'
  BY <1>4, <1>5 DEF FrameOK, RootOK
<1>8. \A d \in Tabs, v \in Users : Issuing(d, v)' => Issuing(d, v)
  BY <1>4 DEF Issuing
<1>9. lockedAt' \in [Users -> Nat \cup {None}]
  <2>1. now \in Nat
    BY <1>3, TimesAssumption DEF TypeOK
  <2> QED
    BY <1>1, <1>3, <2>1 DEF TypeOK
<1>10. LocksOK'
  <2>1. ASSUME NEW v \in Users, lockedAt'[v] # None
        PROVE  /\ \A t \in Tokens : owner'[t] = v =>
                     status'[t] # "live" /\ issuedAt'[t] <= lockedAt'[v]
               /\ \A d \in Tabs : ~Issuing(d, v)'
    <3>1. CASE lockedAt'[v] = lockedAt[v]
      BY <1>1, <1>3, <1>6, <1>8, <2>1, <3>1 DEF LocksOK
    <3>2. CASE lockedAt'[v] # lockedAt[v]
      <4>1. v = u /\ lockedAt'[v] = now /\ \A d \in Tabs : ~Issuing(d, u)
        BY <1>1, <1>3, <3>2 DEF TypeOK
      <4> QED
        BY <1>1, <1>3, <1>6, <1>8, <4>1
    <3> QED
      BY <3>1, <3>2
  <2> QED
    BY <2>1 DEF LocksOK
<1> QED
  BY <1>1, <1>2, <1>7, <1>9, <1>10, RevokeStep

-----------------------------------------------------------------------------
(* Every step preserves the invariant.                                     *)
LEMMA InvStep == IInv /\ [Next]_vars => IInv'
<1> SUFFICES ASSUME IInv, [Next]_vars PROVE IInv'
  OBVIOUS
<1>1. CASE Tick
  BY <1>1, TickStep
<1>2. ASSUME NEW c \in Tabs, Step(c) PROVE IInv'
  <2>1. ASSUME NEW u \in Users, Login(c, u) PROVE IInv'
    BY <2>1, LoginStep
  <2>2. ASSUME NEW body \in held \cup {None}, Refresh(c, body) PROVE IInv'
    BY <2>2, RefreshStep
  <2>3. ASSUME NEW bearer \in held \cup {None}, NEW body \in held \cup {None},
               Logout(c, bearer, body)
        PROVE  IInv'
    BY <2>3, LogoutStep
  <2>4. ASSUME NEW bearer \in held \cup {None}, LogoutAll(c, bearer) PROVE IInv'
    BY <2>4, LogoutAllStep
  <2>5. ASSUME NEW t \in Tokens, IssueTokens(c, t) PROVE IInv'
    BY <2>5, IssueTokensStep
  <2>6. CASE RevokeOne(c)
    BY <2>6, RevokeOneStep
  <2>7. CASE RevokeAll(c)
    BY <2>7, RevokeAllStep
  <2>8. CASE AnswerLogin(c)
    BY <2>8, AnswerLoginStep
  <2>9. CASE AnswerRefresh(c)
    BY <2>9, AnswerRefreshStep
  <2>10. CASE AnswerLogout(c)
    BY <2>10, AnswerLogoutStep
  <2>11. CASE AnswerLogoutAll(c) \/ Fail(c)
    BY <2>11, QuietEnd
  <2> QED
    BY <1>2, <2>1, <2>2, <2>3, <2>4, <2>5, <2>6, <2>7, <2>8, <2>9, <2>10, <2>11
       DEF Step
<1>3. CASE UNCHANGED vars
  <2> USE <1>3 DEF vars, table, IInv
  <2>1. TypeOK'
    BY DEF TypeOK
  <2>2. JarOK' /\ TableOK'
    BY DEF JarOK, TableOK, Issued
  <2>3. /\ (\A t \in held : Issued(t))'
        /\ (\A t \in Tokens : issuedAt[t] <= now)'
    BY DEF Issued
  <2>4. FramesOK' /\ RootsOK' /\ LocksOK'
    BY DEF FramesOK, FrameOK, RootsOK, RootOK, LocksOK, Issuing, Issued
  <2>5. LogoutForgets' /\ RotatesOnce'
    BY DEF LogoutForgets, RotatesOnce, EmptyJar, NoCookie
  <2> QED
    BY <2>1, <2>2, <2>3, <2>4, <2>5
<1> QED
  BY <1>1, <1>2, <1>3 DEF Next

(* The invariant holds in every reachable state.                           *)
THEOREM InvHolds == Spec => []IInv
<1> QED
  BY InvInit, InvStep, PTL DEF Spec

(* Every variable keeps its type, whatever order answers arrive in.        *)
THEOREM TypeCorrect == Spec => []TypeOK
<1>1. IInv => TypeOK
  BY DEF IInv
<1> QED
  BY <1>1, InvHolds, PTL

(* The two cookies of a browser are always of one login: no order of the   *)
(* answers of its tabs mixes the access cookie of one session with the     *)
(* refresh cookie of another.                                              *)
THEOREM CookiesOfOnePair == Spec => []CookiesBelongTogether
<1>1. ASSUME IInv PROVE CookiesBelongTogether
  <2>1. JarOK
    BY <1>1 DEF IInv
  <2>2. jar[AccessKey] = NoCookie \/ jar[RefreshKey] = NoCookie
           \/ jar[AccessKey].token = jar[RefreshKey].token
    BY <2>1 DEF JarOK
  <2> QED
    BY <2>1, <2>2, CookiesSent DEF CookiesBelongTogether
<1> QED
  BY <1>1, InvHolds, PTL

(* With COOKIE_AUTH the browser keeps no cookie from the answer of a       *)
(* logout to that of the next login, whatever was in flight.               *)
THEOREM LogoutLeavesNothing == Spec => []LogoutForgets
<1>1. IInv => LogoutForgets
  BY DEF IInv
<1> QED
  BY <1>1, InvHolds, PTL

(* Once logout-all has left a user without sessions and AccessTtl is over, *)
(* no request of this browser enters as that user before the next login.   *)
THEOREM LogoutAllLocksOut == Spec => []LockedOut
<1>1. ASSUME IInv PROVE LockedOut
  <2>1. SUFFICES ASSUME NEW u \in Users, lockedAt[u] # None,
                        now >= lockedAt[u] + AccessTtl,
                        NEW bearer \in held \cup {None}, Enters(bearer, u)
                 PROVE  FALSE
    BY DEF LockedOut
  <2> DEFINE t == AccessToken(bearer)
  <2>2. Valid(t) /\ owner[t] = u
    BY <2>1 DEF Enters
  <2>3. Issued(t)
    BY <1>1, <2>2, Carried DEF Valid
  <2> HIDE DEF t
  <2>4. t \in Tokens /\ TypeOK /\ LocksOK
    BY <1>1, <2>3 DEF IInv, Issued
  <2>5. issuedAt[t] <= lockedAt[u]
    BY <2>1, <2>2, <2>4 DEF LocksOK
  <2>6. now < issuedAt[t] + AccessTtl
    BY <2>2 DEF Valid
  <2>7. /\ issuedAt[t] \in Nat /\ now \in Nat /\ AccessTtl \in Nat
        /\ lockedAt[u] \in Nat
    BY <2>1, <2>4, TimesAssumption DEF TypeOK
  <2> QED
    BY <2>1, <2>5, <2>6, <2>7
<1> QED
  BY <1>1, InvHolds, PTL

(* The whole consequence of refresh answers that leave the cookies alone   *)
(* (see CookieFollowsRotation): with COOKIE_AUTH every session can be      *)
(* refreshed once, from the token of its login, and never again, with any  *)
(* number of tabs and whatever order their answers arrive in.              *)
THEOREM CookieSessionsRotateOnce == Spec => []RotatesOnce
<1>1. IInv => RotatesOnce
  BY DEF IInv
<1> QED
  BY <1>1, InvHolds, PTL

-----------------------------------------------------------------------------
(* The table of the browser model is that of RefreshSessions, which the    *)
(* token service implements: every step of the controller and the browser  *)
(* opens a session, lets a token succeed a revoked one, revokes, or leaves *)
(* the table alone.                                                        *)
THEOREM TableImplemented == Spec => Sessions!Spec
<1>1. Init => Sessions!Init
  BY DEF Init
<1>2. ASSUME IInv, [Next]_vars PROVE [Sessions!Next]_(Sessions!vars)
  <2>1. CASE UNCHANGED <<status, owner, parent>>
    BY <2>1 DEF Sessions!vars
  <2>2. ASSUME NEW c \in Tabs, NEW t \in Tokens, IssueTokens(c, t)
        PROVE  Sessions!Next
    <3>1. CASE call[c].op = "login"
      <4>1. call[c].user \in Users
        BY <1>2, <2>2, <3>1 DEF IssueTokens, IInv, FramesOK, FrameOK
      <4> QED
        BY <2>2, <3>1, <4>1 DEF IssueTokens, Sessions!Next
    <3>2. CASE call[c].op # "login"
      <4>1. call[c].refresh \in Tokens
        BY <1>2, <2>2, <3>2 DEF IssueTokens, IInv, FramesOK, FrameOK, Issued
      <4> QED
        BY <2>2, <3>2, <4>1 DEF IssueTokens, Sessions!Next
    <3> QED
      BY <3>1, <3>2
  <2>3. ASSUME NEW c \in Tabs, RevokeOne(c) PROVE Sessions!Next
    <3> DEFINE p == call[c].refresh
               S == {p} \cap {t \in Tokens : status[t] = "live"}
    <3>1. Issued(p)
      BY <1>2, <2>3 DEF RevokeOne, IInv, FramesOK, FrameOK
    <3>2. owner[p] \in Users
      BY <1>2, <3>1 DEF IInv, TableOK, Issued
    <3>3. S \in SUBSET Tokens /\ Sessions!Revoke(S, owner[p])
      BY <2>3 DEF RevokeOne
    <3> HIDE DEF S
    <3> QED
      BY <3>2, <3>3 DEF Sessions!Next
  <2>4. ASSUME NEW c \in Tabs, RevokeAll(c) PROVE Sessions!Next
    <3> DEFINE u == call[c].user
               S == {t \in Tokens : status[t] = "live" /\ owner[t] = u}
    <3>1. u \in Users
      BY <1>2, <2>4 DEF RevokeAll, IInv, FramesOK, FrameOK
    <3>2. S \in SUBSET Tokens /\ Sessions!Revoke(S, u)
      BY <2>4 DEF RevokeAll
    <3> HIDE DEF S
    <3> QED
      BY <3>1, <3>2 DEF Sessions!Next
  <2>5. CASE Tick \/ UNCHANGED vars
    BY <2>1, <2>5 DEF Tick, vars, table
  <2>6. ASSUME NEW c \in Tabs, Step(c)
        PROVE  UNCHANGED <<status, owner, parent>> \/ Sessions!Next
    <3>1. \A u \in Users : Login(c, u) => UNCHANGED table
      BY DEF Login
    <3>2. \A body \in held \cup {None} : Refresh(c, body) => UNCHANGED table
      BY DEF Refresh
    <3>3. \A bearer, body \in held \cup {None} :
             Logout(c, bearer, body) => UNCHANGED table
      BY DEF Logout
    <3>4. \A bearer \in held \cup {None} : LogoutAll(c, bearer) => UNCHANGED table
      BY DEF LogoutAll
    <3>5. AnswerLogin(c) \/ AnswerRefresh(c) \/ AnswerLogout(c)
             \/ AnswerLogoutAll(c) \/ Fail(c) => UNCHANGED table
      BY DEF AnswerLogin, AnswerRefresh, AnswerLogout, AnswerLogoutAll, Fail
    <3>6. UNCHANGED table => UNCHANGED <<status, owner, parent>>
      BY DEF table
    <3> QED
      BY <2>2, <2>3, <2>4, <2>6, <3>1, <3>2, <3>3, <3>4, <3>5, <3>6 DEF Step
  <2> QED
    BY <1>2, <2>1, <2>5, <2>6 DEF Next
<1> QED
  BY <1>1, <1>2, InvHolds, PTL DEF Spec, Sessions!Spec

-----------------------------------------------------------------------------
(***************************************************************************)
(* What a logout revokes.                                                  *)
(***************************************************************************)
LogoutOK(c) ==
    call[c].op = "logout" =>
        /\ call[c].at \in {"revoke", "answer"}
        /\ cookieAuth => call[c].refresh = None
        /\ call[c].refresh # None => Issued(call[c].refresh)
        /\ call[c].at = "answer" /\ call[c].refresh # None =>
              status[call[c].refresh] = "revoked"

LogoutsOK == \A c \in Tabs : LogoutOK(c)

\* A revoked token stays revoked, an issued one issued.
LEMMA RevokedStays ==
    ASSUME IInv, [Next]_vars, NEW t \in Tokens
    PROVE  /\ status[t] = "revoked" => status'[t] = "revoked"
           /\ status[t] # "absent" => status'[t] # "absent"
<1>1. status \in [Tokens -> {"absent", "live", "revoked"}]
  BY DEF IInv, TypeOK
<1>2. ASSUME NEW c \in Tabs, NEW r \in Tokens, IssueTokens(c, r)
      PROVE  status[r] = "absent" /\ status' = [status EXCEPT ![r] = "live"]
  BY <1>2 DEF IssueTokens, Sessions!Open, Sessions!Succeed
<1>3. ASSUME NEW S, NEW u, Sessions!Revoke(S, u)
      PROVE  status' = [r \in Tokens |-> IF r \in S THEN "revoked" ELSE status[r]]
  BY <1>3 DEF Sessions!Revoke
<1>4. ASSUME NEW c \in Tabs, Step(c)
      PROVE  \/ UNCHANGED status
             \/ \E r \in Tokens : IssueTokens(c, r)
             \/ \E S, u : Sessions!Revoke(S, u)
  BY <1>4 DEF Step, Login, Refresh, Logout, LogoutAll, RevokeOne, RevokeAll,
              AnswerLogin, AnswerRefresh, AnswerLogout, AnswerLogoutAll, Fail,
              table
<1>5. CASE UNCHANGED status
  BY <1>5
<1>6. Tick \/ UNCHANGED vars => UNCHANGED status
  BY DEF Tick, vars, table
<1> QED
  BY <1>1, <1>2, <1>3, <1>4, <1>5, <1>6 DEF Next

\* No logout is under way initially.
LEMMA LogoutsInit == Init => LogoutsOK
BY DEF Init, LogoutsOK, LogoutOK, Idle

\* Every step preserves what the logouts have achieved.
LEMMA LogoutsStep == IInv /\ LogoutsOK /\ [Next]_vars => LogoutsOK'
<1> SUFFICES ASSUME IInv, LogoutsOK, [Next]_vars, NEW d \in Tabs
             PROVE  LogoutOK(d)'
  BY DEF LogoutsOK
<1>1. /\ call \in [Tabs -> Frame] /\ call[d] \in Frame
      /\ FrameOK(d) /\ LogoutOK(d)
  BY DEF IInv, TypeOK, FramesOK, LogoutsOK
<1>2. \A t \in Tokens : /\ status[t] = "revoked" => status'[t] = "revoked"
                        /\ status[t] # "absent" => status'[t] # "absent"
  <2>1. ASSUME NEW t \in Tokens
        PROVE  /\ status[t] = "revoked" => status'[t] = "revoked"
               /\ status[t] # "absent" => status'[t] # "absent"
    BY RevokedStays, ZenonT(40)
  <2> QED
    BY <2>1, Zenon
<1>3. UNCHANGED cookieAuth
  BY DEF Next, Step, Login, Refresh, Logout, LogoutAll, IssueTokens, RevokeOne,
         RevokeAll, AnswerLogin, AnswerRefresh, AnswerLogout, AnswerLogoutAll,
         Fail, Tick, vars
<1>4. ASSUME call'[d] = call[d] PROVE LogoutOK(d)'
  BY <1>1, <1>2, <1>3, <1>4 DEF LogoutOK, Issued
<1>5. ASSUME call'[d].op # "logout" PROVE LogoutOK(d)'
  BY <1>5 DEF LogoutOK
<1>6. ASSUME NEW c \in Tabs, NEW bearer \in held \cup {None},
             NEW body \in held \cup {None}, Logout(c, bearer, body)
      PROVE  LogoutOK(d)'
  <2> DEFINE t == Presented(LogoutPath, body)
             frame == [Idle EXCEPT !.at = IF t # None THEN "revoke" ELSE "answer",
                                   !.op = "logout",
                                   !.access = AccessToken(bearer), !.refresh = t]
  <2>1. call' = [call EXCEPT ![c] = frame] /\ UNCHANGED status
    BY <1>6 DEF Logout, Start, table
  <2>2. /\ t # None => Issued(t)
        /\ cookieAuth => t = None
    BY Carried, CookiesSent DEF IInv, Presented
  <2>3. /\ frame.op = "logout" /\ frame.refresh = t
        /\ frame.at = IF t # None THEN "revoke" ELSE "answer"
    BY DEF Idle
  <2> HIDE DEF t, frame
  <2>4. call'[c] = frame /\ \A e \in Tabs \ {c} : call'[e] = call[e]
    BY <1>1, <2>1
  <2>5. CASE d = c
    BY <1>3, <2>1, <2>2, <2>3, <2>4, <2>5 DEF LogoutOK, Issued
  <2> QED
    BY <1>4, <2>4, <2>5
<1>7. ASSUME NEW c \in Tabs, RevokeOne(c)
      PROVE  LogoutOK(d)'
  <2> DEFINE p == call[c].refresh
  <2>1. /\ call[c].at = "revoke"
        /\ call' = [call EXCEPT ![c].at =
                       IF call[c].op = "refresh" THEN "issue" ELSE "answer"]
        /\ status' = [t \in Tokens |->
              IF t \in {p} \cap {r \in Tokens : status[r] = "live"}
              THEN "revoked" ELSE status[t]]
    BY <1>7 DEF RevokeOne, Continue, Sessions!Revoke
  <2>2. \A e \in Tabs \ {c} : call'[e] = call[e]
    BY <1>1, <2>1
  <2>3. CASE d = c
    <3>1. Issued(p) /\ call[c].op \in {"refresh", "logout"}
      BY <1>1, <2>1, <2>3 DEF FrameOK
    <3>2. status'[p] = "revoked"
      BY <2>1, <3>1 DEF IInv, TypeOK, Issued
    <3>3. /\ call'[d].op = call[d].op /\ call'[d].refresh = p
          /\ call[d].op = "logout" => call'[d].at = "answer"
      BY <1>1, <2>1, <2>3 DEF Frame
    <3> QED
      BY <1>1, <1>3, <2>3, <3>1, <3>2, <3>3 DEF LogoutOK, Issued
  <2> QED
    BY <1>4, <2>2, <2>3
<1>8. ASSUME NEW c \in Tabs, NEW f, f.op # "logout", call' = [call EXCEPT ![c] = f]
      PROVE  LogoutOK(d)'
  BY <1>1, <1>4, <1>5, <1>8
<1>9. ASSUME NEW c \in Tabs, NEW u \in Users, Login(c, u) PROVE LogoutOK(d)'
  BY <1>8, <1>9 DEF Login, Start, Idle
<1>10. ASSUME NEW c \in Tabs, NEW body, Refresh(c, body) PROVE LogoutOK(d)'
  <2> DEFINE t == Presented(RefreshPath, body)
             f == [Idle EXCEPT !.at = "revoke", !.op = "refresh",
                               !.user = owner[t], !.refresh = t]
  <2>1. f.op # "logout" /\ call' = [call EXCEPT ![c] = f]
    BY <1>10 DEF Refresh, Start, Idle
  <2> QED
    BY <1>8, <2>1
<1>11. ASSUME NEW c \in Tabs, NEW bearer, LogoutAll(c, bearer) PROVE LogoutOK(d)'
  <2> DEFINE f == [Idle EXCEPT !.at = "revokeAll", !.op = "logoutAll",
                               !.user = owner[AccessToken(bearer)]]
  <2>1. f.op # "logout" /\ call' = [call EXCEPT ![c] = f]
    BY <1>11 DEF LogoutAll, Start, Idle
  <2> QED
    BY <1>8, <2>1
<1>12. ASSUME NEW c \in Tabs, NEW t \in Tokens, IssueTokens(c, t)
       PROVE  LogoutOK(d)'
  <2> DEFINE f == [Idle EXCEPT !.at = "answer", !.op = call[c].op, !.result = t]
  <2>1. call[c].op # "logout"
    BY <1>12 DEF IssueTokens, LogoutsOK, LogoutOK
  <2>2. f.op # "logout" /\ call' = [call EXCEPT ![c] = f]
    BY <1>12, <2>1 DEF IssueTokens, Idle
  <2> QED
    BY <1>8, <2>2
<1>13. ASSUME NEW c \in Tabs, RevokeAll(c) PROVE LogoutOK(d)'
  <2>1. call[c].op # "logout"
    BY <1>13 DEF RevokeAll, LogoutsOK, LogoutOK
  <2>2. [call[c] EXCEPT !.at = "answer"].op = call[c].op
    BY <1>1 DEF IInv, TypeOK, Frame
  <2> QED
    BY <1>8, <1>13, <2>1, <2>2 DEF RevokeAll, Continue
<1>14. ASSUME NEW c \in Tabs,
              \/ AnswerLogin(c) \/ AnswerRefresh(c) \/ AnswerLogout(c)
              \/ AnswerLogoutAll(c) \/ Fail(c)
       PROVE  LogoutOK(d)'
  BY <1>8, <1>14 DEF AnswerLogin, AnswerRefresh, AnswerLogout, AnswerLogoutAll,
                     Fail, Idle
<1>15. CASE Tick \/ UNCHANGED vars
  BY <1>4, <1>15 DEF Tick, vars
<1> QED
  BY <1>6, <1>7, <1>9, <1>10, <1>11, <1>12, <1>13, <1>14, <1>15 DEF Next, Step

(* With tokens in bodies a logout has revoked the refresh token it was     *)
(* given when it is answered, whatever rotations and other logouts overlap *)
(* it.  With tokens in cookies it never revokes anything: no cookie that a *)
(* browser may hold is sent to its path.                                   *)
THEOREM LogoutRevokesInTokenModeOnly ==
    Spec => [](\A c \in Tabs : call[c].op = "logout" =>
                  /\ cookieAuth => call[c].at # "revoke"
                  /\ call[c].at = "answer" /\ call[c].refresh # None =>
                        status[call[c].refresh] = "revoked")
<1>1. IInv /\ LogoutsOK =>
         \A c \in Tabs : call[c].op = "logout" =>
            /\ cookieAuth => call[c].at # "revoke"
            /\ call[c].at = "answer" /\ call[c].refresh # None =>
                  status[call[c].refresh] = "revoked"
  BY NoneIsNothing DEF IInv, FramesOK, FrameOK, Issued, LogoutsOK, LogoutOK
<1> QED
  BY <1>1, LogoutsInit, LogoutsStep, InvHolds, PTL DEF Spec

=============================================================================

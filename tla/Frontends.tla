------------------------------ MODULE Frontends ------------------------------
(***************************************************************************)
(* The sessions of the two web frontends: the tabs of the storefront and   *)
(* of the admin frontend in one browser, the gateway that authenticates    *)
(* and authorizes what they ask for, the authorization service's rules,    *)
(* and the identity provider's sessions.                                   *)
(*                                                                         *)
(* A handler of a page runs up to its fetch, which is a call in flight,    *)
(* and goes on when the call is answered: clicks, answers and reloads of a *)
(* page interleave.  Idp has the identity provider's own overlaps, and     *)
(* Checkout what POST /orders does.                                        *)
(***************************************************************************)
EXTENDS Naturals, Sequences, FiniteSets

CONSTANTS
  Shop,         \* tabs of the storefront
  Admin,        \* tabs of the admin frontend
  NoTab,        \* the sender of a call whose tab was reloaded
  User,
  Role,         \* the role in a user's credentials
  WithMfa,      \* the users with mfa_enabled
  MaxSessions,  \* bound on the sessions
  MaxClicks,    \* bound on what the tabs' users start
  MaxInFlight,  \* bound on those of them that are in flight at a time
  MaxFaults     \* bound on failing calls

Tab  == Shop \cup Admin
Roles == {"ADMIN", "USER"}

ASSUME FrontendsAssumption ==
  /\ Shop \cap Admin = {} /\ NoTab \notin Tab
  /\ Role \in [User -> Roles]
  /\ WithMfa \subseteq User
  /\ MaxSessions \in Nat \ {0} /\ MaxClicks \in Nat /\ MaxInFlight \in Nat /\ MaxFaults \in Nat

VARIABLES
  sessions,     \* what the identity provider issued, session n as <token n, refresh token n>
  page,         \* each tab's state
  stored,       \* localStorage, by frontend
  calls,        \* the fetches in flight
  clicks, faults,
  crossed,      \* the tabs in which one call was answered while another was in
                \* flight and changed who is signed in, or that found the tokens
                \* of another tab stored
  interrupted   \* the tabs that were reloaded with a call in flight

vars == <<sessions, page, stored, calls, clicks, faults, crossed, interrupted>>

Session == 1..MaxSessions
App(t)  == IF t \in Shop THEN "shop" ELSE "admin"
Final   == {"ok", "challenge", "empty", "refused", "denied", "failed"}

\* A tab's token, the login that waits for its one-time code, and the session
\* that fetched what it shows: currentOrder, or the admin's data.
Page == [token : 0..MaxSessions, mfa : 0..MaxSessions, shows : 0..MaxSessions]
Call ==
  [id : 0..MaxInFlight, tab : Tab \cup {NoTab},
   what : {"login", "mfa", "register", "buy", "orders", "export", "logout"},
   user : User, session : 0..MaxSessions, refresh : 0..MaxSessions,
   at : {"sent", "authenticated"} \cup Final]
Issued == [user : User, app : {"shop", "admin"}, refresh : BOOLEAN,
           access : {"challenge", "good", "revoked", "expired"}]

TypeOK ==
  /\ sessions \in Seq(Issued) /\ Len(sessions) <= MaxSessions
  /\ page \in [Tab -> Page]
  /\ stored \in [{"shop", "admin"} -> [token : 0..MaxSessions, refresh : 0..MaxSessions]]
  /\ calls \subseteq Call
  /\ clicks \in 0..MaxClicks /\ faults \in 0..MaxFaults
  /\ crossed \subseteq Tab /\ interrupted \subseteq Tab
  /\ \A t \in Tab : page[t].token # 0 =>
       /\ page[t].token \in DOMAIN sessions
       /\ sessions[page[t].token].access # "challenge"

NewCall(i, t, what, n, refresh, u) ==
  [id |-> i, tab |-> t, what |-> what, user |-> u, session |-> n, refresh |-> refresh,
   at |-> "sent"]

\* The calls that change a session, and so matter when their tab is gone: no
\* login of the admin frontend does.
HasEffect(c) == c.what \in IF c.tab \in Shop THEN {"login", "mfa", "logout"} ELSE {"logout"}

\* Nothing stored, and a page that was just loaded without a token.
Empty == [token |-> 0, refresh |-> 0]
Blank == [token |-> 0, mfa |-> 0, shows |-> 0]

-----------------------------------------------------------------------------
\* authz-service: ROLE_PERMISSIONS and evaluateRules. A call's name stands for
\* its method and path: buy is POST /orders, orders is GET /orders.
RolePermissions ==
  [ADMIN |-> {"orders:read", "orders:create", "orders:update", "users:read",
              "users:update", "products:read", "products:create", "products:update"},
   USER  |-> {"orders:create", "products:read"}]

\* Mutant: the rules look at the path alone.
EvaluatePath(role, what) ==
  \/ role = "ADMIN"
  \/ what \in {"buy", "orders"} /\ "orders:create" \in RolePermissions[role]

EvaluateRules(role, what) ==
  \/ role = "ADMIN"
  \/ what = "buy" /\ "orders:create" \in RolePermissions[role]
  \/ what = "orders" /\ "orders:read" \in RolePermissions[role]

-----------------------------------------------------------------------------
\* Init: nobody is signed in at the storefront.  The admin frontend starts
\* signed out, or finds the token of some user in its localStorage and fetches
\* the orders; no refresh token was kept with it.
Older(u) == [user |-> u, app |-> "admin", refresh |-> FALSE, access |-> "good"]

Init ==
  /\ clicks = 0 /\ faults = 0 /\ crossed = {} /\ interrupted = {}
  /\ \/ /\ sessions = <<>> /\ calls = {}
        /\ page = [t \in Tab |-> Blank]
        /\ stored = [a \in {"shop", "admin"} |-> Empty]
     \/ \E u \in User :
          /\ sessions = <<Older(u)>>
          /\ calls = {NewCall(0, t, "orders", 1, 0, u) : t \in Admin}
          /\ page = [t \in Tab |-> IF t \in Admin THEN [Blank EXCEPT !.token = 1] ELSE Blank]
          /\ stored = [a \in {"shop", "admin"} |->
                         IF a = "admin" THEN [Empty EXCEPT !.token = 1] ELSE Empty]

-----------------------------------------------------------------------------
\* What the user of a tab starts.
Click == clicks < MaxClicks /\ clicks' = clicks + 1

\* The least name that no call in flight has.
NewIds == {i \in 1..MaxInFlight :
             /\ \A c \in calls : c.id # i
             /\ \A j \in 1..(i - 1) : \E c \in calls : c.id = j}

Start(t, what, n, refresh, u) ==
  /\ Click
  /\ \E i \in NewIds : calls' = calls \cup {NewCall(i, t, what, n, refresh, u)}

\* The form to sign in is shown: an order would cover it.
SignedOut(t) == page[t].token = 0 /\ (t \in Shop => page[t].shows = 0)

\* handleLogin
SignIn(t, u) ==
  /\ SignedOut(t) /\ page[t].mfa = 0
  /\ Start(t, "login", 0, 0, u)
  /\ UNCHANGED <<sessions, page, stored, faults, crossed, interrupted>>

\* handleRegister
SignUp(t, u) ==
  /\ t \in Shop /\ SignedOut(t) /\ page[t].mfa = 0
  /\ Start(t, "register", 0, 0, u)
  /\ UNCHANGED <<sessions, page, stored, faults, crossed, interrupted>>

\* handleMfaSubmit, or Cancel.
Verify(t) ==
  /\ SignedOut(t) /\ page[t].mfa # 0
  /\ Start(t, "mfa", page[t].mfa, 0, sessions[page[t].mfa].user)
  /\ UNCHANGED <<sessions, page, stored, faults, crossed, interrupted>>

CancelMfa(t) ==
  /\ SignedOut(t) /\ page[t].mfa # 0
  /\ page' = [page EXCEPT ![t].mfa = 0]
  /\ UNCHANGED <<sessions, stored, calls, clicks, faults, crossed, interrupted>>

\* buyProduct; fetchOrders and handleExport.
Ask(t, what) ==
  /\ page[t].token # 0
  /\ IF t \in Shop THEN what = "buy" /\ page[t].shows = 0 ELSE what \in {"orders", "export"}
  /\ Start(t, what, page[t].token, 0, sessions[page[t].token].user)
  /\ UNCHANGED <<sessions, page, stored, faults, crossed, interrupted>>

\* Back to Shop
Back(t) ==
  /\ t \in Shop /\ page[t].shows # 0
  /\ page' = [page EXCEPT ![t].shows = 0]
  /\ UNCHANGED <<sessions, stored, calls, clicks, faults, crossed, interrupted>>

\* Mutant: localStorage is cleared first.
LogoutCleared(i, t, n) == NewCall(i, t, "logout", n, 0, sessions[n].user)

\* handleLogout as far as its fetch: with the token n that the handler began
\* with, and the refresh token that is stored now.
Logout(i, t, n) == NewCall(i, t, "logout", n, stored[App(t)].refresh, sessions[n].user)

\* The tokens of another tab are stored.
Mixed(t, n) == IF stored[App(t)].token # n THEN {t} ELSE {}

\* Sign Out
SignOut(t) ==
  /\ page[t].token # 0
  /\ t \in Shop => page[t].shows = 0
  /\ Click
  /\ \E i \in NewIds : calls' = calls \cup {Logout(i, t, page[t].token)}
  /\ crossed' = crossed \cup Mixed(t, page[t].token)
  /\ UNCHANGED <<sessions, page, stored, faults, interrupted>>

\* The tab is loaded again: its calls go on without it.
Reload(t) ==
  /\ Click
  /\ LET n    == stored[App(t)].token
         own  == {c \in calls : c.tab = t}
         left == (calls \ own) \cup
                   {[c EXCEPT !.tab = NoTab] : c \in {c \in own : HasEffect(c) /\ c.at \notin Final}}
     IN  /\ page' = [page EXCEPT ![t] = [Blank EXCEPT !.token = n]]
         /\ IF t \in Admin /\ n # 0
            THEN \E i \in NewIds :
                   calls' = left \cup {NewCall(i, t, "orders", n, 0, sessions[n].user)}
            ELSE calls' = left
         /\ interrupted' = interrupted \cup {c.tab : c \in own}
  /\ crossed' = crossed \cup Mixed(t, page[t].token)
  /\ UNCHANGED <<sessions, stored, faults>>

-----------------------------------------------------------------------------
Fault == faults < MaxFaults /\ faults' = faults + 1
\* A call comes to a stage; the answer to a call that lost its tab goes nowhere.
Becomes(c, at) ==
  calls' = (calls \ {c}) \cup
    IF c.tab = NoTab /\ at \in Final THEN {} ELSE {[c EXCEPT !.at = at]}
Access(n) == sessions[n].access

\* authenticateToken: the token's signature and age, then the blacklist.
Authenticated(c) ==
  CASE Access(c.session) = "good" -> "authenticated"
    [] Access(c.session) = "revoked" -> "refused"
    [] OTHER -> "denied"

\* The X-User-Permissions header of createRouteHandler.
Permissions(c) == RolePermissions[Role[c.user]]

\* checkAccess and the service behind the route: nothing they read changes after
\* the token was looked up. The export service answers a caller without
\* permission with an error in place of the file, which is no failure.
Answers(c) ==
  IF Authenticated(c) # "authenticated" THEN {Authenticated(c)}
  ELSE IF ~EvaluateRules(Role[c.user], c.what) THEN {"denied"}
  ELSE IF c.what = "export" /\ "orders:read" \notin Permissions(c) THEN {"empty", "failed"}
  ELSE {"ok", "failed"}

\* The gateway's protected routes.
Serve(c) ==
  /\ c.at = "sent" /\ c.what \in {"buy", "orders", "export"}
  /\ \E at \in Answers(c) : Becomes(c, at)
  /\ UNCHANGED <<sessions, page, stored, clicks, faults, crossed, interrupted>>

\* Redis fails, which counts as a token that is no good, or authz-service does.
ServeFails(c) ==
  /\ c.at = "sent" /\ c.what \in {"buy", "orders", "export", "logout"}
  /\ Fault
  /\ \E at \in {"denied", "failed"} : Becomes(c, at)
  /\ UNCHANGED <<sessions, page, stored, clicks, crossed, interrupted>>

\* The route of /auth/logout is authenticated, and open to all roles.
Authenticate(c) ==
  /\ c.at = "sent" /\ c.what = "logout"
  /\ Becomes(c, Authenticated(c))
  /\ UNCHANGED <<sessions, page, stored, clicks, faults, crossed, interrupted>>

\* The identity provider's revoke, which the gateway hands the token and the body.
Revoked(s, n, refresh) ==
  [m \in DOMAIN s |->
    [s[m] EXCEPT !.access = IF m = n /\ @ = "good" THEN "revoked" ELSE @,
                 !.refresh = @ /\ m # refresh]]
Revoke(c) ==
  /\ c.at = "authenticated" /\ c.what = "logout"
  /\ \/ sessions' = Revoked(sessions, c.session, c.refresh) /\ Becomes(c, "ok") /\ UNCHANGED faults
     \/ \* Redis or the call fails, before or after the access token is listed.
        /\ Fault /\ Becomes(c, "failed")
        /\ sessions' \in {sessions, Revoked(sessions, c.session, 0)}
  /\ UNCHANGED <<page, stored, clicks, crossed, interrupted>>

\* The password grant: refused without a client, as the admin frontend's is.
Grant(c) ==
  /\ c.at = "sent" /\ c.what = "login"
  /\ \/ /\ c.tab \notin Admin /\ Len(sessions) < MaxSessions
        /\ sessions' = Append(sessions,
             IF c.user \in WithMfa
             THEN [user |-> c.user, app |-> "shop", refresh |-> FALSE, access |-> "challenge"]
             ELSE [user |-> c.user, app |-> "shop", refresh |-> TRUE, access |-> "good"])
        /\ calls' = (calls \ {c}) \cup
             {[c EXCEPT !.session = Len(sessions) + 1,
                        !.at = IF c.user \in WithMfa THEN "challenge" ELSE "ok"]}
     \/ Becomes(c, "refused") /\ UNCHANGED sessions
  /\ UNCHANGED <<page, stored, clicks, faults, crossed, interrupted>>

\* The grant by one-time code, which is good once and for five minutes.
GrantMfa(c) ==
  /\ c.at = "sent" /\ c.what = "mfa"
  /\ \/ /\ Access(c.session) = "challenge"
        /\ sessions' = [sessions EXCEPT ![c.session].access = "good",
                                        ![c.session].refresh = TRUE]
        /\ Becomes(c, "ok")
     \/ Becomes(c, "refused") /\ UNCHANGED sessions
  /\ UNCHANGED <<page, stored, clicks, faults, crossed, interrupted>>

\* Registration, which Idp models.
Enrol(c) ==
  /\ c.at = "sent" /\ c.what = "register"
  /\ Becomes(c, "ok") \/ Becomes(c, "failed")
  /\ UNCHANGED <<sessions, page, stored, clicks, faults, crossed, interrupted>>

\* An access token's hour, or a code's five minutes, are over.
Expire(n) ==
  /\ n \in DOMAIN sessions /\ Access(n) \in {"challenge", "good"}
  /\ sessions' = [sessions EXCEPT ![n].access = "expired"]
  /\ UNCHANGED <<page, stored, calls, clicks, faults, crossed, interrupted>>

\* The page's fetch fails, while what it asked for may still be done. (Purchases
\* may fail in any case, and what is left of one is Checkout's.)
Lose(c) ==
  /\ c.tab # NoTab /\ HasEffect(c) /\ Fault
  /\ calls' = (calls \ {c}) \cup {[c EXCEPT !.at = "failed"]}
       \cup IF c.at \in Final THEN {} ELSE {[c EXCEPT !.tab = NoTab]}
  /\ UNCHANGED <<sessions, page, stored, clicks, crossed, interrupted>>

Process(c) ==
  \/ Serve(c) \/ ServeFails(c) \/ Authenticate(c)
  \/ Revoke(c) \/ Grant(c) \/ GrantMfa(c) \/ Enrol(c)

-----------------------------------------------------------------------------
\* What a page does with an answer.
Ends(c) == c.tab # NoTab /\ c.at \in Final /\ calls' = calls \ {c}
Others(c) == {d.tab : d \in {d \in calls \ {c} : d.tab = c.tab}}

\* Mutant: what comes with a 202 is taken for an access token.
SignedInAnyway(c) ==
  /\ c.what \in {"login", "mfa"} /\ Ends(c)
  /\ page' = IF c.at \in {"ok", "challenge"}
             THEN [page EXCEPT ![c.tab].token = c.session] ELSE page
  /\ UNCHANGED <<sessions, stored, clicks, faults, crossed, interrupted>>

\* handleLogin and handleMfaSubmit: the tokens are kept, or the code asked for.
SignedIn(c) ==
  /\ c.what \in {"login", "mfa"} /\ Ends(c)
  /\ CASE c.at = "ok" ->
            /\ page' = [page EXCEPT ![c.tab].token = c.session,
                                    ![c.tab].mfa = IF c.what = "mfa" THEN 0 ELSE @]
            /\ stored' = [stored EXCEPT !["shop"] = [token |-> c.session, refresh |-> c.session]]
            /\ crossed' = crossed \cup Others(c)
       [] c.at = "challenge" ->
            /\ page' = [page EXCEPT ![c.tab].mfa = c.session]
            /\ UNCHANGED <<stored, crossed>>
       [] OTHER -> UNCHANGED <<page, stored, crossed>>
  /\ UNCHANGED <<sessions, clicks, faults, interrupted>>

\* handleRegister signs in with what was typed.
SignedUp(c) ==
  /\ c.what = "register" /\ c.tab # NoTab /\ c.at \in Final
  /\ calls' = (calls \ {c}) \cup
       IF c.at = "ok" THEN {NewCall(c.id, c.tab, "login", 0, 0, c.user)} ELSE {}
  /\ UNCHANGED <<sessions, page, stored, clicks, faults, crossed, interrupted>>

\* buyProduct and fetchOrders, which sign out when they are refused; handleExport.
SignsOut(c) == c.what \in {"buy", "orders"} /\ c.at \in {"refused", "denied"}
Got(c) ==
  /\ c.what \in {"buy", "orders", "export"} /\ c.tab # NoTab /\ c.at \in Final
  /\ IF SignsOut(c)
     THEN /\ calls' = (calls \ {c}) \cup {Logout(c.id, c.tab, c.session)}
          /\ crossed' = crossed \cup Mixed(c.tab, c.session)
     ELSE calls' = calls \ {c} /\ UNCHANGED crossed
  /\ page' = IF c.what \in {"buy", "orders"} /\ c.at = "ok"
             THEN [page EXCEPT ![c.tab].shows = c.session] ELSE page
  /\ UNCHANGED <<sessions, stored, clicks, faults, interrupted>>

\* Mutant: only an OK answer signs the page out.
LoggedOutIfOk(c) ==
  /\ c.what = "logout" /\ Ends(c)
  /\ page' = IF c.at = "ok" THEN [page EXCEPT ![c.tab].token = 0, ![c.tab].shows = 0] ELSE page
  /\ stored' = IF c.at = "ok" THEN [stored EXCEPT ![App(c.tab)] = Empty] ELSE stored
  /\ crossed' = crossed \cup Others(c)
  /\ UNCHANGED <<sessions, clicks, faults, interrupted>>

\* The rest of handleLogout, whatever the answer was.
LoggedOut(c) ==
  /\ c.what = "logout" /\ Ends(c)
  /\ page' = [page EXCEPT ![c.tab].token = 0, ![c.tab].shows = 0]
  /\ stored' = [stored EXCEPT ![App(c.tab)] = Empty]
  /\ crossed' = crossed \cup Others(c)
  /\ UNCHANGED <<sessions, clicks, faults, interrupted>>

Handle(c) == SignedIn(c) \/ SignedUp(c) \/ Got(c) \/ LoggedOut(c)

Next ==
  \/ \E t \in Tab :
       \/ \E u \in User : SignIn(t, u) \/ SignUp(t, u)
       \/ Verify(t) \/ CancelMfa(t)
       \/ \E what \in {"buy", "orders", "export"} : Ask(t, what)
       \/ Back(t) \/ SignOut(t) \/ Reload(t)
  \/ \E c \in calls : Process(c) \/ Handle(c) \/ Lose(c)
  \/ \E n \in Session : Expire(n)

Spec == Init /\ [][Next]_vars

\* Services answer and pages handle what is answered. Nothing is assumed of the
\* users, of faults or of the clock.
Fairness ==
  \A i \in 0..MaxInFlight : WF_vars(\E c \in calls : c.id = i /\ (Process(c) \/ Handle(c)))

FairSpec == Spec /\ Fairness

-----------------------------------------------------------------------------
\* What a tab shows was fetched by who is signed in at it, the admin's data by an
\* administrator always: only an answer that changed the session under a call in
\* flight leaves an order, or data, of somebody before (buyProduct, fetchOrders,
\* handleLogout). And the services agree on who may do what: a call that the
\* gateway lets through is not turned away behind it, with a 200 that the page
\* takes for a file (evaluateRules, createRouteHandler, the export's handler).
ShownIsOwn ==
  /\ \A t \in Tab :
       page[t].shows # 0 =>
         /\ t \in Admin => Role[sessions[page[t].shows].user] = "ADMIN"
         /\ t \in crossed \/ page[t].shows = page[t].token
  /\ \A c \in calls : c.at # "empty"

Known(n) ==
  \/ \E t \in Tab : page[t].token = n
  \/ \E a \in {"shop", "admin"} : n \in {stored[a].token, stored[a].refresh}
  \/ \E c \in calls : c.session = n

\* A session of the storefront that nobody holds is over, both of its tokens:
\* unless a call failed, a reload or another call came in between, or its access
\* token had expired, when the gateway turns the sign-out away and the refresh
\* token lives on (handleLogout, authenticateToken, /oauth/revoke).
SessionsEnd ==
  \/ faults > 0 \/ crossed # {} \/ interrupted # {}
  \/ \A n \in DOMAIN sessions :
       sessions[n].app = "shop" =>
         /\ ~Known(n) => Access(n) # "good" /\ (Access(n) # "expired" => ~sessions[n].refresh)
         /\ Access(n) = "good" => sessions[n].refresh

\* Who signs out, or is refused, is signed out in the end whatever the services
\* answer, unless the tab is reloaded meanwhile (handleLogout).
SignOutCompletes ==
  \A t \in Tab :
    (\E c \in calls : c.tab = t /\ (c.what = "logout" \/ SignsOut(c)))
      ~> (page[t].token = 0 \/ t \in interrupted)
=============================================================================

--------------------------------- MODULE Idp --------------------------------
(***************************************************************************)
(* The identity provider: accounts in PostgreSQL, sessions and codes in    *)
(* Redis, the gateway's look at revoked tokens, and the user service that  *)
(* makes a profile of each registration.                                   *)
(*                                                                         *)
(* Calls overlap: an action is what one does between two awaits.  What a   *)
(* call issues (a password, a token, a code) is named by the call.         *)
(***************************************************************************)
EXTENDS Integers, Sequences, FiniteSets

CONSTANTS
  Name,        \* user names
  Nobody,
  Seed,        \* the sample users, by id
  WithMfa,     \* the users who register with mfa_enabled
  Scripts,     \* the calls that may be made
  Fresh,       \* those of them that meet services which are starting
  MaxCalls,    \* bound on their number
  AccessLife, RefreshLife, MfaLife, ResetLife,   \* in ticks of the clock
  MaxTime,     \* bound on the clock
  MaxFaults,   \* bound on failing queries, sends and starts
  MaxEvictions \* bound on the keys that Redis drops

Call == 1..MaxCalls
Kind == {"register", "password", "refresh", "mfa", "revoke", "check", "forgot", "reset"}

\* A request, with the call that issued the password, token or code it presents.
Request == [kind : Kind, name : Name \cup {Nobody}, of : 0..MaxCalls]
Uses(kind, k) == [kind |-> kind, name |-> Nobody, of |-> k]
About(kind, n, k) == [kind |-> kind, name |-> n, of |-> k]

SeedNames == {Seed[i] : i \in DOMAIN Seed}

ASSUME IdpAssumption ==
  /\ IsFiniteSet(Name) /\ Nobody \notin Name
  /\ Seed \in Seq(Name) \ {<<>>} /\ \A i, j \in DOMAIN Seed : Seed[i] = Seed[j] => i = j
  /\ WithMfa \subseteq Name \ SeedNames
  /\ Fresh \subseteq Scripts /\ \A s \in Scripts : s \in Seq(Request) /\ Len(s) <= MaxCalls
  /\ \A s \in Scripts : \A c \in DOMAIN s :
       /\ s[c].kind \in {"register", "password", "forgot", "reset"} => s[c].name \in Name
       /\ s[c].kind \in {"refresh", "mfa", "revoke", "check"} => s[c].of # 0
  /\ \A life \in {AccessLife, RefreshLife, MfaLife, ResetLife} : life \in Nat \ {0}
  /\ MaxCalls \in Nat /\ MaxTime \in Nat /\ MaxFaults \in Nat
  /\ MaxEvictions \in Nat

VARIABLES
  script, now, faults,
  evicted,    \* what Redis dropped before its time
  init,       \* where initDB is
  seeded,     \* sample users inserted by it
  clients,    \* the storefront is registered as a client
  row,        \* the credentials
  key,        \* until when a key is in Redis
  reset,      \* the reset codes in Redis
  stage,      \* which await each call is at
  got,        \* what it remembers from an earlier one
  issued,     \* when it issued what it issues
  result,     \* what its caller was answered
  spent,      \* requests that an answer has made void
  stale,      \* calls that began with such a request
  events,     \* the register events in user-service-topic
  handled,    \* those that the user service has taken
  dropped,    \* users whose event it failed to store
  users,      \* where its start is: the next sample user to save, or 0
  profile     \* its table

world == <<script, now, evicted, faults>>
idpVars == <<init, seeded, clients>>
callVars == <<stage, got, issued, result, spent, stale>>
stores == <<idpVars, row, key, reset>>
userVars == <<events, handled, dropped, users, profile>>
vars == <<world, stores, callVars, userVars>>

\* Refresh tokens, pending one-time codes, and revoked access tokens.
Key == {"refresh", "mfa", "blacklist"} \X Call
Stored == Key \cup ({"reset"} \X Call)   \* with the reset codes, by their calls
Id == 1..(Cardinality(Name) + Len(Seed))
Row == [id : {0} \cup Id, password : 0..MaxCalls]
Exists(n) == row[n].id # 0
Live(k) == now < key[k]
Latest == MaxTime + AccessLife + RefreshLife + MfaLife + ResetLife

TypeOK ==
  /\ script \in Scripts /\ now \in 0..MaxTime /\ faults \in 0..MaxFaults
  /\ evicted \subseteq Stored
  /\ init \in {"tables", "count", "seed", "clients", "done"}
  /\ seeded \in 0..Len(Seed) /\ clients \in BOOLEAN
  /\ row \in [Name -> Row]
  /\ key \in [Key -> 0..Latest]
  /\ reset \in [Name -> [code : 0..MaxCalls, until : 0..Latest]]
  /\ stage \in [Call -> {"idle", "client", "get", "insert", "send", "delete", "store",
                         "update", "done"}]
  /\ got \in [Call -> Nat]
  /\ issued \in [Call -> 0..MaxTime]
  /\ result \in [Call -> {"none", "ok", "challenge", "refused", "failed"}]
  /\ spent \subseteq Request /\ stale \subseteq Call
  /\ events \subseteq [id : Id, name : Name] /\ handled \subseteq events
  /\ dropped \subseteq Name
  /\ users \in 0..(Len(Seed) + 1)
  /\ profile \in [Id -> Name \cup {Nobody}]

Up == Len(Seed) + 1
Sample(n) == CHOOSE i \in DOMAIN Seed : Seed[i] = n

\* Services that start with empty tables, or that are up and have the samples.
Init ==
  /\ script \in Scripts /\ now = 0 /\ faults = 0 /\ evicted = {}
  /\ LET up == script \notin Fresh
     IN  /\ init = IF up THEN "done" ELSE "tables"
         /\ seeded = IF up THEN Len(Seed) ELSE 0
         /\ clients = up
         /\ row = [n \in Name |->
                     [id |-> IF up /\ n \in SeedNames THEN Sample(n) ELSE 0, password |-> 0]]
         /\ users = IF up THEN Up ELSE 0
         /\ profile = [i \in Id |-> IF up /\ i \in DOMAIN Seed THEN Seed[i] ELSE Nobody]
  /\ key = [k \in Key |-> 0]
  /\ reset = [n \in Name |-> [code |-> 0, until |-> 0]]
  /\ stage = [c \in Call |-> "idle"]
  /\ got = [c \in Call |-> 0]
  /\ issued = [c \in Call |-> 0]
  /\ result = [c \in Call |-> "none"]
  /\ spent = {} /\ stale = {}
  /\ events = {} /\ handled = {} /\ dropped = {}

Fault == faults < MaxFaults /\ faults' = faults + 1

\* Time passes; it matters to tokens and codes only.
Tick ==
  /\ script \notin Fresh
  /\ now < MaxTime
  /\ now' = now + 1
  /\ UNCHANGED <<script, evicted, faults, stores, callVars, userVars>>

\* Redis is full, or starts again empty: a key goes before it has expired.
Evicts(k) ==
  /\ Cardinality(evicted) < MaxEvictions
  /\ evicted' = evicted \cup {k}
  /\ UNCHANGED <<script, now, faults, idpVars, row, callVars, userVars>>

EvictKey(k) ==
  /\ Live(k)
  /\ key' = [key EXCEPT ![k] = 0]
  /\ Evicts(k)
  /\ UNCHANGED reset

EvictCode(n) ==
  /\ reset[n].code # 0 /\ now < reset[n].until
  /\ reset' = [reset EXCEPT ![n] = [code |-> 0, until |-> 0]]
  /\ Evicts(<<"reset", reset[n].code>>)
  /\ UNCHANGED key

Redis == (\E k \in Key : EvictKey(k)) \/ \E n \in Name : EvictCode(n)

-----------------------------------------------------------------------------
(* initDB: it goes round until it comes to its end, beside the first calls. *)

CreateTables ==
  /\ init = "tables"
  /\ init' = "count"
  /\ UNCHANGED <<world, seeded, clients, row, key, reset, callVars, userVars>>

CountCredentials ==
  /\ init = "count"
  /\ init' = IF \E n \in Name : Exists(n) THEN "clients" ELSE "seed"
  /\ seeded' = 0
  /\ UNCHANGED <<world, clients, row, key, reset, callVars, userVars>>

\* Mutant: a table whose user_id is not UNIQUE.
TakenByName(n, id) == Exists(n)

\* The table's constraints.
Taken(n, id) == Exists(n) \/ \E m \in Name : row[m].id = id

Inserts(n, id, password) == row' = [row EXCEPT ![n] = [id |-> id, password |-> password]]

\* A user or an id that a registration took meanwhile sends it round again.
SeedUser ==
  /\ init = "seed"
  /\ LET i == seeded + 1
     IN  IF Taken(Seed[i], i)
         THEN init' = "count" /\ UNCHANGED <<seeded, row>>
         ELSE /\ Inserts(Seed[i], i, 0)
              /\ seeded' = i
              /\ init' = IF i = Len(Seed) THEN "clients" ELSE "seed"
  /\ UNCHANGED <<world, clients, key, reset, callVars, userVars>>

SeedClients ==
  /\ init = "clients"
  /\ init' = "done"
  /\ clients' = TRUE
  /\ UNCHANGED <<world, seeded, row, key, reset, callVars, userVars>>

\* A query fails: what was done is done.
InitFails ==
  /\ init \in {"seed", "clients"}
  /\ Fault
  /\ init' = "count"
  /\ UNCHANGED <<script, now, evicted, seeded, clients, row, key, reset, callVars, userVars>>

InitDB == CreateTables \/ CountCredentials \/ SeedUser \/ SeedClients \/ InitFails

-----------------------------------------------------------------------------
(* What the calls have in common. *)

Of(c) == script[c].of
User(c) == script[c].name
At(c, kinds, where) == c \in DOMAIN script /\ script[c].kind \in kinds /\ stage[c] = where
Goes(c, where) == stage' = [stage EXCEPT ![c] = where]

\* It goes on, and has not answered.
Step(c, where) == Goes(c, where) /\ UNCHANGED <<result, spent>>

\* It answers, and that makes requests void.
Answer(c, outcome, void) ==
  /\ Goes(c, "done")
  /\ result' = [result EXCEPT ![c] = outcome]
  /\ spent' = spent \cup void

Remembers(c, value) == got' = [got EXCEPT ![c] = value]
Issues(c) == issued' = [issued EXCEPT ![c] = now]
SetEx(k, life) == key' = [key EXCEPT ![k] = now + life]
Del(k) == key' = [key EXCEPT ![k] = 0]
Expires(c) == issued[c] + AccessLife   \* the access token it issued

\* The caller has what the request presents.
Has(c) ==
  CASE script[c].kind \in {"register", "forgot"} -> TRUE
    [] script[c].kind = "mfa" -> result[Of(c)] = "challenge"
    [] OTHER -> Of(c) # 0 => result[Of(c)] = "ok"

Begins(c) ==
  /\ Has(c)
  /\ stale' = IF script[c] \in spent THEN stale \cup {c} ELSE stale
  /\ UNCHANGED <<world, stores, issued, userVars>>

\* The calls that ask PostgreSQL or Redis first, after a look at their body.
Begin(c) ==
  /\ \/ At(c, {"password", "refresh", "mfa"}, "idle") /\ Step(c, "client")
     \/ At(c, {"forgot", "reset"}, "idle") /\ Step(c, "get")
     \/ At(c, {"register"}, "idle") /\ Step(c, "insert")
  /\ Begins(c)
  /\ UNCHANGED got

\* A query, a send or a command fails, and a query does before there are tables.
CallFails(c) ==
  /\ stage[c] \notin {"idle", "done"}
  /\ \/ Fault
     \/ /\ init = "tables" /\ UNCHANGED faults
        /\ stage[c] \in {"client", "insert"} \/ At(c, {"forgot"}, "get")
  /\ Answer(c, "failed", {})
  /\ UNCHANGED <<script, now, evicted, stores, got, issued, stale, userVars>>

-----------------------------------------------------------------------------
(* /oauth/register *)

\* The INSERT's snapshot: the next id.
NextId(c) ==
  /\ At(c, {"register"}, "insert") /\ init # "tables"
  /\ \E n \in Name :
       (\A m \in Name : row[m].id <= row[n].id) /\ Remembers(c, row[n].id + 1)
  /\ Step(c, "store")
  /\ UNCHANGED <<world, stores, issued, stale, userVars>>

\* Its row: 409 for the name of another, 500 for an id.
InsertAccount(c) ==
  /\ At(c, {"register"}, "store")
  /\ IF Taken(User(c), got[c])
     THEN /\ Answer(c, IF Exists(User(c)) THEN "refused" ELSE "failed", {})
          /\ UNCHANGED row
     ELSE Inserts(User(c), got[c], c) /\ Step(c, "send")
  /\ UNCHANGED <<world, idpVars, key, reset, got, issued, stale, userVars>>

EventOf(c) == [id |-> got[c], name |-> User(c)]

SendEvent(c) ==
  /\ At(c, {"register"}, "send")
  /\ events' = events \cup {EventOf(c)}
  /\ Answer(c, "ok", {})
  /\ UNCHANGED <<world, stores, got, issued, stale, handled, dropped, users, profile>>

\* Mutant: the send is not waited for.
SendNotAwaited(c) ==
  /\ At(c, {"register"}, "send")
  /\ Fault
  /\ Answer(c, "ok", {})
  /\ UNCHANGED <<script, now, evicted, stores, got, issued, stale, userVars>>

\* The send rejects, though the broker may have the record: 500, with the row.
SendEventFails(c) ==
  /\ At(c, {"register"}, "send")
  /\ Fault
  /\ events' \in {events, events \cup {EventOf(c)}}
  /\ Answer(c, "failed", {})
  /\ UNCHANGED <<script, now, evicted, stores, got, issued, stale, handled, dropped, users, profile>>

Register(c) == NextId(c) \/ InsertAccount(c) \/ SendEvent(c) \/ SendEventFails(c)

-----------------------------------------------------------------------------
(* /oauth/token *)

CheckClient(c) ==
  /\ At(c, {"password", "refresh", "mfa"}, "client") /\ init # "tables"
  /\ IF clients THEN Step(c, "get") ELSE Answer(c, "refused", {})
  /\ UNCHANGED <<world, stores, got, issued, stale, userVars>>

\* The credentials and the comparison; without MFA the access token is signed.
Login(c) ==
  /\ At(c, {"password"}, "get")
  /\ IF Exists(User(c)) /\ row[User(c)].password = Of(c)
     THEN Step(c, "store") ELSE Answer(c, "refused", {})
  /\ Issues(c)
  /\ UNCHANGED <<world, stores, got, stale, userVars>>

Challenge(c) ==
  /\ At(c, {"password"}, "store") /\ User(c) \in WithMfa
  /\ SetEx(<<"mfa", c>>, MfaLife)
  /\ Issues(c)
  /\ Answer(c, "challenge", {})
  /\ UNCHANGED <<world, idpVars, row, reset, got, stale, userVars>>

\* The refresh token or the pending code that the call presents.
Presented(c) == <<script[c].kind, Of(c)>>

GetPresented(c) ==
  /\ At(c, {"refresh", "mfa"}, "get")
  /\ IF Live(Presented(c)) THEN Step(c, "delete") ELSE Answer(c, "refused", {})
  /\ UNCHANGED <<world, stores, got, issued, stale, userVars>>

\* Mutant: a code is not consumed.
ConsumeTokens(c) ==
  /\ At(c, {"refresh", "mfa"}, "delete")
  /\ IF script[c].kind = "refresh" THEN Del(Presented(c)) ELSE UNCHANGED key
  /\ Issues(c)
  /\ Step(c, "store")
  /\ UNCHANGED <<world, idpVars, row, reset, got, stale, userVars>>

Consume(c) ==
  /\ At(c, {"refresh", "mfa"}, "delete")
  /\ Del(Presented(c))
  /\ Issues(c)
  /\ Step(c, "store")
  /\ UNCHANGED <<world, idpVars, row, reset, got, stale, userVars>>

\* Mutant: the refresh token lives as long as the access token.
GrantBriefly(c) ==
  /\ At(c, {"password", "refresh", "mfa"}, "store")
  /\ script[c].kind = "password" => User(c) \notin WithMfa
  /\ SetEx(<<"refresh", c>>, AccessLife)
  /\ Answer(c, "ok", IF script[c].kind = "password" THEN {} ELSE {script[c]})
  /\ UNCHANGED <<world, idpVars, row, reset, got, issued, stale, userVars>>

\* The new refresh token is stored, and both tokens are answered.
Grant(c) ==
  /\ At(c, {"password", "refresh", "mfa"}, "store")
  /\ script[c].kind = "password" => User(c) \notin WithMfa
  /\ SetEx(<<"refresh", c>>, RefreshLife)
  /\ Answer(c, "ok", IF script[c].kind = "password" THEN {} ELSE {script[c]})
  /\ UNCHANGED <<world, idpVars, row, reset, got, issued, stale, userVars>>

Token(c) ==
  CheckClient(c) \/ Login(c) \/ Challenge(c) \/ GetPresented(c) \/ Consume(c) \/ Grant(c)

-----------------------------------------------------------------------------
(* /oauth/revoke, and the gateway's authenticateToken. *)

\* Mutant: an expired token is put on the list too.
RevokeAlways(c) ==
  /\ At(c, {"revoke"}, "idle")
  /\ Remembers(c, Expires(Of(c)) - now)
  /\ Step(c, "store")
  /\ Begins(c)

\* How long the token is still good; one that is not needs no entry.
Revoke(c) ==
  /\ At(c, {"revoke"}, "idle")
  /\ IF now < Expires(Of(c))
     THEN Remembers(c, Expires(Of(c)) - now) /\ Step(c, "store")
     ELSE Step(c, "delete") /\ UNCHANGED got
  /\ Begins(c)

Blacklist(c) ==
  /\ At(c, {"revoke"}, "store")
  /\ SetEx(<<"blacklist", Of(c)>>, got[c])
  /\ Step(c, "delete")
  /\ UNCHANGED <<world, idpVars, row, reset, got, issued, stale, userVars>>

\* The storefront sends its refresh token along.
RevokeRefresh(c) ==
  /\ At(c, {"revoke"}, "delete")
  /\ Del(<<"refresh", Of(c)>>)
  /\ Answer(c, "ok", {Uses("refresh", Of(c)), Uses("check", Of(c))})
  /\ UNCHANGED <<world, idpVars, row, reset, got, issued, stale, userVars>>

\* jwt.verify, then the list.
Verify(c) ==
  /\ At(c, {"check"}, "idle")
  /\ IF now < Expires(Of(c)) THEN Step(c, "get") ELSE Answer(c, "refused", {})
  /\ Begins(c)
  /\ UNCHANGED got

GetBlacklisted(c) ==
  /\ At(c, {"check"}, "get")
  /\ Answer(c, IF Live(<<"blacklist", Of(c)>>) THEN "refused" ELSE "ok", {})
  /\ UNCHANGED <<world, stores, got, issued, stale, userVars>>

Logout(c) ==
  Revoke(c) \/ Blacklist(c) \/ RevokeRefresh(c) \/ Verify(c) \/ GetBlacklisted(c)

-----------------------------------------------------------------------------
(* /oauth/password/forgot and /oauth/password/reset *)

\* No code for a name nobody has, though the answer reads the same.
FindUser(c) ==
  /\ At(c, {"forgot"}, "get") /\ init # "tables"
  /\ IF Exists(User(c)) THEN Step(c, "store") ELSE Answer(c, "refused", {})
  /\ UNCHANGED <<world, stores, got, issued, stale, userVars>>

\* The code replaces the user's earlier one.
StoreCode(c) ==
  /\ At(c, {"forgot"}, "store")
  /\ reset' = [reset EXCEPT ![User(c)] = [code |-> c, until |-> now + ResetLife]]
  /\ Issues(c)
  /\ Answer(c, "ok", {About("reset", User(c), reset[User(c)].code)})
  /\ UNCHANGED <<world, idpVars, row, key, got, stale, userVars>>

\* The code, and the hash of the new password.
GetCode(c) ==
  /\ At(c, {"reset"}, "get")
  /\ IF reset[User(c)].code = Of(c) /\ now < reset[User(c)].until
     THEN Step(c, "update") ELSE Answer(c, "refused", {})
  /\ UNCHANGED <<world, stores, got, issued, stale, userVars>>

UpdatePassword(c) ==
  /\ At(c, {"reset"}, "update")
  /\ Remembers(c, row[User(c)].password)
  /\ row' = [row EXCEPT ![User(c)].password = c]
  /\ Step(c, "delete")
  /\ UNCHANGED <<world, idpVars, key, reset, issued, stale, userVars>>

\* Whatever code the user has by now.
DeleteCode(c) ==
  /\ At(c, {"reset"}, "delete")
  /\ reset' = [reset EXCEPT ![User(c)] = [code |-> 0, until |-> 0]]
  /\ Answer(c, "ok", {script[c], About("password", User(c), got[c])})
  /\ UNCHANGED <<world, idpVars, row, key, got, issued, stale, userVars>>

Password(c) == FindUser(c) \/ StoreCode(c) \/ GetCode(c) \/ UpdatePassword(c) \/ DeleteCode(c)

-----------------------------------------------------------------------------
(* The user service. *)

\* loadData: the sample users, if the table is empty.
CountProfiles ==
  /\ users = 0
  /\ users' = IF \A i \in Id : profile[i] = Nobody THEN 1 ELSE Up
  /\ UNCHANGED <<world, stores, callVars, events, handled, dropped, profile>>

SaveSample ==
  /\ users \in 1..Len(Seed)
  /\ profile' = [profile EXCEPT ![users] = Seed[users]]
  /\ users' = users + 1
  /\ UNCHANGED <<world, stores, callVars, events, handled, dropped>>

UsersRestart ==
  /\ users # 0
  /\ Fault
  /\ users' = 0
  /\ UNCHANGED <<script, now, evicted, stores, callVars, events, handled, dropped, profile>>

\* createUser saves the event's user under its id, first or again.
CreateUser(e) ==
  /\ e \in events
  /\ profile' = [profile EXCEPT ![e.id] = e.name]
  /\ handled' = handled \cup {e}
  /\ UNCHANGED <<world, stores, callVars, events, dropped, users>>

\* It throws: dispatch logs it, and the record is done.
CreateUserFails(e) ==
  /\ e \in events \ handled
  /\ Fault
  /\ handled' = handled \cup {e}
  /\ dropped' = dropped \cup {e.name}
  /\ UNCHANGED <<script, now, evicted, stores, callVars, events, users, profile>>

Users ==
  \/ CountProfiles \/ SaveSample \/ UsersRestart
  \/ \E e \in events : CreateUser(e) \/ CreateUserFails(e)

-----------------------------------------------------------------------------
Next ==
  \/ Tick \/ Redis \/ InitDB \/ Users
  \/ \E c \in Call :
       Begin(c) \/ CallFails(c) \/ Register(c) \/ Token(c) \/ Logout(c) \/ Password(c)

\* The user service reads its topic.
Fairness ==
  \A e \in [id : Id, name : Name] : WF_vars(e \notin handled /\ CreateUser(e))

Spec == Init /\ [][Next]_vars /\ Fairness

-----------------------------------------------------------------------------
\* What an answer made void is refused to every call that begins after it: a
\* refresh token, a one-time code or a reset code that was used, a code or a
\* password that was replaced, a token that was revoked, through all the calls
\* that overlap, and whatever Redis drops but one thing.  A check may let a revoked
\* token pass that was good when it was verified and has expired when the list is
\* read, or whose entry in the list is what Redis dropped (index.js:229-401).
SpentRefused ==
  [][\A c \in stale : result'[c] \in {"ok", "challenge"} /\ result[c] = "none" =>
       /\ script[c].kind = "check"
       /\ now >= Expires(Of(c)) \/ <<"blacklist", Of(c)>> \in evicted]_vars

Begun(c, kinds) == script[c].kind \in kinds /\ stage[c] # "idle"

\* What a caller was handed works for its whole life: it is in Redis until then,
\* or until a call begins that uses it, or that replaces the code; unless Redis
\* itself dropped that very token or code.  (A reset that is under way with an
\* older code deletes a newer one.)
HandedOutIsKept ==
  \A c \in DOMAIN script :
    /\ result[c] = "ok" /\ script[c].kind \in {"password", "refresh", "mfa"} =>
         \/ Live(<<"refresh", c>>)
         \/ now >= issued[c] + RefreshLife
         \/ <<"refresh", c>> \in evicted
         \/ \E d \in DOMAIN script : Begun(d, {"refresh", "revoke"}) /\ Of(d) = c
    /\ result[c] = "challenge" =>
         \/ Live(<<"mfa", c>>)
         \/ now >= issued[c] + MfaLife
         \/ <<"mfa", c>> \in evicted
         \/ \E d \in DOMAIN script : Begun(d, {"mfa"}) /\ Of(d) = c
    /\ result[c] = "ok" /\ script[c].kind = "forgot" =>
         \/ reset[User(c)].code = c
         \/ <<"reset", c>> \in evicted
         \/ \E d \in DOMAIN script \ {c} : Begun(d, {"forgot", "reset"}) /\ User(d) = User(c)

\* Accounts do not share an id, however many register at once and beside the
\* seed, and nobody's profile is under the id of another: the events and the
\* profiles made of them are of accounts that exist (index.js:119-138).
AccountsOwned ==
  /\ \A m, n \in Name : Exists(m) /\ row[m].id = row[n].id => m = n
  /\ \A e \in events : row[e.name].id = e.id
  /\ \A i \in Id : \/ profile[i] = Nobody
                   \/ row[profile[i]].id = i
                   \/ i \in DOMAIN Seed /\ profile[i] = Seed[i]

Registered(c) ==
  /\ c \in DOMAIN script /\ script[c].kind = "register" /\ result[c] = "ok"
  /\ got[c] > Len(Seed)

Profiled(c) == \E i \in Id : got[c] = i /\ (User(c) \in dropped \/ profile[i] = User(c))

\* Who is told 201 has a profile in the end and keeps it, unless the user service
\* failed to store it; a user who registered before the samples were there has
\* the id of one, and may lose it to him.
AccountGetsProfile == \A c \in Call : Registered(c) ~> []Profiled(c)
=============================================================================

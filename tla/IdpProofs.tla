------------------------------ MODULE IdpProofs -----------------------------
(***************************************************************************)
(* Proofs about the accounts: for any names, scripts and bounds.           *)
(***************************************************************************)
EXTENDS Idp, FiniteSetTheorems, TLAPS

\* What the proof needs to know of the variables' types.
Typed ==
  /\ script \in Scripts
  /\ row \in [Name -> [id : Nat, password : Nat]]
  /\ DOMAIN stage = Call /\ DOMAIN got = Call
  /\ seeded \in Nat /\ (init = "seed" => seeded < Len(Seed))
  /\ profile \in [Id -> Name \cup {Nobody}]

Distinct == \A m, n \in Name : Exists(m) /\ row[m].id = row[n].id => m = n

EventsOwned == \A e \in events : e.name \in Name /\ Exists(e.name) /\ row[e.name].id = e.id

ProfilesOwned ==
  \A i \in Id : \/ profile[i] = Nobody
                \/ row[profile[i]].id = i
                \/ i \in DOMAIN Seed /\ profile[i] = Seed[i]

\* The id a registration read, and has: what its event will say.
Numbered(c) ==
  /\ At(c, {"register"}, "store") => got[c] \in Nat \ {0}
  /\ At(c, {"register"}, "send") => Exists(User(c)) /\ row[User(c)].id = got[c]

IInv == Typed /\ Distinct /\ EventsOwned /\ ProfilesOwned /\ \A c \in Call : Numbered(c)

\* Ids start at 1.
LEMMA Positive == Id \subseteq Nat \ {0}
  BY IdpAssumption, FS_CardinalityType DEF Id

\* The named calls are made for names.
LEMMA Names ==
  ASSUME script \in Scripts, NEW c \in DOMAIN script,
         script[c].kind \in {"register", "password", "forgot", "reset"}
  PROVE  User(c) \in Name
  BY IdpAssumption DEF User

-----------------------------------------------------------------------------
\* One call goes on: it has no number to keep, or what it has is as it was.
GoesOn(c) ==
  /\ \E where : Goes(c, where) /\ (script[c].kind = "register" => where \notin {"store", "send"})
  /\ got' = got \/ \E value : script[c].kind # "register" /\ Remembers(c, value)

\* Such a step leaves the numbers of all calls right.
LEMMA NumbersKept ==
  ASSUME IInv, NEW c \in Call, GoesOn(c),
         script' = script, Typed',
         \A n \in Name : Exists(n) => row'[n].id = row[n].id
  PROVE  \A d \in Call : Numbered(d)'
  <1>. TAKE d \in Call
  <1>1. script[d].kind = "register" =>
          /\ got'[d] = got[d]
          /\ d # c => stage'[d] = stage[d]
          /\ d = c => stage'[d] \notin {"store", "send"}
    BY DEF GoesOn, Goes, Remembers, IInv, Typed
  <1>2. d \in DOMAIN script /\ script[d].kind = "register" => User(d) \in Name /\ User(d)' = User(d)
    BY Names DEF IInv, Typed, User
  <1>. QED
    BY <1>1, <1>2 DEF IInv, Numbered, At, Exists

-----------------------------------------------------------------------------
\* A new row has a name and an id that no row had.
LEMMA InsertsKeep ==
  ASSUME IInv, NEW n \in Name, NEW id \in Nat \ {0}, NEW password \in Nat,
         ~Taken(n, id), Inserts(n, id, password), events' = events, profile' = profile
  PROVE  /\ row' \in [Name -> [id : Nat, password : Nat]]
         /\ \A m \in Name : Exists(m) => row'[m].id = row[m].id
         /\ row'[n].id = id
         /\ Distinct' /\ EventsOwned' /\ ProfilesOwned'
  <1>1. /\ row \in [Name -> [id : Nat, password : Nat]]
        /\ row' = [row EXCEPT ![n] = [id |-> id, password |-> password]]
    BY DEF IInv, Typed, Inserts
  <1>2. row' \in [Name -> [id : Nat, password : Nat]] /\ row'[n].id = id
    BY <1>1
  <1>3. \A m \in Name : m # n => row'[m] = row[m]
    BY <1>1
  <1>4. ~Exists(n) /\ \A m \in Name : row[m].id # id
    BY DEF Taken
  <1>5. Distinct'
    BY <1>2, <1>3, <1>4 DEF IInv, Distinct, Exists
  <1>6. EventsOwned'
    BY <1>3, <1>4 DEF IInv, EventsOwned, Exists
  <1>7. ProfilesOwned'
    <2>. SUFFICES ASSUME NEW i \in Id, profile[i] # Nobody, row[profile[i]].id = i
                  PROVE  row'[profile[i]].id = i
      BY DEF IInv, ProfilesOwned
    <2>1. profile[i] \in Name /\ Exists(profile[i])
      BY Positive DEF IInv, Typed, Exists
    <2>. QED
      BY <2>1, <1>3, <1>4
  <1>. QED
    BY <1>2, <1>3, <1>4, <1>5, <1>6, <1>7 DEF Exists

\* The seed inserts a row beside the calls, or leaves the table.
LEMMA SeedStep == ASSUME IInv, InitDB PROVE IInv'
  <1>0. UNCHANGED <<script, events, profile, stage, got>>
    BY DEF InitDB, CreateTables, CountCredentials, SeedUser, SeedClients, InitFails, world,
           callVars, userVars
  <1>1. CASE SeedUser /\ ~Taken(Seed[seeded + 1], seeded + 1)
    <2>1. seeded + 1 \in 1..Len(Seed) /\ Seed[seeded + 1] \in Name /\ Len(Seed) \in Nat
      BY <1>1, IdpAssumption DEF IInv, Typed, SeedUser
    <2>2. Inserts(Seed[seeded + 1], seeded + 1, 0) /\ seeded' = seeded + 1
          /\ init' = IF seeded + 1 = Len(Seed) THEN "clients" ELSE "seed"
      BY <1>1 DEF SeedUser
    <2>3. /\ row' \in [Name -> [id : Nat, password : Nat]]
          /\ \A m \in Name : Exists(m) => row'[m].id = row[m].id
          /\ Distinct' /\ EventsOwned' /\ ProfilesOwned'
      BY <1>0, <1>1, <2>1, <2>2, InsertsKeep DEF IInv, Typed
    <2>4. Typed'
      BY <1>0, <2>1, <2>2, <2>3 DEF IInv, Typed
    <2>5. \A c \in Call : Numbered(c)'
      BY <1>0, <2>3, Names DEF IInv, Typed, Numbered, At, User, Exists
    <2>. QED
      BY <2>3, <2>4, <2>5 DEF IInv
  <1>2. CASE row' = row
    <2>1. Typed'
      <3>0. Len(Seed) \in Nat \ {0}
        BY IdpAssumption
      <3>1. seeded' \in Nat /\ (init' = "seed" => seeded' < Len(Seed))
        BY <1>2, <3>0
        DEF InitDB, CreateTables, CountCredentials, SeedUser, SeedClients, InitFails, IInv, Typed
      <3>. QED
        BY <1>0, <1>2, <3>1 DEF IInv, Typed
    <2>. QED
      BY <1>0, <1>2, <2>1
      DEF IInv, Distinct, EventsOwned, ProfilesOwned, Numbered, At, User, Exists
  <1>. QED
    BY <1>1, <1>2
    DEF InitDB, CreateTables, CountCredentials, SeedUser, SeedClients, InitFails

-----------------------------------------------------------------------------
\* A call that goes on without a registration's number, and changes no row's id.
LEMMA CallStep ==
  ASSUME IInv, NEW c \in Call, GoesOn(c),
         UNCHANGED <<script, init, seeded, events, profile>>,
         row' \in [Name -> [id : Nat, password : Nat]],
         \A n \in Name : row'[n].id = row[n].id
  PROVE  IInv'
  <1>1. Typed'
    BY DEF IInv, Typed, GoesOn, Goes, Remembers
  <1>2. \A d \in Call : Numbered(d)'
    BY <1>1, NumbersKept
  <1>3. Distinct' /\ EventsOwned'
    BY DEF IInv, Distinct, EventsOwned, Exists
  <1>4. ProfilesOwned'
    BY DEF IInv, Typed, ProfilesOwned
  <1>. QED
    BY <1>1, <1>2, <1>3, <1>4 DEF IInv

\* The three steps of a registration that have to do with its number.
LEMMA RegisterStep == ASSUME IInv, NEW c \in Call, Register(c) PROVE IInv'
  <1>0. /\ UNCHANGED <<script, init, seeded, profile>> /\ c \in DOMAIN script
        /\ script[c].kind = "register" /\ User(c) \in Name /\ User(c)' = User(c)
    <2>1. /\ UNCHANGED <<script, init, seeded, profile>> /\ c \in DOMAIN script
          /\ script[c].kind = "register"
      BY DEF Register, NextId, InsertAccount, SendEvent, SendEventFails, At, world, stores, idpVars,
             userVars
    <2>. QED
      BY <2>1, Names DEF IInv, Typed, User
  <1>1. CASE NextId(c)
    <2>1. PICK n \in Name : Remembers(c, row[n].id + 1)
      BY <1>1 DEF NextId
    <2>2. UNCHANGED <<row, events>> /\ Goes(c, "store")
      BY <1>1 DEF NextId, stores, userVars, Step
    <2>3. got'[c] \in Nat \ {0} /\ \A d \in Call : d # c => got'[d] = got[d] /\ stage'[d] = stage[d]
      BY <2>1, <2>2 DEF Remembers, Goes, IInv, Typed
    <2>4. Typed' /\ stage'[c] = "store"
      BY <1>0, <2>1, <2>2 DEF Remembers, Goes, IInv, Typed
    <2>. QED
      BY <1>0, <2>2, <2>3, <2>4
      DEF IInv, Distinct, EventsOwned, ProfilesOwned, Numbered, At, User, Exists
  <1>2. CASE InsertAccount(c)
    <2>0. UNCHANGED <<events, got>>
      BY <1>2 DEF InsertAccount, userVars
    <2>1. CASE Taken(User(c), got[c])
      <3>1. row' = row /\ GoesOn(c)
        BY <1>2, <2>0, <2>1 DEF InsertAccount, Answer, Goes, GoesOn
      <3>. QED
        BY <1>0, <2>0, <3>1, CallStep DEF IInv, Typed
    <2>2. CASE ~Taken(User(c), got[c])
      <3>1. Inserts(User(c), got[c], c) /\ Goes(c, "send")
        BY <1>2, <2>2 DEF InsertAccount, Step
      <3>2. got[c] \in Nat \ {0} /\ c \in Nat
        BY <1>2, IdpAssumption DEF InsertAccount, IInv, Numbered, Call
      <3>3. /\ row' \in [Name -> [id : Nat, password : Nat]]
            /\ \A m \in Name : Exists(m) => row'[m].id = row[m].id
            /\ row'[User(c)].id = got[c]
            /\ Distinct' /\ EventsOwned' /\ ProfilesOwned'
        BY <1>0, <2>0, <2>2, <3>1, <3>2, InsertsKeep
      <3>4. /\ Typed' /\ stage'[c] = "send"
            /\ \A d \in Call : d # c => stage'[d] = stage[d]
        BY <1>0, <2>0, <3>1, <3>3 DEF IInv, Typed, Goes
      <3>5. ASSUME NEW d \in Call PROVE Numbered(d)'
        <4>1. CASE d = c
          BY <1>0, <2>0, <3>2, <3>3, <3>4, <4>1 DEF Numbered, At, Exists
        <4>2. CASE d # c
          BY <1>0, <2>0, <3>3, <3>4, <4>2, Names DEF IInv, Typed, Numbered, At, User, Exists
        <4>. QED
          BY <4>1, <4>2
      <3>. QED
        BY <3>3, <3>4, <3>5 DEF IInv
    <2>. QED
      BY <2>1, <2>2
  <1>3. CASE SendEvent(c) \/ SendEventFails(c)
    <2>1. /\ row' = row /\ got' = got /\ events' \subseteq events \cup {EventOf(c)}
          /\ Goes(c, "done") /\ At(c, {"register"}, "send")
      BY <1>3 DEF SendEvent, SendEventFails, Answer, stores
    <2>2. Exists(User(c)) /\ row[User(c)].id = got[c]
      BY <2>1 DEF IInv, Numbered
    <2>3. EventsOwned'
      BY <1>0, <2>1, <2>2 DEF IInv, EventsOwned, EventOf, Exists
    <2>4. Typed'
      BY <1>0, <2>1 DEF IInv, Typed, Goes
    <2>5. GoesOn(c)
      BY <2>1 DEF GoesOn
    <2>6. \A d \in Call : Numbered(d)'
      BY <1>0, <2>1, <2>4, <2>5, NumbersKept
    <2>. QED
      BY <1>0, <2>1, <2>3, <2>4, <2>6 DEF IInv, Distinct, ProfilesOwned, Exists
  <1>. QED
    BY <1>1, <1>2, <1>3 DEF Register

\* The other steps of the calls.
LEMMA OtherCallStep ==
  ASSUME IInv, NEW c \in Call,
         Begin(c) \/ CallFails(c) \/ Token(c) \/ Logout(c) \/ Password(c)
  PROVE  IInv'
  <1>1. /\ GoesOn(c)
        /\ UNCHANGED <<script, init, seeded, events, profile>>
    <2>1. CASE Begin(c)
      <3>1. Goes(c, "client") \/ Goes(c, "get") \/ Goes(c, "insert")
        BY <2>1 DEF Begin, Step
      <3>2. got' = got /\ UNCHANGED <<script, init, seeded, events, profile>>
        BY <2>1 DEF Begin, Begins, world, stores, idpVars, userVars
      <3>. QED
        BY <3>1, <3>2 DEF GoesOn
    <2>2. CASE CallFails(c)
      BY <2>2 DEF CallFails, Answer, GoesOn, stores, idpVars, userVars
    <2>3. CASE Token(c)
      BY <2>3 DEF Token, CheckClient, Login, Challenge, GetPresented, Consume, Grant, At, Step,
                  Answer, Goes, GoesOn, world, stores, idpVars, userVars
    <2>4. CASE Logout(c)
      BY <2>4 DEF Logout, Revoke, Blacklist, RevokeRefresh, Verify, GetBlacklisted, Begins, At, Step,
                  Answer, Goes, GoesOn, world, stores, idpVars, userVars
    <2>5. CASE Password(c)
      BY <2>5 DEF Password, FindUser, StoreCode, GetCode, UpdatePassword, DeleteCode, At, Step,
                  Answer, Goes, GoesOn, world, idpVars, stores, userVars
    <2>. QED
      BY <2>1, <2>2, <2>3, <2>4, <2>5
  <1>2. /\ row' \in [Name -> [id : Nat, password : Nat]]
        /\ \A n \in Name : row'[n].id = row[n].id
    <2>0. row \in [Name -> [id : Nat, password : Nat]]
      BY DEF IInv, Typed
    <2>1. CASE UpdatePassword(c)
      <3>1. row' = [row EXCEPT ![User(c)].password = c] /\ c \in Nat
        BY <2>1, IdpAssumption DEF UpdatePassword, Call
      <3>. QED
        BY <2>0, <3>1
    <2>2. CASE ~UpdatePassword(c)
      <3>1. row' = row
        BY <2>2 DEF Begin, Begins, CallFails, Token, CheckClient, Login, Challenge, GetPresented,
             Consume, Grant, Logout, Revoke, Blacklist, RevokeRefresh, Verify, GetBlacklisted,
             Password, FindUser, StoreCode, GetCode, DeleteCode, stores
      <3>. QED
        BY <2>0, <3>1
    <2>. QED
      BY <2>1, <2>2
  <1>. QED
    BY <1>1, <1>2, CallStep

\* The user service saves its samples, and users under the ids of their rows.
LEMMA UsersStep == ASSUME IInv, Users PROVE IInv'
  <1>0. UNCHANGED <<script, init, seeded, row, events, stage, got>>
    BY DEF Users, CountProfiles, SaveSample, UsersRestart, CreateUser, CreateUserFails, world,
           stores, idpVars, callVars
  <1>1. profile' \in [Id -> Name \cup {Nobody}] /\ ProfilesOwned'
    <2>0. profile \in [Id -> Name \cup {Nobody}]
      BY DEF IInv, Typed
    <2>1. CASE SaveSample
      <3>1. /\ profile' = [profile EXCEPT ![users] = Seed[users]]
            /\ users \in DOMAIN Seed /\ Seed[users] \in Name
        BY <2>1, IdpAssumption DEF SaveSample
      <3>. QED
        BY <1>0, <2>0, <3>1 DEF IInv, ProfilesOwned
    <2>2. ASSUME NEW e \in events, CreateUser(e)
          PROVE  profile' \in [Id -> Name \cup {Nobody}] /\ ProfilesOwned'
      <3>1. profile' = [profile EXCEPT ![e.id] = e.name] /\ e.name \in Name /\ row[e.name].id = e.id
        BY <2>2 DEF CreateUser, IInv, EventsOwned
      <3>. QED
        BY <1>0, <2>0, <3>1 DEF IInv, ProfilesOwned
    <2>3. CASE profile' = profile
      BY <1>0, <2>0, <2>3 DEF IInv, ProfilesOwned
    <2>. QED
      BY <2>1, <2>2, <2>3 DEF Users, CountProfiles, UsersRestart, CreateUserFails
  <1>. QED
    BY <1>0, <1>1 DEF IInv, Typed, Distinct, EventsOwned, Numbered, At, User, Exists

-----------------------------------------------------------------------------
\* No account, no event; the profiles of the samples, if the services are up.
LEMMA InitInv == Init => IInv
  <1>. SUFFICES ASSUME Init PROVE IInv
    OBVIOUS
  <1>0. /\ \A n \in SeedNames : Sample(n) \in DOMAIN Seed /\ Seed[Sample(n)] = n
        /\ SeedNames \subseteq Name /\ DOMAIN Seed \subseteq Nat \ {0}
        /\ \A i \in DOMAIN Seed : Seed[i] \in Name
    BY IdpAssumption DEF SeedNames, Sample
  <1>1. /\ row \in [Name -> [id : Nat, password : Nat]]
        /\ \A n \in Name : Exists(n) => n \in SeedNames /\ row[n].id = Sample(n)
    BY <1>0 DEF Init, Exists
  <1>2. profile \in [Id -> Name \cup {Nobody}] /\ ProfilesOwned
    BY <1>0 DEF Init, ProfilesOwned
  <1>3. Distinct
    BY <1>0, <1>1 DEF Distinct, Exists
  <1>4. Typed
    BY <1>1, <1>2, IdpAssumption DEF Init, Typed
  <1>5. EventsOwned /\ \A c \in Call : Numbered(c)
    BY DEF Init, EventsOwned, Numbered, At
  <1>. QED
    BY <1>2, <1>3, <1>4, <1>5 DEF IInv

\* Every step preserves the invariant.
LEMMA StepInv == IInv /\ [Next]_vars => IInv'
  <1>. SUFFICES ASSUME IInv, [Next]_vars PROVE IInv'
    OBVIOUS
  <1>1. CASE Tick \/ Redis \/ UNCHANGED vars
    <2>1. UNCHANGED <<script, init, seeded, row, events, profile, stage, got>>
      BY <1>1 DEF Tick, Redis, EvictKey, EvictCode, Evicts, vars, world, stores, idpVars, callVars,
                  userVars
    <2>. QED
      BY <2>1 DEF IInv, Typed, Distinct, EventsOwned, ProfilesOwned, Numbered, At, User, Exists
  <1>. QED
    BY <1>1, SeedStep, UsersStep, RegisterStep, OtherCallStep DEF Next

\* It holds of every state.
LEMMA Invariance == Spec => []IInv
  BY InitInv, StepInv, PTL DEF Spec

\* Ids are nobody else's, whatever registers beside whatever, and events and
\* profiles are of accounts that exist (index.js:119-138).
THEOREM OwnersKept == Spec => []AccountsOwned
  <1>1. IInv => AccountsOwned
    BY DEF IInv, Typed, Distinct, EventsOwned, ProfilesOwned, AccountsOwned
  <1>. QED
    BY <1>1, Invariance, PTL

-----------------------------------------------------------------------------
\* The types, in the parts that different steps change.
WorldTyped ==
  /\ script \in Scripts /\ now \in 0..MaxTime /\ faults \in 0..MaxFaults
  /\ evicted \subseteq Stored

StoresTyped ==
  /\ init \in {"tables", "count", "seed", "clients", "done"}
  /\ seeded \in 0..Len(Seed) /\ clients \in BOOLEAN
  /\ row \in [Name -> Row]
  /\ key \in [Key -> 0..Latest]
  /\ reset \in [Name -> [code : 0..MaxCalls, until : 0..Latest]]

CallsTyped ==
  /\ stage \in [Call -> {"idle", "client", "get", "insert", "send", "delete", "store",
                         "update", "done"}]
  /\ got \in [Call -> Nat]
  /\ issued \in [Call -> 0..MaxTime]
  /\ result \in [Call -> {"none", "ok", "challenge", "refused", "failed"}]
  /\ spent \subseteq Request /\ stale \subseteq Call

UsersTyped ==
  /\ events \subseteq [id : Id, name : Name] /\ handled \subseteq events
  /\ dropped \subseteq Name
  /\ users \in 0..(Len(Seed) + 1)
  /\ profile \in [Id -> Name \cup {Nobody}]

\* No id is above the samples' by more than there are rows, so that every id is
\* one of Id: a registration reads the highest, and inserts the next.
Rows == {n \in Name : Exists(n)}
Highest == Len(Seed) + Cardinality(Rows)

IdsBounded ==
  /\ \A n \in Name : row[n].id <= Highest
  /\ \A c \in Call : At(c, {"register"}, "store") => got[c] <= Highest + 1

\* Nothing is issued in the future, no token has longer to live than a new one, and
\* the password that a reset replaces was some call's, or a sample user's.
GotSound ==
  \A c \in Call : /\ issued[c] <= now
                  /\ At(c, {"revoke"}, "store") => got[c] <= AccessLife
                  /\ At(c, {"reset"}, "delete") => got[c] \in 0..MaxCalls

TypeInv == WorldTyped /\ StoresTyped /\ CallsTyped /\ UsersTyped /\ IdsBounded /\ GotSound

\* The calls are numbers, and so is what they present.
LEMMA Calls ==
  ASSUME script \in Scripts
  PROVE  /\ DOMAIN script \subseteq Call
         /\ Call \subseteq Nat \ {0} /\ MaxCalls \in Nat
         /\ \A c \in DOMAIN script :
              /\ script[c] \in Request
              /\ Of(c) \in 0..MaxCalls
              /\ script[c].kind \in {"refresh", "mfa", "revoke", "check"} => Of(c) \in Call
  <1>1. /\ script \in Seq(Request) /\ Len(script) <= MaxCalls /\ MaxCalls \in Nat
        /\ DOMAIN script = 1..Len(script) /\ Len(script) \in Nat
    BY IdpAssumption
  <1>2. DOMAIN script \subseteq Call /\ Call \subseteq Nat \ {0}
    BY <1>1 DEF Call
  <1>3. ASSUME NEW c \in DOMAIN script
        PROVE  /\ script[c] \in Request /\ Of(c) \in 0..MaxCalls
               /\ script[c].kind \in {"refresh", "mfa", "revoke", "check"} => Of(c) \in Call
    <2>1. script[c] \in Request
      BY <1>1, <1>3
    <2>2. Of(c) \in 0..MaxCalls
      BY <2>1 DEF Request, Of
    <2>. QED
      BY <1>1, <1>3, <2>1, <2>2, IdpAssumption DEF Of, Call
  <1>. QED
    BY <1>1, <1>2, <1>3

\* The bounds on time.
LEMMA Lives ==
  /\ AccessLife \in Nat \ {0} /\ RefreshLife \in Nat \ {0}
  /\ MfaLife \in Nat \ {0} /\ ResetLife \in Nat \ {0}
  /\ MaxTime \in Nat /\ Latest \in Nat /\ MaxFaults \in Nat
  /\ \A t \in 0..MaxTime, life \in Nat :
       life <= AccessLife \/ life \in {RefreshLife, MfaLife, ResetLife} => t + life \in 0..Latest
  <1>1. /\ AccessLife \in Nat \ {0} /\ RefreshLife \in Nat \ {0}
        /\ MfaLife \in Nat \ {0} /\ ResetLife \in Nat \ {0}
        /\ MaxTime \in Nat /\ MaxFaults \in Nat
    BY IdpAssumption
  <1>. QED
    BY <1>1 DEF Latest

\* The ids: there are rows enough.
LEMMA Numbers ==
  /\ Cardinality(Rows) \in Nat /\ Cardinality(Rows) <= Cardinality(Name)
  /\ Cardinality(Name) \in Nat /\ Len(Seed) \in Nat \ {0}
  /\ Rows \subseteq Name /\ IsFiniteSet(Rows)
  /\ Highest \in Nat
  /\ \A i \in 1..Highest : i \in Id
  <1>1. Rows \subseteq Name /\ IsFiniteSet(Name)
    BY IdpAssumption DEF Rows
  <1>2. IsFiniteSet(Rows) /\ Cardinality(Rows) <= Cardinality(Name)
    BY <1>1, FS_Subset
  <1>3. Cardinality(Rows) \in Nat /\ Cardinality(Name) \in Nat
    BY <1>1, <1>2, FS_CardinalityType
  <1>4. Len(Seed) \in Nat \ {0}
    BY IdpAssumption
  <1>. QED
    BY <1>1, <1>2, <1>3, <1>4 DEF Highest, Id

\* Rows stay, and a new one makes room for the next id.
LEMMA HighestGrows ==
  /\ Highest' \in Nat /\ \A i \in 1..Highest' : i \in Id
  /\ (\A n \in Name : Exists(n) => Exists(n)') => Highest <= Highest'
  /\ \A m \in Name :
       (\A n \in Name : Exists(n) => Exists(n)') /\ ~Exists(m) /\ Exists(m)'
         => Highest + 1 <= Highest'
  <1>1. /\ IsFiniteSet(Rows') /\ Cardinality(Rows)' \in Nat
        /\ Cardinality(Rows)' <= Cardinality(Name)
    <2>1. Rows' \subseteq Name /\ IsFiniteSet(Name)
      BY IdpAssumption DEF Rows
    <2>. QED
      BY <2>1, FS_Subset, FS_CardinalityType
  <1>2. ASSUME \A n \in Name : Exists(n) => Exists(n)'
        PROVE  Cardinality(Rows) <= Cardinality(Rows)'
    <2>1. Rows \subseteq Rows'
      BY <1>2 DEF Rows
    <2>. QED
      BY <1>1, <2>1, FS_Subset
  <1>3. ASSUME \A n \in Name : Exists(n) => Exists(n)', NEW m \in Name, ~Exists(m), Exists(m)'
        PROVE  Cardinality(Rows) + 1 <= Cardinality(Rows)'
    <2>1. Rows \cup {m} \subseteq Rows' /\ m \notin Rows
      BY <1>3 DEF Rows
    <2>2. Cardinality(Rows \cup {m}) = Cardinality(Rows) + 1
      BY <2>1, Numbers, FS_AddElement
    <2>3. Cardinality(Rows \cup {m}) <= Cardinality(Rows)'
      BY <1>1, <2>1, FS_Subset
    <2>. QED
      BY <2>2, <2>3
  <1>. QED
    BY <1>1, <1>2, <1>3, Numbers DEF Highest, Id

-----------------------------------------------------------------------------
\* What every step of a call has in common: the call goes on, the others do not, and
\* an answer is its last step.
Runs(c) == Begin(c) \/ CallFails(c) \/ Register(c) \/ Token(c) \/ Logout(c) \/ Password(c)

Where == {"client", "get", "insert", "send", "delete", "store", "update", "done"}
Outcome == {"ok", "challenge", "refused", "failed"}

\* A step of a call moves it alone.
LEMMA OneCall ==
  ASSUME CallsTyped, NEW c \in Call, Runs(c)
  PROVE  /\ stage[c] # "done"
         /\ stage[c] = "idle" => c \in DOMAIN script
         /\ \E where \in Where : Goes(c, where)
         /\ \/ result' = result
            \/ Goes(c, "done") /\ \E outcome \in Outcome : result' = [result EXCEPT ![c] = outcome]
         /\ issued' = issued \/ Issues(c)
         /\ got' = got \/ \E value : Remembers(c, value)
         /\ UNCHANGED <<script, now, evicted, idpVars, handled, dropped, users, profile>>
  <1>1. CASE Begin(c)
    BY <1>1 DEF Begin, Begins, At, Step, world, stores, userVars, Where
  <1>2. CASE CallFails(c)
    BY <1>2 DEF CallFails, Answer, stores, userVars, Where, Outcome
  <1>3. CASE Register(c)
    BY <1>3 DEF Register, NextId, InsertAccount, SendEvent, SendEventFails, At, Step, Answer,
                world, stores, userVars, Where, Outcome
  <1>4. CASE Token(c)
    BY <1>4 DEF Token, CheckClient, Login, Challenge, GetPresented, Consume, Grant, At, Step, Answer,
                world, stores, userVars, Where, Outcome
  <1>5. CASE Logout(c)
    BY <1>5 DEF Logout, Revoke, Blacklist, RevokeRefresh, Verify, GetBlacklisted, Begins, At, Step,
                Answer, world, stores, userVars, Where, Outcome
  <1>6. CASE Password(c)
    BY <1>6 DEF Password, FindUser, StoreCode, GetCode, UpdatePassword, DeleteCode, At, Step, Answer,
                world, stores, userVars, Where, Outcome
  <1>. QED
    BY <1>1, <1>2, <1>3, <1>4, <1>5, <1>6 DEF Runs

\* The same, call by call.
LEMMA CallByCall ==
  ASSUME CallsTyped, NEW c \in Call, Runs(c)
  PROVE  /\ stage' \in [Call -> {"idle"} \cup Where] /\ stage'[c] # "idle"
         /\ result' \in [Call -> {"none"} \cup Outcome]
         /\ result'[c] # result[c] => stage'[c] = "done"
         /\ \A d \in Call : d # c => /\ stage'[d] = stage[d] /\ result'[d] = result[d]
                                     /\ issued'[d] = issued[d] /\ got'[d] = got[d]
         /\ DOMAIN issued' = Call /\ DOMAIN got' = Call
         /\ issued'[c] \in {issued[c], now}
  <1>1. PICK where \in Where : Goes(c, where)
    BY OneCall
  <1>2. /\ stage' \in [Call -> {"idle"} \cup Where] /\ stage'[c] = where
        /\ \A d \in Call : d # c => stage'[d] = stage[d]
    BY <1>1 DEF CallsTyped, Goes, Where
  <1>3. /\ result' \in [Call -> {"none"} \cup Outcome]
        /\ result'[c] # result[c] => stage'[c] = "done"
        /\ \A d \in Call : d # c => result'[d] = result[d]
    <2>1. CASE result' = result
      BY <2>1 DEF CallsTyped, Outcome
    <2>2. ASSUME Goes(c, "done"), NEW outcome \in Outcome, result' = [result EXCEPT ![c] = outcome]
          PROVE  /\ result' \in [Call -> {"none"} \cup Outcome]
                 /\ stage'[c] = "done"
                 /\ \A d \in Call : d # c => result'[d] = result[d]
      BY <2>2 DEF CallsTyped, Outcome, Goes
    <2>. QED
      BY <2>1, <2>2, OneCall
  <1>4. /\ DOMAIN issued' = Call /\ issued'[c] \in {issued[c], now}
        /\ \A d \in Call : d # c => issued'[d] = issued[d]
    BY OneCall DEF CallsTyped, Issues
  <1>5. /\ DOMAIN got' = Call /\ \A d \in Call : d # c => got'[d] = got[d]
    BY OneCall DEF CallsTyped, Remembers
  <1>. QED
    BY <1>1, <1>2, <1>3, <1>4, <1>5 DEF Where

\* What a call remembers.
LEMMA GotStep ==
  ASSUME IInv, TypeInv, NEW c \in Call, Runs(c)
  PROVE  GotSound' /\ CallsTyped'
  <1>0. /\ CallsTyped /\ script \in Scripts /\ now \in 0..MaxTime /\ GotSound
        /\ now \in Int /\ MaxTime \in Nat
    BY Lives DEF TypeInv, WorldTyped
  <1>1. /\ got'[c] \in Nat
        /\ At(c, {"revoke"}, "store")' => got'[c] <= AccessLife
        /\ At(c, {"reset"}, "delete")' => got'[c] \in 0..MaxCalls
    <2>0. /\ stage[c] # "done" /\ UNCHANGED script /\ got[c] \in Nat
          /\ \E where \in Where : stage' = [stage EXCEPT ![c] = where]
      BY <1>0, OneCall DEF CallsTyped, Goes
    <2>1. CASE NextId(c)
      <3>1. PICK n \in Name : Remembers(c, row[n].id + 1)
        BY <2>1 DEF NextId
      <3>2. got'[c] = row[n].id + 1 /\ row[n].id \in Nat
        BY <1>0, <3>1 DEF Remembers, CallsTyped, IInv, Typed
      <3>. QED
        BY <2>0, <2>1, <3>2 DEF NextId, At
    <2>2. CASE Revoke(c)
      <3>1. Of(c) \in Call /\ script[c].kind = "revoke"
        BY <1>0, <2>2, Calls DEF Revoke, At
      <3>2. issued[Of(c)] \in Int /\ issued[Of(c)] <= now
        BY <1>0, <3>1 DEF GotSound, CallsTyped
      <3>3. CASE now < Expires(Of(c))
        <4>0. got' = [got EXCEPT ![c] = Expires(Of(c)) - now]
          BY <2>2, <3>3 DEF Revoke, Remembers
        <4>1. got'[c] = Expires(Of(c)) - now
          BY <1>0, <4>0 DEF CallsTyped
        <4>2. got'[c] \in Nat /\ got'[c] <= AccessLife
          BY <1>0, <3>2, <3>3, <4>1, Lives DEF Expires
        <4>. QED
          BY <2>0, <3>1, <4>2 DEF At
      <3>4. CASE ~(now < Expires(Of(c)))
        <4>1. got' = got /\ stage'[c] = "delete"
          BY <1>0, <2>2, <3>4 DEF Revoke, Step, Goes, CallsTyped
        <4>. QED
          BY <2>0, <3>1, <4>1 DEF At
      <3>. QED
        BY <3>3, <3>4
    <2>3. CASE UpdatePassword(c)
      <3>1. User(c) \in Name /\ script[c].kind = "reset"
        BY <1>0, <2>3, Names DEF UpdatePassword, At
      <3>2. row[User(c)].password \in 0..MaxCalls /\ MaxCalls \in Nat
        BY <1>0, <3>1, Calls DEF TypeInv, StoresTyped, Row
      <3>3. got'[c] = row[User(c)].password
        BY <1>0, <2>3 DEF UpdatePassword, Remembers, CallsTyped
      <3>. QED
        BY <2>0, <3>1, <3>2, <3>3 DEF At
    <2>4. CASE ~(NextId(c) \/ Revoke(c) \/ UpdatePassword(c))
      <3>1. got' = got
        BY <2>4 DEF Runs, Begin, CallFails, Register, InsertAccount, SendEvent, SendEventFails,
           Token, CheckClient, Login, Challenge, GetPresented, Consume, Grant, Logout, Blacklist,
           RevokeRefresh, Verify, GetBlacklisted, Password, FindUser, StoreCode, GetCode, DeleteCode
      <3>2. /\ script[c].kind = "revoke" => stage'[c] # "store"
            /\ script[c].kind = "reset" => stage'[c] # "delete"
        BY <1>0, <2>4 DEF Runs, Begin, CallFails, Register, InsertAccount, SendEvent, SendEventFails,
           Token, CheckClient, Login, Challenge, GetPresented, Consume, Grant, Logout, Blacklist,
           RevokeRefresh, Verify, GetBlacklisted, Password, FindUser, StoreCode, GetCode, DeleteCode,
           At, Step, Answer, Goes, CallsTyped
      <3>. QED
        BY <2>0, <3>1, <3>2 DEF At
    <2>. QED
      BY <2>1, <2>2, <2>3, <2>4
  <1>2. /\ \A d \in Call : d # c => /\ stage'[d] = stage[d] /\ got'[d] = got[d]
                                    /\ issued'[d] = issued[d]
        /\ UNCHANGED <<script, now, evicted>>
        /\ issued'[c] \in {issued[c], now}
    BY <1>0, OneCall, CallByCall
  <1>3. GotSound'
    <2>. SUFFICES ASSUME NEW d \in Call
                  PROVE  /\ issued'[d] <= now'
                         /\ At(d, {"revoke"}, "store")' => got'[d] <= AccessLife
                         /\ At(d, {"reset"}, "delete")' => got'[d] \in 0..MaxCalls
      BY DEF GotSound
    <2>1. CASE d = c
      BY <1>0, <1>1, <1>2, <2>1 DEF GotSound
    <2>2. CASE d # c
      BY <1>0, <1>2, <2>2 DEF GotSound, At
    <2>. QED
      BY <2>1, <2>2
  <1>4. got' \in [Call -> Nat]
    BY <1>0, <1>1, <1>2, OneCall DEF Remembers, CallsTyped
  <1>5. issued' \in [Call -> 0..MaxTime]
    BY <1>0, OneCall DEF Issues, CallsTyped
  <1>6. stale' \subseteq Call
    BY <1>0 DEF Runs, Begin, Begins, CallFails, Register, NextId, InsertAccount, SendEvent,
       SendEventFails, Token, CheckClient, Login, Challenge, GetPresented, Consume, Grant, Logout,
       Revoke, Blacklist, RevokeRefresh, Verify, GetBlacklisted, Password, FindUser, StoreCode,
       GetCode, UpdatePassword, DeleteCode, CallsTyped
  <1>7. spent' \subseteq Request
    <2>0. spent \subseteq Request /\ Call \subseteq 0..MaxCalls /\ "refresh" \in Kind
          /\ {"check", "reset", "password"} \subseteq Kind
      BY <1>0, Calls DEF CallsTyped, Kind, Call
    <2>1. CASE Grant(c)
      BY <1>0, <2>0, <2>1, Calls DEF Grant, Answer, At
    <2>2. CASE RevokeRefresh(c)
      <3>1. Of(c) \in 0..MaxCalls
        BY <1>0, <2>2, Calls DEF RevokeRefresh, At
      <3>2. Uses("refresh", Of(c)) \in Request /\ Uses("check", Of(c)) \in Request
        BY <2>0, <3>1 DEF Uses, Request
      <3>. QED
        BY <2>0, <2>2, <3>2 DEF RevokeRefresh, Answer
    <2>3. CASE StoreCode(c)
      <3>1. User(c) \in Name
        BY <1>0, <2>3, Names DEF StoreCode, At
      <3>2. reset[User(c)].code \in 0..MaxCalls
        BY <3>1 DEF TypeInv, StoresTyped
      <3>3. About("reset", User(c), reset[User(c)].code) \in Request
        BY <2>0, <3>1, <3>2 DEF About, Request
      <3>. QED
        BY <2>0, <2>3, <3>3 DEF StoreCode, Answer
    <2>4. CASE DeleteCode(c)
      <3>1. User(c) \in Name /\ got[c] \in 0..MaxCalls /\ script[c] \in Request
        BY <1>0, <2>4, Names, Calls DEF DeleteCode, At, GotSound
      <3>2. About("password", User(c), got[c]) \in Request
        BY <2>0, <3>1 DEF About, Request
      <3>. QED
        BY <2>0, <2>4, <3>1, <3>2 DEF DeleteCode, Answer
    <2>5. CASE ~(Grant(c) \/ RevokeRefresh(c) \/ StoreCode(c) \/ DeleteCode(c))
      <3>1. spent' = spent
        BY <2>5 DEF Runs, Begin, Begins, CallFails, Register, NextId, InsertAccount, SendEvent,
           SendEventFails, Token, CheckClient, Login, Challenge, GetPresented, Consume, Logout,
           Revoke, Blacklist, Verify, GetBlacklisted, Password, FindUser, GetCode, UpdatePassword,
           Step, Answer
      <3>. QED
        BY <2>0, <3>1
    <2>. QED
      BY <2>1, <2>2, <2>3, <2>4, <2>5
  <1>8. CallsTyped'
    BY <1>0, <1>4, <1>5, <1>6, <1>7, CallByCall DEF CallsTyped, Where, Outcome
  <1>. QED
    BY <1>3, <1>8

\* What a call stores.
LEMMA StoresStep ==
  ASSUME IInv, TypeInv, NEW c \in Call, Runs(c)
  PROVE  StoresTyped' /\ IdsBounded'
  <1>0. /\ CallsTyped /\ StoresTyped /\ IdsBounded /\ script \in Scripts
        /\ now \in 0..MaxTime /\ c \in 0..MaxCalls
    BY Calls DEF TypeInv, WorldTyped, Call
  <1>1. /\ \A d \in Call : d # c => stage'[d] = stage[d] /\ got'[d] = got[d]
        /\ UNCHANGED <<script, now, init, seeded, clients>>
    BY <1>0, OneCall, CallByCall DEF idpVars
  \* A step that leaves the names and the ids alone.
  <1>2. ASSUME \A n \in Name : row'[n].id = row[n].id,
               At(c, {"register"}, "store")' => got'[c] <= Highest + 1
        PROVE  IdsBounded'
    <2>1. Highest <= Highest' /\ Highest' \in Nat /\ Highest \in Nat
      BY <1>2, HighestGrows, Numbers DEF Exists
    <2>2. \A n \in Name : row'[n].id \in Nat /\ row'[n].id <= Highest'
      BY <1>0, <1>2, <2>1 DEF IdsBounded, IInv, Typed
    <2>3. ASSUME NEW d \in Call, At(d, {"register"}, "store")' PROVE got'[d] <= Highest' + 1
      <3>1. got'[d] <= Highest + 1 /\ got'[d] \in Nat
        <4>1. CASE d = c
          BY <1>2, <2>3, <4>1, GotStep DEF CallsTyped
        <4>2. CASE d # c
          BY <1>0, <1>1, <2>3, <4>2 DEF IdsBounded, At, CallsTyped
        <4>. QED
          BY <4>1, <4>2
      <3>. QED
        BY <2>1, <3>1
    <2>. QED
      BY <2>2, <2>3 DEF IdsBounded
  <1>3. CASE NextId(c)
    <2>1. PICK n \in Name : Remembers(c, row[n].id + 1)
      BY <1>3 DEF NextId
    <2>2. got'[c] = row[n].id + 1 /\ row[n].id <= Highest /\ row[n].id \in Nat
      BY <1>0, <2>1 DEF Remembers, CallsTyped, IInv, Typed, IdsBounded
    <2>3. UNCHANGED stores
      BY <1>3 DEF NextId
    <2>. QED
      BY <1>0, <1>2, <2>2, <2>3, Numbers DEF stores, idpVars, StoresTyped
  <1>4. CASE InsertAccount(c)
    <2>1. /\ User(c) \in Name /\ At(c, {"register"}, "store") /\ UNCHANGED <<key, reset, got>>
      BY <1>0, <1>4, Names DEF InsertAccount, At
    <2>2. /\ got[c] <= Highest + 1 /\ got[c] \in Nat \ {0}
      BY <1>0, <2>1 DEF IdsBounded, IInv, Numbered
    <2>3. CASE Taken(User(c), got[c])
      <3>1. row' = row /\ Goes(c, "done")
        BY <1>4, <2>3 DEF InsertAccount, Answer
      <3>2. ~At(c, {"register"}, "store")'
        BY <1>0, <3>1 DEF At, Goes, CallsTyped
      <3>. QED
        BY <1>0, <1>1, <1>2, <2>1, <3>1, <3>2 DEF StoresTyped
    <2>4. CASE ~Taken(User(c), got[c])
      <3>1. row' = [row EXCEPT ![User(c)] = [id |-> got[c], password |-> c]] /\ Goes(c, "send")
        BY <1>4, <2>4 DEF InsertAccount, Inserts, Step
      <3>2. ~Exists(User(c))
        BY <2>4 DEF Taken
      <3>3. /\ row'[User(c)] = [id |-> got[c], password |-> c]
            /\ \A n \in Name : n # User(c) => row'[n] = row[n]
        BY <1>0, <2>1, <3>1 DEF StoresTyped
      <3>4. PICK m \in Name : m = User(c)
        BY <2>1
      <3>4a. (\A n \in Name : Exists(n) => Exists(n)') /\ ~Exists(m) /\ Exists(m)'
        BY <2>2, <3>2, <3>3, <3>4 DEF Exists
      <3>5. Highest + 1 <= Highest' /\ Highest' \in Nat /\ Highest \in Nat
        BY <3>4a, HighestGrows, Numbers
      <3>6. got[c] \in 1..Highest' /\ got[c] \in Id
        BY <2>2, <3>5, HighestGrows
      <3>7. row' \in [Name -> Row]
        BY <1>0, <2>1, <3>1, <3>6 DEF StoresTyped, Row
      <3>8. \A n \in Name : row'[n].id <= Highest'
        BY <1>0, <3>3, <3>5, <3>6, <2>2 DEF IdsBounded, IInv, Typed
      <3>9. \A d \in Call : At(d, {"register"}, "store")' => got'[d] <= Highest' + 1
        <4>1. ~At(c, {"register"}, "store")'
          BY <1>0, <3>1 DEF At, Goes, CallsTyped
        <4>2. ASSUME NEW d \in Call, At(d, {"register"}, "store")'
              PROVE  got[d] <= Highest + 1 /\ got[d] \in Nat /\ got'[d] = got[d]
          BY <1>0, <1>1, <4>1, <4>2 DEF IdsBounded, At, CallsTyped
        <4>. QED
          BY <3>5, <4>2
      <3>. QED
        BY <1>0, <1>1, <2>1, <3>7, <3>8, <3>9 DEF StoresTyped, IdsBounded
    <2>. QED
      BY <2>3, <2>4
  <1>5. ASSUME ~NextId(c), ~InsertAccount(c) PROVE IdsBounded'
    <2>1. ~At(c, {"register"}, "store")'
      <3>1. ASSUME Begin(c) \/ CallFails(c) \/ Register(c) PROVE stage'[c] # "store"
        BY <1>0, <1>5, <3>1 DEF Begin, CallFails, Register, SendEvent, SendEventFails, Step, Answer,
           Goes, CallsTyped
      <3>2. ASSUME Token(c) \/ Logout(c) \/ Password(c) PROVE script[c].kind # "register"
        BY <3>2 DEF Token, CheckClient, Login, Challenge, GetPresented, Consume, Grant, Logout,
           Revoke, Blacklist, RevokeRefresh, Verify, GetBlacklisted, Password, FindUser, StoreCode,
           GetCode, UpdatePassword, DeleteCode, At
      <3>. QED
        BY <1>1, <3>1, <3>2 DEF Runs, At
    <2>2. row' = row \/ row' = [row EXCEPT ![User(c)].password = c]
      BY <1>5 DEF Runs, Begin, Begins, CallFails, Register, SendEvent, SendEventFails,
         Token, CheckClient, Login, Challenge, GetPresented, Consume, Grant, Logout, Revoke,
         Blacklist, RevokeRefresh, Verify, GetBlacklisted, Password, FindUser, StoreCode, GetCode,
         UpdatePassword, DeleteCode, stores
    <2>3. ASSUME NEW n \in Name PROVE row'[n].id = row[n].id
      <3>1. CASE row' = row
        BY <3>1
      <3>2. CASE row' = [row EXCEPT ![User(c)].password = c]
        BY <1>0, <3>2 DEF StoresTyped, Row
      <3>. QED
        BY <2>2, <3>1, <3>2
    <2>. QED
      BY <1>2, <2>1, <2>3
  <1>6. CASE Challenge(c) \/ Grant(c)
    <2>1. /\ key' \in [Key -> 0..Latest] /\ UNCHANGED <<row, reset>>
      BY <1>0, <1>6, Lives DEF Challenge, Grant, SetEx, StoresTyped
    <2>. QED
      BY <1>0, <1>1, <1>5, <1>6, <2>1
         DEF StoresTyped, Challenge, Grant, NextId, InsertAccount, At
  <1>7. CASE Blacklist(c)
    <2>1. /\ key' = [key EXCEPT ![<<"blacklist", Of(c)>>] = now + got[c]] /\ UNCHANGED <<row, reset>>
          /\ got[c] <= AccessLife /\ got[c] \in Nat
      BY <1>0, <1>7 DEF Blacklist, SetEx, TypeInv, GotSound, CallsTyped
    <2>2. key' \in [Key -> 0..Latest]
      BY <1>0, <2>1, Lives DEF StoresTyped
    <2>. QED
      BY <1>0, <1>1, <1>5, <1>7, <2>1, <2>2 DEF StoresTyped, Blacklist, NextId, InsertAccount, At
  <1>8. CASE Consume(c) \/ RevokeRefresh(c)
    <2>0. 0 \in 0..Latest
      BY Lives
    <2>1. /\ key' \in [Key -> 0..Latest] /\ UNCHANGED <<row, reset>>
      BY <1>0, <1>8, <2>0 DEF Consume, RevokeRefresh, Del, StoresTyped
    <2>. QED
      BY <1>0, <1>1, <1>5, <1>8, <2>1
         DEF StoresTyped, Consume, RevokeRefresh, NextId, InsertAccount, At
  <1>9. CASE StoreCode(c)
    <2>1. /\ reset' = [reset EXCEPT ![User(c)] = [code |-> c, until |-> now + ResetLife]]
          /\ UNCHANGED <<row, key>> /\ now + ResetLife \in 0..Latest
      BY <1>0, <1>9, Lives DEF StoreCode
    <2>2. reset' \in [Name -> [code : 0..MaxCalls, until : 0..Latest]]
      BY <1>0, <2>1 DEF StoresTyped
    <2>. QED
      BY <1>0, <1>1, <1>5, <1>9, <2>1, <2>2 DEF StoresTyped, StoreCode, NextId, InsertAccount, At
  <1>10. CASE DeleteCode(c)
    <2>1. /\ reset' = [reset EXCEPT ![User(c)] = [code |-> 0, until |-> 0]]
          /\ UNCHANGED <<row, key>> /\ 0 \in 0..Latest /\ 0 \in 0..MaxCalls
      BY <1>0, <1>10, Lives, Calls DEF DeleteCode
    <2>2. reset' \in [Name -> [code : 0..MaxCalls, until : 0..Latest]]
      BY <1>0, <2>1 DEF StoresTyped
    <2>. QED
      BY <1>0, <1>1, <1>5, <1>10, <2>1, <2>2 DEF StoresTyped, DeleteCode, NextId, InsertAccount, At
  <1>11. CASE UpdatePassword(c)
    <2>1. /\ row' = [row EXCEPT ![User(c)].password = c] /\ UNCHANGED <<key, reset>>
      BY <1>11 DEF UpdatePassword
    <2>2. row' \in [Name -> Row]
      BY <1>0, <2>1 DEF StoresTyped, Row
    <2>. QED
      BY <1>0, <1>1, <1>5, <1>11, <2>1, <2>2
         DEF StoresTyped, UpdatePassword, NextId, InsertAccount, At
  <1>12. CASE ~(\/ NextId(c) \/ InsertAccount(c) \/ Challenge(c) \/ Grant(c) \/ Blacklist(c)
                \/ Consume(c) \/ RevokeRefresh(c) \/ StoreCode(c) \/ DeleteCode(c)
                \/ UpdatePassword(c))
    <2>1. UNCHANGED <<row, key, reset>>
      BY <1>12 DEF Runs, Begin, Begins, CallFails, Register, SendEvent, SendEventFails,
         Token, CheckClient, Login, GetPresented, Logout, Revoke, Verify, GetBlacklisted,
         Password, FindUser, GetCode, stores
    <2>. QED
      BY <1>0, <1>1, <1>5, <1>12, <2>1 DEF StoresTyped
  <1>. QED
    BY <1>3, <1>4, <1>6, <1>7, <1>8, <1>9, <1>10, <1>11, <1>12

\* A failure is counted.
LEMMA FaultCounted == TypeInv /\ (faults' = faults \/ Fault) => faults' \in 0..MaxFaults
  BY Lives DEF TypeInv, WorldTyped, Fault

\* A call's step keeps the types.
LEMMA CallTypes ==
  ASSUME IInv, TypeInv, NEW c \in Call, Runs(c)
  PROVE  TypeInv'
  <1>0. WorldTyped /\ CallsTyped /\ UsersTyped /\ IdsBounded
    BY DEF TypeInv
  <1>1. UNCHANGED <<script, now, evicted, handled, dropped, users, profile>>
    BY <1>0, OneCall
  <1>2. faults' = faults \/ Fault
    BY DEF Runs, Begin, Begins, CallFails, Register, NextId, InsertAccount, SendEvent, SendEventFails,
       Token, CheckClient, Login, Challenge, GetPresented, Consume, Grant, Logout, Revoke, Blacklist,
       RevokeRefresh, Verify, GetBlacklisted, Password, FindUser, StoreCode, GetCode, UpdatePassword,
       DeleteCode, world
  <1>3. WorldTyped'
    BY <1>0, <1>1, <1>2, FaultCounted DEF WorldTyped
  <1>4. UsersTyped'
    <2>1. CASE SendEvent(c) \/ SendEventFails(c)
      <3>1. /\ events' \in {events, events \cup {EventOf(c)}} /\ At(c, {"register"}, "send")
        BY <2>1 DEF SendEvent, SendEventFails
      <3>2. User(c) \in Name /\ Exists(User(c)) /\ row[User(c)].id = got[c]
        BY <1>0, <3>1, Names DEF IInv, Numbered, At, WorldTyped
      <3>3. got[c] \in 1..Highest
        BY <1>0, <3>2, Numbers DEF IdsBounded, IInv, Typed, Exists
      <3>4. EventOf(c) \in [id : Id, name : Name]
        BY <3>2, <3>3, Numbers DEF EventOf
      <3>. QED
        BY <1>0, <1>1, <3>1, <3>4 DEF UsersTyped
    <2>2. CASE ~(SendEvent(c) \/ SendEventFails(c))
      <3>1. events' = events
        BY <2>2 DEF Runs, Begin, Begins, CallFails, Register, NextId, InsertAccount, Token,
           CheckClient, Login, Challenge, GetPresented, Consume, Grant, Logout, Revoke, Blacklist,
           RevokeRefresh, Verify, GetBlacklisted, Password, FindUser, StoreCode, GetCode,
           UpdatePassword, DeleteCode, userVars
      <3>. QED
        BY <1>0, <1>1, <3>1 DEF UsersTyped
    <2>. QED
      BY <2>1, <2>2
  <1>. QED
    BY <1>3, <1>4, GotStep, StoresStep DEF TypeInv

\* So do the seed, the user service and the clock.
LEMMA SeedTypes == ASSUME IInv, TypeInv, InitDB PROVE TypeInv'
  <1>0. /\ WorldTyped /\ StoresTyped /\ CallsTyped /\ UsersTyped /\ IdsBounded /\ GotSound
        /\ Len(Seed) \in Nat \ {0}
    BY Numbers DEF TypeInv
  <1>1. UNCHANGED <<script, now, evicted, key, reset, callVars, userVars>>
    BY DEF InitDB, CreateTables, CountCredentials, SeedUser, SeedClients, InitFails, world
  <1>2. faults' = faults \/ Fault
    BY DEF InitDB, CreateTables, CountCredentials, SeedUser, SeedClients, InitFails, world
  <1>3. WorldTyped' /\ CallsTyped' /\ UsersTyped' /\ GotSound'
    BY <1>0, <1>1, <1>2, FaultCounted
       DEF WorldTyped, CallsTyped, UsersTyped, GotSound, callVars, userVars, At
  <1>4. /\ init' \in {"tables", "count", "seed", "clients", "done"}
        /\ seeded' \in 0..Len(Seed) /\ clients' \in BOOLEAN
    <2>1. seeded \in 0..Len(Seed) /\ (init = "seed" => seeded + 1 \in 1..Len(Seed))
      BY <1>0 DEF StoresTyped, IInv, Typed
    <2>2. CASE CreateTables \/ CountCredentials
      BY <1>0, <2>1, <2>2 DEF CreateTables, CountCredentials, StoresTyped
    <2>3. CASE SeedUser
      BY <1>0, <2>1, <2>3 DEF SeedUser, StoresTyped
    <2>4. CASE SeedClients \/ InitFails
      BY <1>0, <2>1, <2>4 DEF SeedClients, InitFails, StoresTyped
    <2>. QED
      BY <2>2, <2>3, <2>4 DEF InitDB
  <1>5. row' \in [Name -> Row] /\ IdsBounded'
    <2>1. ASSUME NEW i \in 1..Len(Seed), ~Taken(Seed[i], i), Inserts(Seed[i], i, 0)
          PROVE  row' \in [Name -> Row] /\ IdsBounded'
      <3>1. PICK m \in Name : m = Seed[i]
        BY <2>1, IdpAssumption
      <3>2. i \in Id /\ i <= Len(Seed) /\ i \in Nat \ {0} /\ 0 \in 0..MaxCalls
        BY <1>0, <2>1, Numbers, Calls DEF Id, WorldTyped
      <3>3. row' = [row EXCEPT ![m] = [id |-> i, password |-> 0]] /\ ~Exists(m)
        BY <2>1, <3>1 DEF Inserts, Taken
      <3>4. /\ row' \in [Name -> Row] /\ row'[m].id = i
            /\ \A n \in Name : n # m => row'[n] = row[n]
        BY <1>0, <3>2, <3>3 DEF StoresTyped, Row
      <3>5. \A n \in Name : Exists(n) => Exists(n)'
        BY <3>3, <3>4 DEF Exists
      <3>6. Highest <= Highest' /\ Highest \in Nat /\ Highest' \in Nat /\ Len(Seed) <= Highest
        BY <1>0, <3>5, HighestGrows, Numbers DEF Highest
      <3>7. ASSUME NEW n \in Name PROVE row'[n].id <= Highest'
        <4>1. row[n].id \in Nat /\ row[n].id <= Highest
          BY <1>0 DEF IdsBounded, IInv, Typed
        <4>. QED
          BY <3>2, <3>4, <3>6, <4>1
      <3>8. ASSUME NEW d \in Call, At(d, {"register"}, "store")' PROVE got'[d] <= Highest' + 1
        <4>1. got[d] <= Highest + 1 /\ got[d] \in Nat /\ got'[d] = got[d]
          BY <1>0, <1>1, <3>8 DEF IdsBounded, At, callVars, CallsTyped
        <4>. QED
          BY <3>6, <4>1
      <3>. QED
        BY <3>4, <3>7, <3>8 DEF IdsBounded
    <2>2. ASSUME row' = row PROVE row' \in [Name -> Row] /\ IdsBounded'
      <3>1. Highest' = Highest
        BY <2>2 DEF Highest, Rows, Exists
      <3>. QED
        BY <1>0, <1>1, <2>2, <3>1 DEF StoresTyped, IdsBounded, At, callVars
    <2>3. CASE SeedUser
      <3>1. seeded + 1 \in 1..Len(Seed)
        BY <1>0, <2>3 DEF SeedUser, IInv, Typed
      <3>. QED
        BY <2>1, <2>2, <2>3, <3>1 DEF SeedUser
    <2>4. CASE ~SeedUser
      BY <2>2, <2>4 DEF InitDB, CreateTables, CountCredentials, SeedClients, InitFails
    <2>. QED
      BY <2>3, <2>4
  <1>6. StoresTyped'
    BY <1>0, <1>1, <1>4, <1>5 DEF StoresTyped
  <1>. QED
    BY <1>3, <1>5, <1>6 DEF TypeInv

\* What leaves the calls and their stores alone leaves their types so.
LEMMA OthersKept ==
  ASSUME TypeInv, UNCHANGED <<script, stores, callVars>>, now' \in 0..MaxTime, now <= now'
  PROVE  StoresTyped' /\ CallsTyped' /\ IdsBounded' /\ GotSound'
  <1>1. UNCHANGED <<init, seeded, clients, row, key, reset, stage, got, issued, result, spent, stale>>
    BY DEF stores, idpVars, callVars
  <1>2. Highest' = Highest
    BY <1>1 DEF Highest, Rows, Exists
  <1>3. StoresTyped' /\ CallsTyped' /\ IdsBounded'
    BY <1>1, <1>2 DEF TypeInv, StoresTyped, CallsTyped, IdsBounded, At
  <1>4. GotSound'
    <2>1. \A c \in Call : issued[c] \in Int /\ issued[c] <= now /\ now \in Int /\ now' \in Int
      BY DEF TypeInv, GotSound, CallsTyped, WorldTyped
    <2>2. \A c \in Call : issued[c] <= now'
      BY <2>1
    <2>. QED
      BY <1>1, <2>2 DEF TypeInv, GotSound, At
  <1>. QED
    BY <1>3, <1>4

\* The user service keeps its types.
LEMMA UsersTypes == ASSUME IInv, TypeInv, Users PROVE TypeInv'
  <1>0. WorldTyped /\ UsersTyped /\ now \in 0..MaxTime /\ now <= now /\ Len(Seed) \in Nat \ {0}
    BY Numbers DEF TypeInv, WorldTyped
  <1>1. UNCHANGED <<script, now, evicted, stores, callVars, events>>
    BY DEF Users, CountProfiles, SaveSample, UsersRestart, CreateUser, CreateUserFails, world
  <1>2. faults' = faults \/ Fault
    BY DEF Users, CountProfiles, SaveSample, UsersRestart, CreateUser, CreateUserFails, world
  <1>3. WorldTyped'
    BY <1>0, <1>1, <1>2, FaultCounted DEF WorldTyped
  <1>4. profile' \in [Id -> Name \cup {Nobody}]
    BY UsersStep DEF IInv, Typed
  <1>5. UsersTyped'
    <2>1. CASE CountProfiles \/ SaveSample \/ UsersRestart
      BY <1>0, <1>1, <1>4, <2>1 DEF CountProfiles, SaveSample, UsersRestart, UsersTyped, Up
    <2>2. ASSUME NEW e \in events, CreateUser(e) \/ CreateUserFails(e) PROVE UsersTyped'
      <3>1. e.name \in Name
        BY <1>0, <2>2 DEF UsersTyped
      <3>. QED
        BY <1>0, <1>1, <1>4, <2>2, <3>1 DEF CreateUser, CreateUserFails, UsersTyped
    <2>. QED
      BY <2>1, <2>2 DEF Users
  <1>. QED
    BY <1>0, <1>1, <1>3, <1>5, OthersKept DEF TypeInv

\* And what Redis drops is something it stored.
LEMMA RedisTypes == ASSUME TypeInv, Redis PROVE TypeInv'
  <1>0. /\ WorldTyped /\ StoresTyped /\ CallsTyped /\ UsersTyped /\ IdsBounded /\ GotSound
        /\ 0 \in 0..Latest /\ 0 \in 0..MaxCalls
    BY Lives, Calls DEF TypeInv, WorldTyped
  <1>1. UNCHANGED <<script, now, faults, init, seeded, clients, row, callVars, userVars>>
    BY DEF Redis, EvictKey, EvictCode, Evicts, idpVars
  <1>2. Highest' = Highest
    BY <1>1 DEF Highest, Rows, Exists
  <1>3. CallsTyped' /\ UsersTyped' /\ IdsBounded' /\ GotSound'
    BY <1>0, <1>1, <1>2 DEF CallsTyped, UsersTyped, IdsBounded, GotSound, At, callVars, userVars
  <1>4. ASSUME NEW k \in Key, EvictKey(k) PROVE evicted' \subseteq Stored /\ StoresTyped'
    BY <1>0, <1>1, <1>4 DEF EvictKey, Evicts, WorldTyped, Stored, StoresTyped
  <1>5. ASSUME NEW n \in Name, EvictCode(n) PROVE evicted' \subseteq Stored /\ StoresTyped'
    <2>1. reset[n].code \in Call
      BY <1>0, <1>5, Calls DEF EvictCode, StoresTyped, WorldTyped, Call
    <2>2. evicted' \subseteq Stored
      BY <1>0, <1>5, <2>1 DEF EvictCode, Evicts, WorldTyped, Stored
    <2>. QED
      BY <1>0, <1>1, <1>5, <2>2 DEF EvictCode, StoresTyped
  <1>6. evicted' \subseteq Stored /\ StoresTyped'
    BY <1>4, <1>5 DEF Redis
  <1>. QED
    BY <1>0, <1>1, <1>3, <1>6 DEF TypeInv, WorldTyped

\* Every step keeps the types.
LEMMA TypeStep == IInv /\ TypeInv /\ [Next]_vars => TypeInv'
  <1>. SUFFICES ASSUME IInv, TypeInv, [Next]_vars PROVE TypeInv'
    OBVIOUS
  <1>1. CASE Tick \/ UNCHANGED vars
    <2>1. /\ UNCHANGED <<script, evicted, faults, stores, callVars, userVars>>
          /\ now' \in 0..MaxTime /\ now <= now'
      BY <1>1, Lives DEF Tick, vars, world, TypeInv, WorldTyped
    <2>2. WorldTyped' /\ UsersTyped'
      BY <2>1 DEF TypeInv, WorldTyped, UsersTyped, userVars
    <2>. QED
      BY <2>1, <2>2, OthersKept DEF TypeInv
  <1>. QED
    BY <1>1, SeedTypes, UsersTypes, CallTypes, RedisTypes DEF Next, Runs

\* The types at the start.
LEMMA InitTypes == Init => TypeInv
  <1>. SUFFICES ASSUME Init PROVE TypeInv
    OBVIOUS
  <1>0. /\ \A n \in SeedNames : Sample(n) \in DOMAIN Seed
        /\ DOMAIN Seed = 1..Len(Seed) /\ Len(Seed) \in Nat \ {0} /\ 1..Len(Seed) \subseteq Id
        /\ \A i \in DOMAIN Seed : Seed[i] \in Name
    BY IdpAssumption, Numbers DEF SeedNames, Sample, Id
  <1>1. 0 \in 0..Latest /\ 0 \in 0..MaxTime /\ 0 \in 0..MaxFaults /\ 0 \in 0..MaxCalls
    BY Lives, Calls DEF Init
  <1>2. WorldTyped
    BY <1>1 DEF Init, WorldTyped
  <1>3. row \in [Name -> Row] /\ \A n \in Name : row[n].id \in 0..Len(Seed)
    BY <1>0, <1>1 DEF Init, Row
  <1>4. StoresTyped
    <2>1. /\ init \in {"tables", "count", "seed", "clients", "done"}
          /\ seeded \in 0..Len(Seed) /\ clients \in BOOLEAN
      BY <1>0 DEF Init
    <2>2. /\ key \in [Key -> 0..Latest]
          /\ reset \in [Name -> [code : 0..MaxCalls, until : 0..Latest]]
      BY <1>1 DEF Init
    <2>. QED
      BY <1>3, <2>1, <2>2 DEF StoresTyped
  <1>5. CallsTyped /\ GotSound
    BY <1>1 DEF Init, CallsTyped, GotSound, At
  <1>6. UsersTyped
    BY <1>0 DEF Init, UsersTyped, Up
  <1>7. IdsBounded
    <2>1. Len(Seed) <= Highest /\ Highest \in Nat
      BY Numbers DEF Highest
    <2>2. \A n \in Name : row[n].id <= Highest
      BY <1>0, <1>3, <2>1
    <2>3. \A c \in Call : ~At(c, {"register"}, "store")
      BY DEF Init, At
    <2>. QED
      BY <2>2, <2>3 DEF IdsBounded
  <1>. QED
    BY <1>2, <1>4, <1>5, <1>6, <1>7 DEF TypeInv

\* Accounts, tokens, codes, calls, events and profiles have their types: an id is
\* never above what the sample users and the registrations use up, and no token or
\* code outlives its life (index.js:47-401).
THEOREM TypeCorrect == Spec => []TypeOK
  <1>1. TypeInv => TypeOK
    BY DEF TypeInv, WorldTyped, StoresTyped, CallsTyped, UsersTyped, TypeOK
  <1>. QED
    BY <1>1, InitTypes, TypeStep, Invariance, PTL DEF Spec

-----------------------------------------------------------------------------
(* What an answer made void. *)

\* A call that has answered is done, and one that presents what another issued began after that one was done.
CallsSound ==
  /\ \A c \in Call : stage[c] # "idle" => c \in DOMAIN script
  /\ \A c \in Call : result[c] # "none" => stage[c] = "done"
  /\ \A c \in DOMAIN script :
       stage[c] # "idle" /\ script[c].kind \notin {"register", "forgot"} /\ Of(c) # 0
         => Of(c) \in Call /\ stage[Of(c)] = "done"

\* Revoked token k is in the list for as long as it would be good, or it is Redis that
\* dropped it.
Listed(k) ==
  \/ Expires(k) <= key[<<"blacklist", k>>]
  \/ Expires(k) <= now
  \/ <<"blacklist", k>> \in evicted

\* Password p is one that is never set again: of the sample users, or of a call that
\* has set it.
Written(p) ==
  \/ p = 0
  \/ /\ p \in DOMAIN script
     /\ \/ script[p].kind = "register" /\ stage[p] \in {"send", "done"}
        \/ script[p].kind = "reset" /\ stage[p] \in {"delete", "done"}

\* The user of a reset has a row; the password that it replaced is not the row's.
Replaced(n, p) == Exists(n) /\ Written(p) /\ row[n].password # p

\* What a call is about to make void is so.
UnderWay(c) ==
  /\ At(c, {"refresh", "mfa"}, "store") => key[Presented(c)] = 0
  /\ At(c, {"revoke"}, "store") => Expires(Of(c)) <= now + got[c]
  /\ At(c, {"revoke"}, "delete") => Listed(Of(c))
  /\ At(c, {"forgot"}, "store") => Exists(User(c))
  /\ At(c, {"reset"}, "update") => Exists(User(c))
  /\ At(c, {"reset"}, "delete") => Replaced(User(c), got[c])

\* The code of a user who has none is never good.
CodesSound ==
  \A n \in Name :
    /\ Exists(n) => Written(row[n].password)
    /\ IF reset[n].code = 0 THEN reset[n].until = 0
       ELSE Exists(n) /\ stage[reset[n].code] = "done"

\* Request r is refused from now on.
Void(r) ==
  \/ r.kind \in {"refresh", "mfa"} /\ r.of \in Call /\ stage[r.of] = "done" /\ key[<<r.kind, r.of>>] = 0
  \/ r.kind = "check" /\ r.of \in Call /\ stage[r.of] = "done" /\ Listed(r.of)
  \/ /\ r.kind = "reset" /\ r.name \in Name
     /\ r.of # 0 => r.of \in Call /\ stage[r.of] = "done" /\ reset[r.name].code # r.of
  \/ r.kind = "password" /\ r.name \in Name /\ Replaced(r.name, r.of)

\* A call that began with such a request gets no further than to be refused.
Refused(c) ==
  /\ c \in DOMAIN script /\ script[c] \in spent
  /\ stage[c] \in {"client", "get", "done"}

SpentInv ==
  /\ CallsSound /\ CodesSound
  /\ \A c \in DOMAIN script : UnderWay(c)
  /\ \A r \in spent : Void(r)
  /\ \A c \in stale : Refused(c)

-----------------------------------------------------------------------------
\* Which steps change the stores.
LEMMA Changes ==
  ASSUME NEW c \in Call, Runs(c)
  PROVE  /\ \/ UNCHANGED key
            \/ Challenge(c) \/ Grant(c) \/ Blacklist(c) \/ Consume(c) \/ RevokeRefresh(c)
         /\ UNCHANGED row \/ InsertAccount(c) \/ UpdatePassword(c)
         /\ UNCHANGED reset \/ StoreCode(c) \/ DeleteCode(c)
         /\ UNCHANGED spent \/ Grant(c) \/ RevokeRefresh(c) \/ StoreCode(c) \/ DeleteCode(c)
  <1>1. CASE Begin(c) \/ CallFails(c) \/ Register(c)
    BY <1>1 DEF Begin, Begins, CallFails, Register, NextId, InsertAccount, SendEvent, SendEventFails,
                Step, Answer, stores
  <1>2. CASE Token(c)
    BY <1>2 DEF Token, CheckClient, Login, GetPresented, Challenge, Grant, Consume, Step, Answer, stores
  <1>3. CASE Logout(c)
    BY <1>3 DEF Logout, Revoke, Verify, GetBlacklisted, Blacklist, RevokeRefresh, Begins, Step,
                Answer, stores
  <1>4. CASE Password(c)
    BY <1>4 DEF Password, FindUser, GetCode, StoreCode, UpdatePassword, DeleteCode, Step, Answer,
                stores
  <1>. QED
    BY <1>1, <1>2, <1>3, <1>4 DEF Runs

\* A call that is done stays as it is; the others are as they were, but for one.
LEMMA DoneStays ==
  ASSUME CallsTyped, NEW c \in Call, Runs(c), NEW k \in Call, stage[k] = "done"
  PROVE  /\ k # c /\ stage'[k] = "done"
         /\ issued'[k] = issued[k] /\ result'[k] = result[k] /\ Expires(k)' = Expires(k)
  BY OneCall, CallByCall DEF Expires

\* A call begins only with what it has.
LEMMA BeginsWith ==
  ASSUME CallsTyped, NEW c \in Call, Runs(c), stage[c] = "idle"
  PROVE  c \in DOMAIN script /\ Has(c)
  BY DEF Runs, Begin, Begins, CallFails, Register, NextId, InsertAccount, SendEvent, SendEventFails,
     Token, CheckClient, Login, Challenge, GetPresented, Consume, Grant, Logout, Revoke, Blacklist,
     RevokeRefresh, Verify, GetBlacklisted, Password, FindUser, StoreCode, GetCode, UpdatePassword,
     DeleteCode, At

\* Every step keeps what is known of where calls are.
LEMMA CallsSoundStep ==
  ASSUME TypeInv, CallsSound, NEW c \in Call, Runs(c)
  PROVE  CallsSound' /\ c \in DOMAIN script
  <1>0. CallsTyped /\ script \in Scripts /\ UNCHANGED script
    BY OneCall DEF TypeInv, WorldTyped
  <1>1. c \in DOMAIN script
    BY <1>0, OneCall DEF CallsSound
  <1>2. /\ \A d \in Call : d # c => stage'[d] = stage[d] /\ result'[d] = result[d]
        /\ result'[c] # result[c] => stage'[c] = "done"
        /\ stage[c] # "done" /\ stage'[c] # "idle"
    BY <1>0, OneCall, CallByCall
  <1>3. ASSUME script[c].kind \notin {"register", "forgot"}, Of(c) # 0
        PROVE  Of(c) \in Call /\ stage[Of(c)] = "done"
    <2>1. Of(c) \in Call
      BY <1>0, <1>1, <1>3, Calls DEF Call
    <2>2. CASE stage[c] = "idle"
      <3>1. result[Of(c)] \in {"ok", "challenge"}
        BY <1>0, <1>3, <2>2, BeginsWith DEF Has
      <3>. QED
        BY <2>1, <3>1 DEF CallsSound
    <2>3. CASE stage[c] # "idle"
      BY <1>1, <1>3, <2>3 DEF CallsSound
    <2>. QED
      BY <2>1, <2>2, <2>3
  <1>4. \A d \in Call : stage'[d] # "idle" => d \in DOMAIN script'
    BY <1>0, <1>1, <1>2 DEF CallsSound
  <1>5. \A d \in Call : result'[d] # "none" => stage'[d] = "done"
    BY <1>2 DEF CallsSound
  <1>6. ASSUME NEW d \in DOMAIN script, stage'[d] # "idle",
               script[d].kind \notin {"register", "forgot"}, Of(d) # 0
        PROVE  Of(d) \in Call /\ stage'[Of(d)] = "done"
    <2>1. Of(d) \in Call /\ stage[Of(d)] = "done"
      BY <1>0, <1>2, <1>3, <1>6, Calls DEF CallsSound
    <2>. QED
      BY <1>2, <2>1
  <1>. QED
    BY <1>0, <1>1, <1>4, <1>5, <1>6 DEF CallsSound, Of

-----------------------------------------------------------------------------
\* What a step does to the keys of a call that is done, or that is not its own.
LEMMA KeyStep ==
  ASSUME TypeInv, NEW c \in Call, Runs(c), c \in DOMAIN script, NEW k \in Call, k # c
  PROVE  /\ \A kind \in {"refresh", "mfa"} :
              \/ key'[<<kind, k>>] = key[<<kind, k>>]
              \/ /\ key'[<<kind, k>>] = 0 /\ k = Of(c)
                 /\ script[c].kind = kind \/ (kind = "refresh" /\ script[c].kind = "revoke")
         /\ \/ key'[<<"blacklist", k>>] = key[<<"blacklist", k>>]
            \/ Blacklist(c) /\ k = Of(c) /\ key'[<<"blacklist", k>>] = now + got[c]
  <1>0. key \in [Key -> 0..Latest] /\ {<<"refresh", k>>, <<"mfa", k>>, <<"blacklist", k>>} \subseteq Key
    BY DEF TypeInv, StoresTyped, Key
  <1>1. CASE Challenge(c) \/ Grant(c)
    <2>1. PICK kind, life : key' = [key EXCEPT ![<<kind, c>>] = life]
      BY <1>1 DEF Challenge, Grant, SetEx
    <2>2. \A other : <<other, k>> # <<kind, c>>
      OBVIOUS
    <2>. QED
      BY <1>0, <2>1, <2>2
  <1>2. CASE Blacklist(c)
    <2>1. key' = [key EXCEPT ![<<"blacklist", Of(c)>>] = now + got[c]]
      BY <1>2 DEF Blacklist, SetEx
    <2>2. \A kind \in {"refresh", "mfa"} : <<kind, k>> # <<"blacklist", Of(c)>>
      OBVIOUS
    <2>3. <<"blacklist", k>> = <<"blacklist", Of(c)>> => k = Of(c)
      OBVIOUS
    <2>4. \A kind \in {"refresh", "mfa"} : key'[<<kind, k>>] = key[<<kind, k>>]
      BY <1>0, <2>1, <2>2
    <2>5. \/ key'[<<"blacklist", k>>] = key[<<"blacklist", k>>]
          \/ k = Of(c) /\ key'[<<"blacklist", k>>] = now + got[c]
      BY <1>0, <2>1, <2>3
    <2>. QED
      BY <1>2, <2>4, <2>5
  <1>3. CASE Consume(c) \/ RevokeRefresh(c)
    <2>1. PICK gone \in {"refresh", "mfa"} :
            /\ key' = [key EXCEPT ![<<gone, Of(c)>>] = 0]
            /\ script[c].kind = gone \/ (gone = "refresh" /\ script[c].kind = "revoke")
      BY <1>3 DEF Consume, RevokeRefresh, Del, Presented, At
    <2>2. <<"blacklist", k>> # <<gone, Of(c)>>
      OBVIOUS
    <2>3. \A kind : <<kind, k>> = <<gone, Of(c)>> => kind = gone /\ k = Of(c)
      OBVIOUS
    <2>. QED
      BY <1>0, <2>1, <2>2, <2>3
  <1>4. CASE UNCHANGED key
    BY <1>4
  <1>. QED
    BY <1>1, <1>2, <1>3, <1>4, Changes

\* A password that a call has set is not set again.
LEMMA WrittenStays ==
  ASSUME CallsTyped, script \in Scripts, NEW c \in Call, Runs(c), NEW p, Written(p)
  PROVE  Written(p)'
  <1>0. UNCHANGED script /\ \A d \in Call : d # c => stage'[d] = stage[d]
    BY OneCall, CallByCall
  <1>1. CASE p \in DOMAIN script /\ p = c
    <2>1. /\ stage[c] # "done"
          /\ \/ script[c].kind = "register" /\ stage[c] = "send"
             \/ script[c].kind = "reset" /\ stage[c] = "delete"
          \/ p = 0
      BY <1>1, OneCall DEF Written
    <2>2. p # 0 => stage'[c] = "done"
      BY <1>1, <2>1 DEF Runs, Begin, Begins, CallFails, Register, NextId, InsertAccount, SendEvent,
         SendEventFails, Token, CheckClient, Login, Challenge, GetPresented, Consume, Grant, Logout,
         Revoke, Blacklist, RevokeRefresh, Verify, GetBlacklisted, Password, FindUser, StoreCode,
         GetCode, UpdatePassword, DeleteCode, At, Step, Answer, Goes, CallsTyped
    <2>. QED
      BY <1>0, <1>1, <2>1, <2>2 DEF Written
  <1>2. CASE ~(p \in DOMAIN script /\ p = c)
    BY <1>0, <1>2, Calls DEF Written, CallsTyped
  <1>. QED
    BY <1>1, <1>2

\* A row stays, and so does what replaced a password; what a row says is written.
LEMMA RowStep ==
  ASSUME TypeInv, CodesSound, NEW c \in Call, Runs(c), c \in DOMAIN script, UnderWay(c)
  PROVE  /\ \A n \in Name : Exists(n) => Exists(n)'
         /\ \A n \in Name : \A p : Replaced(n, p) => Replaced(n, p)'
         /\ \A n \in Name : Exists(n)' => Written(row[n].password)'
  <1>0. /\ CallsTyped /\ script \in Scripts /\ row \in [Name -> Row] /\ c # 0 /\ UNCHANGED script
        /\ \A p : Written(p) => Written(p)'
    BY Calls, OneCall, WrittenStays DEF TypeInv, WorldTyped, StoresTyped
  <1>1. CASE UNCHANGED row
    BY <1>0, <1>1 DEF Exists, Replaced, CodesSound
  \* A step that sets one row's password, to one that was not set before.
  <1>2. ASSUME NEW m \in Name, NEW p, row'[m].password = p, row'[m].id # 0, Written(p)',
               \A n \in Name : n # m => row'[n] = row[n],
               Exists(m) => ~Written(p)
        PROVE  /\ \A n \in Name : Exists(n) => Exists(n)'
               /\ \A n \in Name : \A q : Replaced(n, q) => Replaced(n, q)'
               /\ \A n \in Name : Exists(n)' => Written(row[n].password)'
    <2>1. \A n \in Name : Exists(n) => Exists(n)'
      BY <1>2 DEF Exists
    <2>2. ASSUME NEW n \in Name, NEW q, Replaced(n, q) PROVE Replaced(n, q)'
      <3>1. Written(q) /\ Written(q)' /\ Exists(n) /\ Exists(n)'
        BY <1>0, <2>1, <2>2 DEF Replaced
      <3>2. row'[n].password # q
        BY <1>2, <2>2, <3>1 DEF Replaced
      <3>. QED
        BY <3>1, <3>2 DEF Replaced
    <2>3. ASSUME NEW n \in Name, Exists(n)' PROVE Written(row[n].password)'
      <3>1. CASE n = m
        BY <1>2, <3>1
      <3>2. CASE n # m
        <4>1. row'[n] = row[n] /\ Exists(n)
          BY <1>2, <2>3, <3>2 DEF Exists
        <4>2. PICK q : q = row[n].password
          OBVIOUS
        <4>3. Written(q)'
          BY <1>0, <4>1, <4>2 DEF CodesSound
        <4>. QED
          BY <4>1, <4>2, <4>3 DEF Written
      <3>. QED
        BY <3>1, <3>2
    <2>. QED
      BY <2>1, <2>2, <2>3
  <1>3. CASE InsertAccount(c)
    <2>1. CASE Taken(User(c), got[c])
      BY <1>1, <1>3, <2>1 DEF InsertAccount
    <2>2. CASE ~Taken(User(c), got[c])
      <3>1. /\ row' = [row EXCEPT ![User(c)] = [id |-> got[c], password |-> c]]
            /\ stage' = [stage EXCEPT ![c] = "send"] /\ script[c].kind = "register"
        BY <1>3, <2>2 DEF InsertAccount, Inserts, Step, Goes, At
      <3>2. PICK m \in Name : m = User(c)
        BY <1>0, <3>1, Names
      <3>3. /\ row'[m].password = c /\ row'[m].id = got[c]
            /\ \A n \in Name : n # m => row'[n] = row[n]
        BY <1>0, <3>1, <3>2
      <3>4. ~Exists(m) /\ Written(c)'
        BY <1>0, <2>2, <3>1, <3>2 DEF Taken, Written, CallsTyped
      <3>5. CASE got[c] # 0
        BY <1>2, <3>3, <3>4, <3>5
      <3>6. CASE got[c] = 0
        BY <1>0, <3>3, <3>4, <3>6 DEF Exists, Replaced, CodesSound, Written
      <3>. QED
        BY <3>5, <3>6
    <2>. QED
      BY <2>1, <2>2
  <1>4. CASE UpdatePassword(c)
    <2>1. /\ row' = [row EXCEPT ![User(c)].password = c] /\ script[c].kind = "reset"
          /\ stage' = [stage EXCEPT ![c] = "delete"] /\ stage[c] = "update"
          /\ Exists(User(c))
      BY <1>4 DEF UpdatePassword, Step, Goes, At, UnderWay
    <2>2. PICK m \in Name : m = User(c)
      BY <1>0, <2>1, Names
    <2>3. /\ row'[m].password = c /\ row'[m].id = row[m].id
          /\ \A n \in Name : n # m => row'[n] = row[n]
      BY <1>0, <2>1, <2>2 DEF Row
    <2>4. Written(c)' /\ ~Written(c) /\ row[m].id # 0
      BY <1>0, <2>1, <2>2 DEF Written, CallsTyped, Exists
    <2>. QED
      BY <1>2, <2>3, <2>4
  <1>. QED
    BY <1>1, <1>3, <1>4, Changes

\* A code that was replaced or used does not come back, and one that a user has is
\* of a call that is done.
LEMMA CodeStep ==
  ASSUME TypeInv, CodesSound, NEW c \in Call, Runs(c), c \in DOMAIN script, UnderWay(c)
  PROVE  /\ \A n \in Name, k \in Call :
              stage[k] = "done" /\ reset[n].code # k => reset'[n].code # k
         /\ CodesSound'
  <1>0. /\ CallsTyped /\ script \in Scripts /\ Call \subseteq Nat \ {0}
        /\ reset \in [Name -> [code : 0..MaxCalls, until : 0..Latest]]
    BY Calls DEF TypeInv, WorldTyped, StoresTyped
  <1>1. /\ \A n \in Name : Exists(n) => Exists(n)'
        /\ \A n \in Name : Exists(n)' => Written(row[n].password)'
    BY RowStep
  <1>2. \A k \in Call : stage[k] = "done" => k # c /\ stage'[k] = "done"
    BY <1>0, DoneStays
  <1>3. \A n \in Name : reset[n].code # 0 => reset[n].code \in Call
    BY <1>0, Calls DEF Call
  \* A step that changes one user's code, if any.
  <1>4. ASSUME NEW m \in Name, \A n \in Name : n # m => reset'[n] = reset[n],
               \/ reset'[m] = reset[m]
               \/ reset'[m].code = 0 /\ reset'[m].until = 0
               \/ reset'[m].code = c /\ stage'[c] = "done" /\ Exists(m)
        PROVE  /\ \A n \in Name, k \in Call :
                    stage[k] = "done" /\ reset[n].code # k => reset'[n].code # k
               /\ CodesSound'
    <2>1. \A n \in Name, k \in Call : stage[k] = "done" /\ reset[n].code # k => reset'[n].code # k
      BY <1>0, <1>2, <1>4
    <2>2. ASSUME NEW n \in Name
          PROVE  IF reset'[n].code = 0 THEN reset'[n].until = 0
                 ELSE Exists(n)' /\ stage'[reset'[n].code] = "done"
      BY <1>0, <1>1, <1>2, <1>3, <1>4 DEF CodesSound
    <2>. QED
      BY <1>1, <2>1, <2>2 DEF CodesSound
  <1>5. CASE UNCHANGED reset
    <2>1. CASE Name = {}
      BY <2>1 DEF CodesSound
    <2>2. ASSUME NEW m \in Name
          PROVE  /\ \A n \in Name, k \in Call :
                      stage[k] = "done" /\ reset[n].code # k => reset'[n].code # k
                 /\ CodesSound'
      BY <1>4, <1>5
    <2>. QED
      BY <2>1, <2>2
  <1>6. CASE StoreCode(c)
    <2>1. /\ reset' = [reset EXCEPT ![User(c)] = [code |-> c, until |-> now + ResetLife]]
          /\ stage' = [stage EXCEPT ![c] = "done"] /\ Exists(User(c)) /\ User(c) \in Name
      BY <1>0, <1>6, Names DEF StoreCode, Answer, Goes, UnderWay, At
    <2>2. stage'[c] = "done" /\ reset'[User(c)].code = c
          /\ \A n \in Name : n # User(c) => reset'[n] = reset[n]
      BY <1>0, <2>1 DEF CallsTyped
    <2>. QED
      BY <1>4, <2>1, <2>2
  <1>7. CASE DeleteCode(c)
    <2>1. /\ reset' = [reset EXCEPT ![User(c)] = [code |-> 0, until |-> 0]] /\ User(c) \in Name
      BY <1>0, <1>7, Names DEF DeleteCode, At
    <2>2. reset'[User(c)].code = 0 /\ reset'[User(c)].until = 0
          /\ \A n \in Name : n # User(c) => reset'[n] = reset[n]
      BY <1>0, <2>1
    <2>. QED
      BY <1>4, <2>1, <2>2
  <1>. QED
    BY <1>5, <1>6, <1>7, Changes

\* What is void stays void.
LEMMA VoidStays ==
  ASSUME TypeInv, CodesSound, NEW c \in Call, Runs(c), c \in DOMAIN script, UnderWay(c),
         NEW r, Void(r)
  PROVE  Void(r)'
  <1>0. /\ CallsTyped /\ script \in Scripts /\ now \in Nat /\ UNCHANGED <<now, evicted>>
        /\ \A k \in Call : stage[k] = "done" =>
             k # c /\ stage'[k] = "done" /\ Expires(k)' = Expires(k)
    BY DoneStays, OneCall, Lives DEF TypeInv, WorldTyped
  <1>1. CASE r.kind \in {"refresh", "mfa"} /\ r.of \in Call /\ stage[r.of] = "done"
             /\ key[<<r.kind, r.of>>] = 0
    <2>1. key'[<<r.kind, r.of>>] = 0
      BY <1>0, <1>1, KeyStep
    <2>. QED
      BY <1>0, <1>1, <2>1 DEF Void
  <1>2. CASE r.kind = "check" /\ r.of \in Call /\ stage[r.of] = "done" /\ Listed(r.of)
    <2>1. PICK k \in Call : k = r.of
      BY <1>2
    <2>2. Expires(k)' = Expires(k) /\ k # c /\ stage'[k] = "done" /\ Listed(k)
      BY <1>0, <1>2, <2>1
    <2>3. CASE key'[<<"blacklist", k>>] = key[<<"blacklist", k>>]
      BY <1>0, <1>2, <2>1, <2>2, <2>3 DEF Listed, Void
    <2>4. CASE Blacklist(c) /\ k = Of(c) /\ key'[<<"blacklist", k>>] = now + got[c]
      <3>1. Expires(k) <= key'[<<"blacklist", k>>]
        BY <2>4 DEF Blacklist, UnderWay
      <3>. QED
        BY <1>0, <1>2, <2>1, <2>2, <3>1 DEF Listed, Void
    <2>. QED
      BY <2>2, <2>3, <2>4, KeyStep
  <1>3. CASE /\ r.kind = "reset" /\ r.name \in Name
             /\ r.of # 0 => r.of \in Call /\ stage[r.of] = "done" /\ reset[r.name].code # r.of
    BY <1>0, <1>3, CodeStep DEF Void
  <1>4. CASE r.kind = "password" /\ r.name \in Name /\ Replaced(r.name, r.of)
    <2>1. PICK n \in Name, p \in {r.of} : n = r.name
      BY <1>4
    <2>2. Replaced(n, p)'
      BY <1>4, <2>1, RowStep
    <2>. QED
      BY <1>4, <2>1, <2>2 DEF Void, Replaced, Exists, Written
  <1>. QED
    BY <1>1, <1>2, <1>3, <1>4 DEF Void

\* What an answer makes void is so.
LEMMA VoidMade ==
  ASSUME IInv, TypeInv, SpentInv, NEW c \in Call, Runs(c), NEW r \in spent' \ spent
  PROVE  Void(r)'
  <1>0. /\ CallsTyped /\ script \in Scripts /\ UNCHANGED <<script, now, evicted>>
        /\ CallsSound /\ CodesSound /\ c \in DOMAIN script /\ UnderWay(c)
        /\ CodesSound' /\ c \notin {0} /\ key \in [Key -> 0..Latest] /\ now \in Nat
    BY CallsSoundStep, CodeStep, OneCall, Calls, Lives
       DEF TypeInv, WorldTyped, StoresTyped, SpentInv
  <1>1. CASE Grant(c)
    <2>1. r = script[c] /\ script[c].kind \in {"refresh", "mfa"} /\ stage[c] = "store"
      BY <1>1 DEF Grant, Answer, At
    <2>2. Of(c) \in Call /\ stage[Of(c)] = "done" /\ key[<<script[c].kind, Of(c)>>] = 0
      BY <1>0, <1>1, <2>1, Calls DEF CallsSound, UnderWay, At, Presented
    <2>3. Of(c) # c /\ stage'[Of(c)] = "done"
      BY <1>0, <2>2, DoneStays
    <2>4. key'[<<script[c].kind, Of(c)>>] = 0
      BY <1>0, <2>1, <2>2, <2>3, KeyStep
    <2>. QED
      BY <2>1, <2>2, <2>3, <2>4 DEF Void, Of
  <1>2. CASE RevokeRefresh(c)
    <2>1. /\ r \in {Uses("refresh", Of(c)), Uses("check", Of(c))}
          /\ script[c].kind = "revoke" /\ stage[c] = "delete"
          /\ key' = [key EXCEPT ![<<"refresh", Of(c)>>] = 0]
      BY <1>2 DEF RevokeRefresh, Answer, At, Del
    <2>2. Of(c) \in Call /\ stage[Of(c)] = "done" /\ Listed(Of(c))
      BY <1>0, <1>2, <2>1, Calls DEF CallsSound, UnderWay, RevokeRefresh
    <2>3. stage'[Of(c)] = "done" /\ UNCHANGED issued
      BY <1>0, <1>2, <2>2, DoneStays DEF RevokeRefresh
    <2>4. key'[<<"refresh", Of(c)>>] = 0 /\ key'[<<"blacklist", Of(c)>>] = key[<<"blacklist", Of(c)>>]
      <3>1. <<"refresh", Of(c)>> \in Key /\ <<"blacklist", Of(c)>> # <<"refresh", Of(c)>>
        BY <2>2 DEF Key
      <3>2. <<"blacklist", Of(c)>> \in Key
        BY <2>2 DEF Key
      <3>. QED
        BY <1>0, <2>1, <3>1, <3>2
    <2>5. PICK k \in Call : k = Of(c)
      BY <2>2
    <2>6. Listed(k)'
      BY <1>0, <2>2, <2>3, <2>4, <2>5 DEF Listed, Expires
    <2>7. r.of = k /\ r.kind \in {"refresh", "check"}
      BY <2>1, <2>5 DEF Uses
    <2>. QED
      BY <2>3, <2>4, <2>5, <2>6, <2>7 DEF Void, Listed, Expires
  <1>3. CASE StoreCode(c)
    <2>1. /\ r = About("reset", User(c), reset[User(c)].code) /\ User(c) \in Name
          /\ reset' = [reset EXCEPT ![User(c)] = [code |-> c, until |-> now + ResetLife]]
      BY <1>0, <1>3, Names DEF StoreCode, Answer, At
    <2>2. PICK n \in Name, k \in {reset[User(c)].code} : n = User(c)
      BY <2>1
    <2>3. k # 0 => k \in Call /\ stage[k] = "done"
      BY <1>0, <2>2, Calls DEF CodesSound, TypeInv, StoresTyped, Call
    <2>4. k # 0 => stage'[k] = "done" /\ k # c
      BY <1>0, <2>3, DoneStays
    <2>5. reset'[n].code = c
      BY <2>1, <2>2 DEF TypeInv, StoresTyped
    <2>6. r.kind = "reset" /\ r.name = n /\ r.of = k
      BY <2>1, <2>2 DEF About
    <2>. QED
      BY <2>3, <2>4, <2>5, <2>6 DEF Void
  <1>4. CASE DeleteCode(c)
    <2>1. /\ r \in {script[c], About("password", User(c), got[c])}
          /\ reset' = [reset EXCEPT ![User(c)] = [code |-> 0, until |-> 0]]
          /\ script[c].kind = "reset" /\ stage[c] = "delete" /\ User(c) \in Name
      BY <1>0, <1>4, Names DEF DeleteCode, Answer, At
    <2>2. CASE r = script[c]
      <3>1. Of(c) # 0 => Of(c) \in Call /\ stage[Of(c)] = "done"
        BY <1>0, <2>1 DEF CallsSound
      <3>2. Of(c) # 0 => stage'[Of(c)] = "done"
        BY <1>0, <3>1, DoneStays
      <3>3. reset'[User(c)].code = 0
        BY <2>1 DEF TypeInv, StoresTyped
      <3>. QED
        BY <2>1, <2>2, <3>1, <3>2, <3>3 DEF Void, Of, User
    <2>3. CASE r = About("password", User(c), got[c])
      <3>1. PICK n \in Name, p \in {got[c]} : n = User(c)
        BY <2>1
      <3>2. Replaced(n, p)
        BY <1>0, <1>4, <3>1 DEF DeleteCode, UnderWay
      <3>3. Replaced(n, p)'
        BY <1>0, <3>2, RowStep
      <3>4. r.kind = "password" /\ r.name = n /\ r.of = p
        BY <2>3, <3>1 DEF About
      <3>. QED
        BY <3>3, <3>4 DEF Void, Replaced, Exists, Written
    <2>. QED
      BY <2>1, <2>2, <2>3
  <1>5. CASE UNCHANGED spent
    BY <1>5
  <1>. QED
    BY <1>1, <1>2, <1>3, <1>4, <1>5, Changes

\* What a call has found, or is about to make void, stays so while others go on.
LEMMA UnderWayStep ==
  ASSUME IInv, TypeInv, SpentInv, NEW c \in Call, Runs(c)
  PROVE  \A d \in DOMAIN script' : UnderWay(d)'
  <1>0. /\ CallsTyped /\ script \in Scripts /\ UNCHANGED <<script, now, evicted>> /\ now \in Nat
        /\ CallsSound /\ CallsSound' /\ CodesSound /\ c \in DOMAIN script /\ UnderWay(c)
        /\ DOMAIN script \subseteq Call
        /\ \A d \in DOMAIN script : UnderWay(d)
    BY CallsSoundStep, OneCall, Calls, Lives DEF TypeInv, WorldTyped, SpentInv
  <1>1. /\ \A d \in Call : d # c => stage'[d] = stage[d] /\ got'[d] = got[d]
        /\ \A k \in Call : stage[k] = "done" =>
             k # c /\ stage'[k] = "done" /\ issued'[k] = issued[k]
        /\ \A d \in DOMAIN script : User(d)' = User(d) /\ Of(d)' = Of(d)
    BY <1>0, CallByCall, DoneStays DEF User, Of
  \* What d presents is of a call that is done.
  <1>2. ASSUME NEW d \in DOMAIN script, script[d].kind \in {"refresh", "mfa", "revoke"},
               stage[d] # "idle"
        PROVE  Of(d) \in Call /\ stage[Of(d)] = "done" /\ Of(d) # c
    BY <1>0, <1>1, <1>2, Calls DEF CallsSound
  <1>3. ASSUME NEW d \in DOMAIN script, Of(d) \in Call, stage[Of(d)] = "done", Listed(Of(d))
        PROVE  Listed(Of(d))'
    <2>1. PICK k \in Call : k = Of(d) /\ k # c
      BY <1>1, <1>3
    <2>2. Void(Uses("check", k))
      BY <1>3, <2>1 DEF Void, Uses
    <2>3. Void(Uses("check", k))'
      BY <1>0, <2>2, VoidStays
    <2>4. Listed(k)'
      BY <2>3 DEF Void, Uses
    <2>. QED
      BY <1>1, <2>1, <2>4 DEF Listed, Expires
  <1>4. ASSUME NEW d \in DOMAIN script, d # c PROVE UnderWay(d)'
    <2>0. UnderWay(d) /\ stage'[d] = stage[d] /\ got'[d] = got[d] /\ d \in Call
      BY <1>0, <1>1, <1>4
    <2>1. ASSUME At(d, {"refresh", "mfa"}, "store") PROVE key'[Presented(d)] = 0
      BY <1>0, <1>2, <2>0, <2>1, KeyStep DEF UnderWay, At, Presented
    <2>2. ASSUME At(d, {"revoke"}, "store") PROVE Expires(Of(d))' <= now + got[d]
      BY <1>0, <1>1, <1>2, <2>0, <2>2 DEF UnderWay, At, Expires
    <2>3. ASSUME At(d, {"revoke"}, "delete") PROVE Listed(Of(d))'
      BY <1>2, <1>3, <2>0, <2>3 DEF UnderWay, At
    <2>4. ASSUME At(d, {"forgot"}, "store") \/ At(d, {"reset"}, "update")
          PROVE  Exists(User(d))'
      <3>1. User(d) \in Name /\ Exists(User(d))
        BY <1>0, <2>0, <2>4, Names DEF UnderWay, At
      <3>2. PICK n \in Name : n = User(d) /\ Exists(n)'
        BY <1>0, <3>1, RowStep
      <3>. QED
        BY <1>1, <3>2 DEF Exists
    <2>5. ASSUME At(d, {"reset"}, "delete") PROVE Replaced(User(d), got[d])'
      <3>1. PICK n \in Name, p \in {got[d]} : n = User(d) /\ Replaced(n, p)
        BY <1>0, <2>0, <2>5, Names DEF UnderWay, At
      <3>2. Replaced(n, p)'
        BY <1>0, <3>1, RowStep
      <3>. QED
        BY <1>1, <2>0, <3>1, <3>2 DEF Replaced, Exists, Written
    <2>. QED
      BY <1>0, <1>1, <2>0, <2>1, <2>2, <2>3, <2>4, <2>5 DEF UnderWay, At, Presented
  <1>5. UnderWay(c)'
    <2>1. CASE Consume(c)
      <3>1. /\ key' = [key EXCEPT ![Presented(c)] = 0] /\ stage'[c] = "store"
            /\ script[c].kind \in {"refresh", "mfa"} /\ Presented(c)' = Presented(c)
        BY <1>0, <2>1 DEF Consume, Del, Step, Goes, At, CallsTyped, Presented, Of
      <3>2. Presented(c) \in Key
        BY <1>0, <3>1, Calls DEF Presented, Key
      <3>3. key'[Presented(c)] = 0
        BY <3>1, <3>2 DEF TypeInv, StoresTyped
      <3>. QED
        BY <1>0, <3>1, <3>3 DEF UnderWay, At
    <2>2. CASE Revoke(c)
      <3>1. /\ script[c].kind = "revoke" /\ Of(c) \in Call /\ UNCHANGED issued
            /\ issued[Of(c)] \in Nat
        BY <1>0, <2>2, Calls, Lives DEF Revoke, Begins, At, CallsTyped
      <3>2. CASE now < Expires(Of(c))
        <4>1. got'[c] = Expires(Of(c)) - now /\ stage'[c] = "store"
          BY <1>0, <2>2, <3>2 DEF Revoke, Remembers, Step, Goes, CallsTyped
        <4>2. Expires(Of(c))' = Expires(Of(c)) /\ Expires(Of(c)) \in Nat
          BY <1>0, <1>1, <3>1, Lives DEF Expires
        <4>3. Expires(Of(c))' <= (now + got[c])'
          BY <1>0, <4>1, <4>2
        <4>. QED
          BY <1>0, <3>1, <4>1, <4>3 DEF UnderWay, At
      <3>3. CASE ~(now < Expires(Of(c)))
        <4>1. stage'[c] = "delete"
          BY <1>0, <2>2, <3>3 DEF Revoke, Step, Goes, CallsTyped
        <4>2. Expires(Of(c))' = Expires(Of(c)) /\ Expires(Of(c)) \in Nat
          BY <1>0, <1>1, <3>1, Lives DEF Expires
        <4>3. Listed(Of(c))'
          BY <1>0, <3>3, <4>2 DEF Listed
        <4>. QED
          BY <1>0, <3>1, <4>1, <4>3 DEF UnderWay, At
      <3>. QED
        BY <3>2, <3>3
    <2>3. CASE Blacklist(c)
      <3>1. /\ script[c].kind = "revoke" /\ Of(c) \in Call /\ UNCHANGED issued
            /\ stage[c] = "store" /\ stage'[c] = "delete"
            /\ key' = [key EXCEPT ![<<"blacklist", Of(c)>>] = now + got[c]]
        BY <1>0, <2>3, Calls DEF Blacklist, At, Step, Goes, SetEx, CallsTyped
      <3>2. key'[<<"blacklist", Of(c)>>] = now + got[c]
        <4>1. <<"blacklist", Of(c)>> \in Key
          BY <3>1 DEF Key
        <4>. QED
          BY <3>1, <4>1 DEF TypeInv, StoresTyped
      <3>3. Expires(Of(c)) <= now + got[c]
        BY <1>0, <2>3 DEF UnderWay, Blacklist
      <3>4. Listed(Of(c))'
        BY <1>1, <3>1, <3>2, <3>3, <1>0 DEF Listed, Expires
      <3>. QED
        BY <1>0, <3>1, <3>4 DEF UnderWay, At
    <2>4. CASE FindUser(c)
      <3>1. /\ script[c].kind = "forgot" /\ User(c) \in Name /\ UNCHANGED row
            /\ stage'[c] = "store" => Exists(User(c))
        BY <1>0, <2>4, Names DEF FindUser, At, Step, Answer, Goes, stores, CallsTyped
      <3>. QED
        BY <1>0, <1>1, <3>1 DEF UnderWay, At, Exists
    <2>5. CASE GetCode(c)
      <3>1. /\ script[c].kind = "reset" /\ User(c) \in Name /\ UNCHANGED row
            /\ stage'[c] \in {"update", "done"}
            /\ stage'[c] = "update" =>
                 reset[User(c)].code = Of(c) /\ now < reset[User(c)].until
        BY <1>0, <2>5, Names DEF GetCode, At, Step, Answer, Goes, stores, CallsTyped
      <3>2. stage'[c] = "update" => Exists(User(c))
        BY <1>0, <3>1 DEF CodesSound
      <3>. QED
        BY <1>0, <1>1, <3>1, <3>2 DEF UnderWay, At, Exists
    <2>6. CASE UpdatePassword(c)
      <3>1. /\ script[c].kind = "reset" /\ stage[c] = "update" /\ stage'[c] = "delete"
            /\ got'[c] = row[User(c)].password /\ User(c) \in Name /\ Exists(User(c))
            /\ row' = [row EXCEPT ![User(c)].password = c]
        BY <1>0, <2>6, Names
           DEF UpdatePassword, At, Step, Goes, Remembers, UnderWay, CallsTyped
      <3>2. PICK n \in Name, p \in {row[User(c)].password} : n = User(c)
        BY <3>1
      <3>3. Written(p) /\ Written(p)' /\ p # c
        BY <1>0, <3>1, <3>2, WrittenStays, Calls DEF CodesSound, Written
      <3>4. row'[n].password = c /\ row'[n].id = row[n].id
        BY <3>1, <3>2 DEF TypeInv, StoresTyped, Row
      <3>5. Replaced(n, p)'
        BY <3>1, <3>2, <3>3, <3>4 DEF Replaced, Exists
      <3>. QED
        BY <1>0, <1>1, <3>1, <3>2, <3>5 DEF UnderWay, At, Replaced, Exists, Written
    <2>7. CASE ~(\/ Consume(c) \/ Revoke(c) \/ Blacklist(c) \/ FindUser(c) \/ GetCode(c)
                 \/ UpdatePassword(c))
      <3>1. /\ script[c].kind \in {"refresh", "mfa"} => stage'[c] # "store"
            /\ script[c].kind = "revoke" => stage'[c] \notin {"store", "delete"}
            /\ script[c].kind = "forgot" => stage'[c] # "store"
            /\ script[c].kind = "reset" => stage'[c] \notin {"update", "delete"}
        <4>1. ASSUME Begin(c) \/ CallFails(c)
              PROVE  stage'[c] \notin {"store", "delete", "update"}
          BY <1>0, <4>1 DEF Begin, CallFails, Step, Answer, Goes, CallsTyped
        <4>2. ASSUME Register(c) \/ Token(c) PROVE
                /\ script[c].kind \notin {"revoke", "forgot", "reset"}
                /\ script[c].kind \in {"refresh", "mfa"} => stage'[c] # "store"
          BY <1>0, <2>7, <4>2 DEF Register, NextId, InsertAccount, SendEvent, SendEventFails,
             Token, CheckClient, Login, Challenge, GetPresented, Grant, At, Step, Answer, Goes,
             CallsTyped
        <4>3. ASSUME Logout(c) \/ Password(c) PROVE
                /\ script[c].kind \notin {"refresh", "mfa"}
                /\ stage'[c] = "done" \/ script[c].kind = "check"
          BY <1>0, <2>7, <4>3 DEF Logout, RevokeRefresh, Verify, GetBlacklisted, Password, StoreCode,
             DeleteCode, At, Answer, Goes, CallsTyped
        <4>. QED
          BY <4>1, <4>2, <4>3 DEF Runs
      <3>. QED
        BY <1>0, <3>1 DEF UnderWay, At
    <2>. QED
      BY <2>1, <2>2, <2>3, <2>4, <2>5, <2>6, <2>7
  <1>. QED
    BY <1>0, <1>4, <1>5

\* A call that began with a void request finds out, and does nothing.
LEMMA StaleStep ==
  ASSUME IInv, TypeInv, SpentInv, NEW c \in Call, Runs(c)
  PROVE  \A d \in stale' : Refused(d)'
  <1>0. /\ CallsTyped /\ script \in Scripts /\ UNCHANGED <<script, now, evicted>> /\ now \in Nat
        /\ CodesSound /\ c \in DOMAIN script /\ DOMAIN script \subseteq Call
        /\ spent \subseteq spent'
    <2>1. spent \subseteq spent'
      BY Changes DEF Grant, RevokeRefresh, StoreCode, DeleteCode, Answer
    <2>. QED
      BY <2>1, CallsSoundStep, OneCall, Calls, Lives DEF TypeInv, WorldTyped, SpentInv
  <1>1. \A d \in Call : d # c => stage'[d] = stage[d]
    BY <1>0, CallByCall
  <1>2. ASSUME NEW d \in stale, d # c PROVE Refused(d)'
    <2>1. Refused(d) /\ d \in Call
      BY <1>0, <1>2 DEF SpentInv, Refused
    <2>. QED
      BY <1>0, <1>1, <1>2, <2>1 DEF Refused
  <1>3. script[c] \in spent =>
          /\ Void(script[c])
          /\ script[c].kind \in {"refresh", "mfa", "check", "reset", "password"}
    BY DEF SpentInv, Void
  \* It goes on from where it asks.
  <1>4. ASSUME script[c] \in spent, stage[c] \in {"client", "get"}
        PROVE  stage'[c] \in {"client", "get", "done"}
    <2>1. CASE CallFails(c) \/ CheckClient(c) \/ GetBlacklisted(c)
      BY <1>0, <2>1 DEF CallFails, CheckClient, GetBlacklisted, Step, Answer, Goes, CallsTyped
    <2>2. CASE Login(c)
      <3>1. Void(script[c]) /\ script[c].kind = "password"
        BY <1>3, <1>4, <2>2 DEF Login, At
      <3>2. row[User(c)].password # Of(c)
        BY <3>1 DEF Void, Replaced, User, Of
      <3>. QED
        BY <1>0, <2>2, <3>2 DEF Login, Answer, Goes, CallsTyped
    <2>3. CASE GetPresented(c)
      <3>1. Void(script[c]) /\ script[c].kind \in {"refresh", "mfa"}
        BY <1>3, <1>4, <2>3 DEF GetPresented, At
      <3>2. key[Presented(c)] = 0
        BY <3>1 DEF Void, Presented, Of
      <3>3. ~Live(Presented(c))
        BY <1>0, <3>2 DEF Live
      <3>. QED
        BY <1>0, <2>3, <3>3 DEF GetPresented, Answer, Goes, CallsTyped
    <2>4. CASE GetCode(c)
      <3>1. Void(script[c]) /\ script[c].kind = "reset" /\ User(c) \in Name
        BY <1>0, <1>3, <1>4, <2>4, Names DEF GetCode, At
      <3>2. ~(reset[User(c)].code = Of(c) /\ now < reset[User(c)].until)
        <4>1. Of(c) # 0 => reset[User(c)].code # Of(c)
          BY <3>1 DEF Void, User, Of
        <4>2. reset[User(c)].code = 0 => reset[User(c)].until = 0
          BY <1>0, <3>1 DEF CodesSound
        <4>. QED
          BY <1>0, <4>1, <4>2
      <3>. QED
        BY <1>0, <2>4, <3>2 DEF GetCode, Answer, Goes, CallsTyped
    <2>. QED
      BY <1>3, <1>4, <2>1, <2>2, <2>3, <2>4 DEF Runs, Begin, Register, NextId, InsertAccount,
         SendEvent, SendEventFails, Token, Challenge, Consume, Grant, Logout, Revoke, Blacklist,
         RevokeRefresh, Verify, Password, FindUser, StoreCode, UpdatePassword, DeleteCode, At
  <1>5. ASSUME c \in stale' PROVE Refused(c)'
    <2>1. CASE c \in stale
      <3>1. script[c] \in spent /\ stage[c] \in {"client", "get", "done"} /\ stage[c] # "done"
        BY <1>0, <2>1, OneCall DEF SpentInv, Refused
      <3>. QED
        BY <1>0, <1>4, <3>1 DEF Refused
    <2>2. CASE c \notin stale
      <3>1. (Begin(c) \/ Revoke(c) \/ Verify(c)) /\ Begins(c)
        BY <1>5, <2>2 DEF Runs, Begin, CallFails, Register, NextId, InsertAccount, SendEvent,
           SendEventFails, Token, CheckClient, Login, Challenge, GetPresented, Consume, Grant,
           Logout, Revoke, Blacklist, RevokeRefresh, Verify, GetBlacklisted, Password, FindUser,
           StoreCode, GetCode, UpdatePassword, DeleteCode
      <3>2. script[c] \in spent
        BY <1>5, <2>2, <3>1 DEF Begins
      <3>3. stage'[c] \in {"client", "get", "done"}
        BY <1>0, <1>3, <3>1, <3>2 DEF Begin, Revoke, Verify, At, Step, Answer, Goes, CallsTyped
      <3>. QED
        BY <1>0, <3>2, <3>3 DEF Refused
    <2>. QED
      BY <2>1, <2>2
  <1>6. stale' \subseteq stale \cup {c}
    BY DEF Runs, Begin, Begins, CallFails, Register, NextId, InsertAccount, SendEvent,
       SendEventFails, Token, CheckClient, Login, Challenge, GetPresented, Consume, Grant, Logout,
       Revoke, Blacklist, RevokeRefresh, Verify, GetBlacklisted, Password, FindUser, StoreCode,
       GetCode, UpdatePassword, DeleteCode
  <1>. QED
    BY <1>2, <1>5, <1>6

\* A call's step keeps all this.
LEMMA SpentCallStep ==
  ASSUME IInv, TypeInv, SpentInv, NEW c \in Call, Runs(c)
  PROVE  SpentInv'
  <1>1. CallsSound' /\ c \in DOMAIN script
    BY CallsSoundStep DEF SpentInv
  <1>2. CodesSound'
    BY <1>1, CodeStep DEF SpentInv
  <1>3. ASSUME NEW r \in spent' PROVE Void(r)'
    <2>1. CASE r \in spent
      BY <1>1, <2>1, VoidStays DEF SpentInv
    <2>2. CASE r \notin spent
      BY <1>3, <2>2, VoidMade
    <2>. QED
      BY <2>1, <2>2
  <1>. QED
    BY <1>1, <1>2, <1>3, UnderWayStep, StaleStep DEF SpentInv

\* What goes on beside the calls: time, the rows of sample users, and Redis dropping keys.
Beside ==
  /\ UNCHANGED <<script, callVars>> /\ now <= now' /\ now' \in 0..MaxTime
  /\ evicted \subseteq evicted'
  /\ \A k \in Key : key'[k] = key[k] \/ (key'[k] = 0 /\ k \in evicted')
  /\ \A n \in Name :
       \/ reset'[n] = reset[n]
       \/ /\ reset'[n].code = 0 /\ reset'[n].until = 0
          /\ <<"reset", reset[n].code>> \in evicted'
  /\ \A n \in Name : IF Exists(n) THEN row'[n] = row[n]
                     ELSE Exists(n)' => row'[n].password = 0

\* A step is a call's, or goes on beside the calls.
LEMMA IsBeside ==
  ASSUME IInv, TypeInv, InitDB \/ Users \/ Redis \/ Tick \/ UNCHANGED vars
  PROVE  Beside
  <1>0. now \in 0..MaxTime /\ MaxTime \in Nat /\ row \in [Name -> Row]
    BY Lives DEF TypeInv, WorldTyped, StoresTyped
  <1>1. CASE InitDB
    <2>1. UNCHANGED <<script, evicted, key, reset, callVars, now>>
      BY <1>1 DEF InitDB, CreateTables, CountCredentials, SeedUser, SeedClients, InitFails, world
    <2>2. CASE UNCHANGED row
      BY <1>0, <2>1, <2>2 DEF Beside, Exists
    <2>3. CASE SeedUser /\ ~Taken(Seed[seeded + 1], seeded + 1)
      <3>1. PICK m \in Name :
              m = Seed[seeded + 1] /\ row' = [row EXCEPT ![m] = [id |-> seeded + 1, password |-> 0]]
        <4>1. Seed[seeded + 1] \in Name
          BY <2>3, IdpAssumption DEF IInv, Typed, SeedUser
        <4>. QED
          BY <2>3, <4>1 DEF SeedUser, Inserts
      <3>2. ~Exists(m) /\ row'[m].password = 0 /\ \A n \in Name : n # m => row'[n] = row[n]
        BY <1>0, <2>3, <3>1 DEF Taken
      <3>. QED
        BY <1>0, <2>1, <3>2 DEF Beside, Exists
    <2>. QED
      BY <1>1, <2>2, <2>3
         DEF InitDB, CreateTables, CountCredentials, SeedUser, SeedClients, InitFails
  <1>2. CASE Users
    <2>1. UNCHANGED <<script, evicted, key, reset, callVars, now, row>>
      BY <1>2 DEF Users, CountProfiles, SaveSample, UsersRestart, CreateUser, CreateUserFails, world,
                  stores
    <2>. QED
      BY <1>0, <2>1 DEF Beside, Exists
  <1>3. CASE Tick \/ UNCHANGED vars
    <2>1. UNCHANGED <<script, evicted, key, reset, callVars, row>> /\ now <= now' /\ now' \in 0..MaxTime
      BY <1>0, <1>3 DEF Tick, vars, world, stores
    <2>. QED
      BY <1>0, <2>1 DEF Beside, Exists
  <1>4. CASE Redis
    <2>1. UNCHANGED <<script, callVars, now, row>> /\ evicted \subseteq evicted'
      BY <1>4 DEF Redis, EvictKey, EvictCode, Evicts
    <2>2. \A k \in Key : key'[k] = key[k] \/ (key'[k] = 0 /\ k \in evicted')
      BY <1>4 DEF Redis, EvictKey, EvictCode, Evicts, TypeInv, StoresTyped
    <2>3. \A n \in Name :
            \/ reset'[n] = reset[n]
            \/ /\ reset'[n].code = 0 /\ reset'[n].until = 0
               /\ <<"reset", reset[n].code>> \in evicted'
      BY <1>4 DEF Redis, EvictKey, EvictCode, Evicts, TypeInv, StoresTyped
    <2>. QED
      BY <1>0, <2>1, <2>2, <2>3 DEF Beside, Exists
  <1>. QED
    BY <1>1, <1>2, <1>3, <1>4

\* It makes nothing good again.
LEMMA SpentBesideStep == ASSUME TypeInv, SpentInv, Beside PROVE SpentInv'
  <1>stores.
        /\ evicted \subseteq evicted'
        /\ \A k \in Key : key'[k] = key[k] \/ (key'[k] = 0 /\ k \in evicted')
        /\ \A n \in Name : reset'[n] = reset[n] \/ (reset'[n].code = 0 /\ reset'[n].until = 0)
    BY DEF Beside
  <1>calls.
        /\ UNCHANGED <<script, stage, got, issued, result, spent, stale>>
        /\ now <= now' /\ now' \in Nat
    BY Lives DEF Beside, callVars
  <1>0. /\ CallsTyped /\ script \in Scripts /\ DOMAIN script \subseteq Call
        /\ now \in Nat /\ CallsSound /\ CodesSound
        /\ key \in [Key -> 0..Latest] /\ Latest \in Nat
    BY Calls, Lives DEF TypeInv, WorldTyped, StoresTyped, SpentInv
  <1>1. \A p : Written(p)' = Written(p)
    BY <1>calls DEF Written
  <1>2. \A n \in Name : Exists(n) => Exists(n)' /\ row'[n] = row[n]
    BY DEF Beside, Exists
  <1>3. \A n \in Name : \A p : Replaced(n, p) => Replaced(n, p)'
    BY <1>1, <1>2 DEF Replaced
  <1>4. \A k \in Call : Listed(k) => Listed(k)'
    <2>. TAKE k \in Call
    <2>1. Expires(k)' = Expires(k) /\ Expires(k) \in Nat /\ <<"blacklist", k>> \in Key
      BY <1>0, <1>calls, Lives DEF Expires, CallsTyped, Key
    <2>. QED
      BY <1>0, <1>stores, <1>calls, <2>1 DEF Listed
  <1>5. CallsSound'
    BY <1>0, <1>calls DEF CallsSound, Of
  <1>6. CodesSound'
    <2>1. ASSUME NEW n \in Name, Exists(n)' PROVE Written(row[n].password)'
      <3>1. PICK p : p = row'[n].password
        OBVIOUS
      <3>2. Written(p)
        BY <1>0, <1>calls, <1>2, <2>1, <3>1 DEF Beside, CodesSound, Written
      <3>. QED
        BY <1>1, <3>1, <3>2 DEF Written
    <2>2. ASSUME NEW n \in Name
          PROVE  IF reset'[n].code = 0 THEN reset'[n].until = 0
                 ELSE Exists(n)' /\ stage'[reset'[n].code] = "done"
      <3>1. IF reset[n].code = 0 THEN reset[n].until = 0
            ELSE Exists(n) /\ stage[reset[n].code] = "done"
        BY <1>0 DEF CodesSound
      <3>2. CASE reset'[n] = reset[n]
        BY <1>calls, <1>2, <3>1, <3>2
      <3>3. CASE reset'[n].code = 0 /\ reset'[n].until = 0
        BY <3>3
      <3>. QED
        BY <1>stores, <3>2, <3>3
    <2>. QED
      BY <2>1, <2>2 DEF CodesSound
  <1>7. ASSUME NEW r \in spent PROVE Void(r)'
    <2>1. Void(r)
      BY <1>7 DEF SpentInv
    <2>2. CASE r.kind \in {"refresh", "mfa"} /\ r.of \in Call
      <3>1. <<r.kind, r.of>> \in Key
        BY <2>2 DEF Key
      <3>. QED
        BY <1>stores, <1>calls, <2>1, <2>2, <3>1 DEF Void
    <2>5. CASE r.kind = "reset"
      <3>1. r.name \in Name /\ (r.of # 0 => r.of \in Call /\ stage[r.of] = "done")
        BY <2>1, <2>5 DEF Void
      <3>2. r.of # 0 => reset[r.name].code # r.of
        BY <2>1, <2>5 DEF Void
      <3>3. r.of # 0 => reset'[r.name].code # r.of
        BY <1>stores, <3>1, <3>2
      <3>. QED
        BY <1>calls, <2>5, <3>1, <3>3 DEF Void
    <2>3. CASE r.kind = "check" /\ r.of \in Call /\ stage[r.of] = "done" /\ Listed(r.of)
      <3>1. PICK k \in Call : k = r.of /\ Listed(k)'
        BY <1>4, <2>3
      <3>. QED
        BY <1>calls, <2>3, <3>1 DEF Void, Listed, Expires
    <2>4. CASE r.kind = "password" /\ r.name \in Name /\ Replaced(r.name, r.of)
      <3>1. PICK n \in Name, p \in {r.of} : n = r.name /\ Replaced(n, p)'
        BY <1>3, <2>4
      <3>. QED
        BY <2>4, <3>1 DEF Void, Replaced, Exists, Written
    <2>. QED
      BY <2>1, <2>2, <2>3, <2>4, <2>5 DEF Void
  <1>8. ASSUME NEW d \in DOMAIN script PROVE UnderWay(d)'
    <2>0. UnderWay(d) /\ d \in Call /\ User(d)' = User(d) /\ Of(d)' = Of(d)
          /\ Presented(d)' = Presented(d)
      BY <1>0, <1>calls DEF SpentInv, User, Of, Presented
    <2>1. ASSUME At(d, {"revoke"}, "store") PROVE Expires(Of(d))' <= now' + got[d]
      <3>1. Of(d) \in Call /\ got[d] \in Nat
        BY <1>0, <2>0, <2>1, Calls DEF At, CallsTyped
      <3>2. Expires(Of(d))' = Expires(Of(d)) /\ Expires(Of(d)) \in Nat
        BY <1>0, <1>calls, <2>0, <3>1, Lives DEF Expires, CallsTyped
      <3>3. Expires(Of(d)) <= now + got[d]
        BY <2>0, <2>1 DEF UnderWay
      <3>. QED
        BY <1>0, <1>calls, <3>1, <3>2, <3>3
    <2>2. ASSUME At(d, {"revoke"}, "delete") PROVE Listed(Of(d))'
      <3>1. PICK k \in Call : k = Of(d) /\ Listed(k)'
        BY <1>0, <1>4, <2>0, <2>2, Calls DEF At, UnderWay
      <3>. QED
        BY <2>0, <3>1 DEF Listed, Expires
    <2>3. ASSUME At(d, {"forgot"}, "store") \/ At(d, {"reset"}, "update") PROVE Exists(User(d))'
      <3>1. PICK n \in Name : n = User(d) /\ Exists(n)'
        BY <1>0, <1>2, <2>0, <2>3, Names DEF At, UnderWay
      <3>. QED
        BY <2>0, <3>1 DEF Exists
    <2>4. ASSUME At(d, {"reset"}, "delete") PROVE Replaced(User(d), got[d])'
      <3>1. PICK n \in Name, p \in {got[d]} : n = User(d) /\ Replaced(n, p)'
        BY <1>0, <1>3, <2>0, <2>4, Names DEF At, UnderWay
      <3>. QED
        BY <1>calls, <2>0, <3>1 DEF Replaced, Exists, Written
    <2>5. ASSUME At(d, {"refresh", "mfa"}, "store") PROVE key'[Presented(d)] = 0
      <3>1. Presented(d) \in Key
        BY <1>0, <2>5, Calls DEF At, Presented, Key
      <3>. QED
        BY <1>stores, <2>0, <2>5, <3>1 DEF UnderWay
    <2>. QED
      BY <1>calls, <2>0, <2>1, <2>2, <2>3, <2>4, <2>5 DEF UnderWay, At
  <1>. QED
    BY <1>0, <1>calls, <1>5, <1>6, <1>7, <1>8 DEF SpentInv, Refused

\* Nothing is void at the start.
LEMMA SpentInit == Init => SpentInv
  <1>. SUFFICES ASSUME Init PROVE SpentInv
    OBVIOUS
  <1>1. CallsSound
    BY Calls DEF Init, CallsSound
  <1>2. CodesSound
    BY DEF Init, CodesSound, Written
  <1>3. \A c \in DOMAIN script : UnderWay(c)
    BY Calls DEF Init, UnderWay, At
  <1>. QED
    BY <1>1, <1>2, <1>3 DEF Init, SpentInv

\* Every step keeps what is void so.
LEMMA SpentStep == IInv /\ TypeInv /\ SpentInv /\ [Next]_vars => SpentInv'
  BY SpentCallStep, IsBeside, SpentBesideStep DEF Next, Runs

\* Which steps give an answer that is no refusal.
LEMMA Answers ==
  ASSUME CallsTyped, NEW c \in Call, Runs(c), result[c] = "none"
  PROVE  /\ result'[c] = "ok" => \/ SendEvent(c) \/ Grant(c) \/ RevokeRefresh(c) \/ GetBlacklisted(c)
                                 \/ StoreCode(c) \/ DeleteCode(c)
         /\ result'[c] = "challenge" => Challenge(c)
  <1>1. CASE Begin(c) \/ CallFails(c) \/ Register(c)
    BY <1>1 DEF CallsTyped, Begin, CallFails, Register, NextId, InsertAccount, SendEvent,
                SendEventFails, Step, Answer
  <1>2. CASE Token(c)
    BY <1>2 DEF CallsTyped, Token, CheckClient, Login, Challenge, GetPresented, Consume, Grant, Step,
                Answer
  <1>3. CASE Logout(c)
    BY <1>3 DEF CallsTyped, Logout, Revoke, Blacklist, RevokeRefresh, Verify, GetBlacklisted, Step,
                Answer
  <1>4. CASE Password(c)
    BY <1>4 DEF CallsTyped, Password, FindUser, StoreCode, GetCode, UpdatePassword, DeleteCode, Step,
                Answer
  <1>. QED
    BY <1>1, <1>2, <1>3, <1>4 DEF Runs

\* No call that begins with a token, a code or a password that an answer has made
\* void comes to anything, however calls overlap and whatever Redis drops; only a
\* check may let a revoked token pass, if the token expires between its verification
\* and the look at the list, or if its entry in the list is what Redis dropped
\* (index.js:229-401, authenticateToken).
THEOREM VoidIsRefused == Spec => SpentRefused
  <1>1. ASSUME IInv, TypeInv, SpentInv, [Next]_vars, NEW c \in stale,
               result'[c] \in {"ok", "challenge"}, result[c] = "none"
        PROVE  /\ script[c].kind = "check"
               /\ now >= Expires(Of(c)) \/ <<"blacklist", Of(c)>> \in evicted
    <2>0. CallsTyped /\ Refused(c) /\ c \in Call /\ script \in Scripts
      BY <1>1 DEF TypeInv, SpentInv, CallsTyped, WorldTyped
    <2>1. result' # result
      BY <1>1
    <2>2. PICK d \in Call : Runs(d)
      BY <1>1, <2>1, IsBeside DEF Next, Runs, Beside, callVars
    <2>3. d = c
      BY <1>1, <2>0, <2>2, CallByCall
    <2>4. GetBlacklisted(c)
      BY <1>1, <2>0, <2>2, <2>3, Answers DEF Refused, SendEvent, Grant, RevokeRefresh, StoreCode,
         DeleteCode, Challenge, At
    <2>5. script[c].kind = "check" /\ ~Live(<<"blacklist", Of(c)>>)
      BY <1>1, <2>0, <2>4 DEF GetBlacklisted, At, Answer, CallsTyped
    <2>6. Listed(Of(c)) /\ Of(c) \in Call
      BY <1>1, <2>0, <2>5 DEF SpentInv, Refused, Void, Of
    <2>7. /\ key[<<"blacklist", Of(c)>>] \in Nat /\ now \in Nat /\ Expires(Of(c)) \in Nat
      <3>1. <<"blacklist", Of(c)>> \in Key
        BY <2>6 DEF Key
      <3>. QED
        BY <1>1, <2>6, <3>1, Lives
           DEF TypeInv, StoresTyped, WorldTyped, CallsTyped, Expires
    <2>. QED
      BY <2>5, <2>6, <2>7 DEF Live, Listed
  <1>2. IInv /\ TypeInv /\ SpentInv /\ [Next]_vars =>
          [\A c \in stale : result'[c] \in {"ok", "challenge"} /\ result[c] = "none" =>
             /\ script[c].kind = "check"
             /\ now >= Expires(Of(c)) \/ <<"blacklist", Of(c)>> \in evicted]_vars
    BY <1>1
  <1>. QED
    BY <1>2, InitTypes, TypeStep, SpentInit, SpentStep, Invariance, PTL DEF Spec, SpentRefused

-----------------------------------------------------------------------------
(* What was handed out. *)

\* It is in Redis for its life, or Redis dropped it, or a call began that uses or
\* replaces it.
UsedBy(kinds, c) == \E d \in DOMAIN script : Begun(d, kinds) /\ Of(d) = c
CodeTaken(c) == \E d \in DOMAIN script \ {c} : Begun(d, {"forgot", "reset"}) /\ User(d) = User(c)

KeptFor(c) ==
  /\ result[c] = "ok" /\ script[c].kind \in {"password", "refresh", "mfa"} =>
       \/ issued[c] + RefreshLife <= key[<<"refresh", c>>]
       \/ <<"refresh", c>> \in evicted
       \/ UsedBy({"refresh", "revoke"}, c)
  /\ result[c] = "challenge" =>
       \/ issued[c] + MfaLife <= key[<<"mfa", c>>]
       \/ <<"mfa", c>> \in evicted
       \/ UsedBy({"mfa"}, c)
  /\ result[c] = "ok" /\ script[c].kind = "forgot" =>
       reset[User(c)].code = c \/ <<"reset", c>> \in evicted \/ CodeTaken(c)

HandedInv == \A c \in DOMAIN script : KeptFor(c)

\* A call that has begun stays begun.
LEMMA UsedStays ==
  ASSUME TypeInv, NEW c \in Call, Runs(c), NEW k \in Call
  PROVE  /\ \A kinds : UsedBy(kinds, k) => UsedBy(kinds, k)'
         /\ CodeTaken(k) => CodeTaken(k)'
  <1>1. UNCHANGED script /\ DOMAIN script \subseteq Call
    BY OneCall, Calls DEF TypeInv, WorldTyped
  <1>2. \A d \in Call : stage[d] # "idle" => stage'[d] # "idle"
    BY CallByCall DEF TypeInv
  <1>. QED
    BY <1>1, <1>2 DEF UsedBy, CodeTaken, Begun, Of, User

\* A call's step does not take what another was handed, unless it is one that uses it.
LEMMA OthersKeep ==
  ASSUME TypeInv, NEW c \in Call, Runs(c), c \in DOMAIN script,
         NEW k \in DOMAIN script, k # c, KeptFor(k)
  PROVE  KeptFor(k)'
  <1>0. /\ k \in Call /\ UNCHANGED <<script, evicted>> /\ stage'[c] # "idle"
        /\ result'[k] = result[k] /\ issued'[k] = issued[k]
    BY OneCall, CallByCall, Calls DEF TypeInv, WorldTyped
  <1>1. \/ key'[<<"refresh", k>>] = key[<<"refresh", k>>]
        \/ UsedBy({"refresh", "revoke"}, k)'
    BY <1>0, KeyStep DEF UsedBy, Begun, Of
  <1>2. \/ key'[<<"mfa", k>>] = key[<<"mfa", k>>]
        \/ UsedBy({"mfa"}, k)'
    BY <1>0, KeyStep DEF UsedBy, Begun, Of
  <1>3. ASSUME script[k].kind = "forgot"
        PROVE  reset'[User(k)] = reset[User(k)] \/ CodeTaken(k)'
    <2>1. CASE UNCHANGED reset
      BY <2>1
    <2>2. CASE StoreCode(c) \/ DeleteCode(c)
      <3>1. script[c].kind \in {"forgot", "reset"}
        BY <2>2 DEF StoreCode, DeleteCode, At
      <3>2. PICK code : reset' = [reset EXCEPT ![User(c)] = code]
        BY <2>2 DEF StoreCode, DeleteCode
      <3>3. CASE User(c) = User(k)
        BY <1>0, <3>1, <3>3 DEF CodeTaken, Begun, User
      <3>4. CASE User(c) # User(k)
        <4>1. DOMAIN reset = Name /\ User(k) \in Name
          BY <1>3, Names DEF TypeInv, WorldTyped, StoresTyped
        <4>. QED
          BY <3>2, <3>4, <4>1
      <3>. QED
        BY <3>3, <3>4
    <2>. QED
      BY <2>1, <2>2, Changes
  <1>4. /\ UsedBy({"refresh", "revoke"}, k) => UsedBy({"refresh", "revoke"}, k)'
        /\ UsedBy({"mfa"}, k) => UsedBy({"mfa"}, k)'
        /\ CodeTaken(k) => CodeTaken(k)'
    BY <1>0, UsedStays
  <1>5. User(k)' = User(k)
    BY <1>0 DEF User
  <1>. QED
    BY <1>0, <1>1, <1>2, <1>3, <1>4, <1>5 DEF KeptFor

\* What a call hands out is there.
LEMMA HandsOut ==
  ASSUME TypeInv, CallsSound, NEW c \in Call, Runs(c), c \in DOMAIN script
  PROVE  KeptFor(c)'
  <1>0. /\ CallsTyped /\ UNCHANGED script /\ script \in Scripts
        /\ stage[c] # "done" /\ result[c] = "none"
    BY OneCall DEF TypeInv, WorldTyped, CallsSound
  <1>1. /\ now \in Nat /\ issued[c] \in Nat /\ issued[c] <= now
        /\ key \in [Key -> 0..Latest] /\ reset \in [Name -> [code : 0..MaxCalls, until : 0..Latest]]
        /\ RefreshLife \in Nat /\ MfaLife \in Nat
        /\ <<"refresh", c>> \in Key /\ <<"mfa", c>> \in Key
    BY Lives DEF TypeInv, WorldTyped, StoresTyped, CallsTyped, GotSound, Key
  <1>2. ASSUME result'[c] = "ok", script[c].kind \in {"password", "refresh", "mfa"}
        PROVE  issued'[c] + RefreshLife <= key'[<<"refresh", c>>]
    <2>1. Grant(c)
      BY <1>0, <1>2, Answers DEF SendEvent, RevokeRefresh, GetBlacklisted, StoreCode, DeleteCode, At
    <2>. QED
      BY <1>1, <2>1 DEF Grant, SetEx
  <1>3. ASSUME result'[c] = "challenge"
        PROVE  issued'[c] + MfaLife <= key'[<<"mfa", c>>]
    <2>1. Challenge(c)
      BY <1>0, <1>3, Answers
    <2>. QED
      BY <1>0, <1>1, <2>1 DEF Challenge, SetEx, Issues, CallsTyped
  <1>4. ASSUME result'[c] = "ok", script[c].kind = "forgot"
        PROVE  reset'[User(c)].code = c
    <2>1. StoreCode(c)
      BY <1>0, <1>4, Answers DEF SendEvent, Grant, RevokeRefresh, GetBlacklisted, DeleteCode, At
    <2>2. User(c) \in Name
      BY <1>0, <1>4, Names
    <2>. QED
      BY <1>1, <2>1, <2>2 DEF StoreCode
  <1>. QED
    BY <1>0, <1>2, <1>3, <1>4 DEF KeptFor, User

\* Every step keeps what was handed out, or a call began that uses it.
LEMMA HandedStep == IInv /\ TypeInv /\ SpentInv /\ HandedInv /\ [Next]_vars => HandedInv'
  <1>. SUFFICES ASSUME IInv, TypeInv, SpentInv, HandedInv, [Next]_vars PROVE HandedInv'
    OBVIOUS
  <1>1. ASSUME NEW c \in Call, Runs(c) PROVE HandedInv'
    <2>1. CallsSound /\ c \in DOMAIN script /\ UNCHANGED script
      BY <1>1, CallsSoundStep, OneCall DEF SpentInv, TypeInv
    <2>2. ASSUME NEW k \in DOMAIN script PROVE KeptFor(k)'
      BY <1>1, <2>1, OthersKeep, HandsOut DEF HandedInv
    <2>. QED
      BY <2>1, <2>2 DEF HandedInv
  <1>2. ASSUME Beside PROVE HandedInv'
    <2>1. UNCHANGED <<script, stage, issued, result>> /\ evicted \subseteq evicted'
      BY <1>2 DEF Beside, callVars
    <2>2. ASSUME NEW k \in DOMAIN script PROVE KeptFor(k)'
      <3>1. /\ UsedBy({"refresh", "revoke"}, k)' = UsedBy({"refresh", "revoke"}, k)
            /\ UsedBy({"mfa"}, k)' = UsedBy({"mfa"}, k)
            /\ CodeTaken(k)' = CodeTaken(k)
            /\ User(k)' = User(k)
        BY <2>1 DEF UsedBy, CodeTaken, Begun, Of, User
      <3>2. KeptFor(k)
        BY DEF HandedInv
      <3>3. \A what \in {"refresh", "mfa"} :
              key'[<<what, k>>] = key[<<what, k>>] \/ <<what, k>> \in evicted'
        <4>1. \A what \in {"refresh", "mfa"} : <<what, k>> \in Key
          BY Calls DEF TypeInv, WorldTyped, Key
        <4>. QED
          BY <1>2, <4>1 DEF Beside
      <3>4. script[k].kind = "forgot" /\ reset[User(k)].code = k =>
              reset'[User(k)].code = k \/ <<"reset", k>> \in evicted'
        <4>1. script[k].kind = "forgot" => User(k) \in Name
          BY Names DEF TypeInv, WorldTyped
        <4>. QED
          BY <1>2, <4>1 DEF Beside
      <3>. QED
        BY <2>1, <3>1, <3>2, <3>3, <3>4 DEF KeptFor
    <2>. QED
      BY <2>1, <2>2 DEF HandedInv
  <1>. QED
    BY <1>1, <1>2, IsBeside DEF Next, Runs

\* A refresh token, a one-time code or a reset code that a caller was handed is in
\* Redis for its whole life, or until a call begins that uses it or replaces the
\* code, whatever else is under way, unless Redis itself dropped it (index.js:229-401).
THEOREM HandedOutKept == Spec => []HandedOutIsKept
  <1>1. Init => HandedInv
    BY Calls DEF Init, HandedInv, KeptFor
  <1>2. ASSUME TypeInv, HandedInv PROVE HandedOutIsKept
    <2>1. ASSUME NEW c \in DOMAIN script
          PROVE  /\ issued[c] + RefreshLife <= key[<<"refresh", c>>] =>
                      Live(<<"refresh", c>>) \/ now >= issued[c] + RefreshLife
                 /\ issued[c] + MfaLife <= key[<<"mfa", c>>] =>
                      Live(<<"mfa", c>>) \/ now >= issued[c] + MfaLife
      <3>1. c \in Call /\ <<"refresh", c>> \in Key /\ <<"mfa", c>> \in Key
        BY <1>2, <2>1, Calls DEF TypeInv, WorldTyped, Key
      <3>2. /\ now \in Nat /\ issued[c] \in Nat /\ RefreshLife \in Nat /\ MfaLife \in Nat
            /\ key[<<"refresh", c>>] \in Nat /\ key[<<"mfa", c>>] \in Nat
        BY <1>2, <3>1, Lives DEF TypeInv, WorldTyped, StoresTyped, CallsTyped
      <3>. QED
        BY <3>2 DEF Live
    <2>. QED
      BY <1>2, <2>1 DEF HandedInv, KeptFor, HandedOutIsKept, UsedBy, CodeTaken
  <1>. QED
    BY <1>1, <1>2, HandedStep, InitTypes, TypeStep, SpentInit, SpentStep, Invariance, PTL DEF Spec
=============================================================================

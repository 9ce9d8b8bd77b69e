--------------------------- MODULE GatewayRoutes ---------------------------
(***************************************************************************)
(* The dynamic routes of the API gateway (api-gateway/index.js): a table   *)
(* in Postgres that the gateways share, a management API that changes it   *)
(* and announces each change on a Kafka topic, and in each gateway the     *)
(* router that was built from the table when the gateway last read it.     *)
(*                                                                         *)
(* A gateway reads the table when it starts and at each event it consumes. *)
(* The consumer runs before the start has read the table, so the two can   *)
(* read at the same time; the consumer itself is serial.  A read is two    *)
(* steps: the database takes the snapshot, later the gateway installs it.  *)
(*                                                                         *)
(* An answer to a management call that changes nothing (400, 404, 409 and  *)
(* the three GETs) is a stuttering step.                                   *)
(***************************************************************************)
EXTENDS Integers, Sequences

CONSTANTS
  Gateways,       \* the processes that run api-gateway/index.js
  Keys,           \* (method, path) pairs, the UNIQUE columns of the table
  Targets,        \* what a route forwards to: a topic with its uri, or a url
  NoTarget,       \* a row with neither: the router answers 502
  Absent,         \* no row has this key
  NoSnapshot,     \* no read of the table is under way
  Bodies,         \* the rows that management calls ask for
  Defaults,       \* the routes seeded at start, in order: <<key, target>>
  Retries,        \* attempts to initialise (15 in the code)
  MaxChanges, MaxFailures, MaxCrashes   \* bounds

Row == [target : Targets \cup {NoTarget}, active : BOOLEAN]

\* What a read of the table gives: its active routes, and which table it was.
Snapshot == [version : Nat, routes : SUBSET (Keys \X (Targets \cup {NoTarget}))]

ASSUME RoutesAssumption ==
  /\ Defaults \in Seq(Keys \X Targets)
  /\ Bodies \subseteq Row
  /\ Retries \in Nat \ {0}
  /\ MaxChanges \in Nat /\ MaxFailures \in Nat /\ MaxCrashes \in Nat
  /\ Absent \notin Row
  /\ NoSnapshot \notin Snapshot

VARIABLES
  table,       \* the rows, by key
  version,     \* how often the table was changed
  log,         \* the topic: for each event, the version it announces
  phase,       \* of each gateway: "down", "init", "up" (listening)
  attempt,     \* failed attempts to initialise
  seeded,      \* default routes inserted in this attempt
  startLoad,   \* the snapshot the start has read and not installed
  eventLoad,   \* the snapshot the consumer has read and not installed
  served,      \* the router: the snapshot installed last
  change,      \* version a management call made and has not published, or 0
  position,    \* events the consumer is past, -1 before it has a position
  committed,   \* the offset its group has committed, -1 if none
  upAt,        \* its position when it began to listen
  failedLoads, \* events whose read of the table failed
  failures, crashes

tableVars == <<table, version, log>>
vars == <<table, version, log, phase, attempt, seeded, startLoad, eventLoad,
          served, change, position, committed, upAt, failedLoads, failures, crashes>>

----------------------------------------------------------------------------
\* SELECT * FROM routes WHERE is_active = true
ActiveRoutes(rows) ==
  {<<k, rows[k].target>> : k \in {k \in Keys : rows[k] # Absent /\ rows[k].active}}

EmptyRouter == [version |-> 0, routes |-> {}]
Read == [version |-> version, routes |-> ActiveRoutes(table)]

TypeOK ==
  /\ table \in [Keys -> Row \cup {Absent}]
  /\ version \in Nat
  /\ log \in Seq(Nat)
  /\ phase \in [Gateways -> {"down", "init", "up"}]
  /\ attempt \in [Gateways -> 0..Retries]
  /\ seeded \in [Gateways -> 0..Len(Defaults)]
  /\ startLoad \in [Gateways -> Snapshot \cup {NoSnapshot}]
  /\ eventLoad \in [Gateways -> Snapshot \cup {NoSnapshot}]
  /\ served \in [Gateways -> Snapshot]
  /\ change \in [Gateways -> 0..version]
  /\ position \in [Gateways -> -1..Len(log)]
  /\ committed \in [Gateways -> -1..Len(log)]
  /\ upAt \in [Gateways -> -1..Len(log)]
  /\ failedLoads \in [Gateways -> SUBSET (1..Len(log))]
  /\ failures \in 0..MaxFailures
  /\ crashes \in 0..MaxCrashes

Init ==
  /\ table = [k \in Keys |-> Absent]
  /\ version = 0
  /\ log = << >>
  /\ phase = [g \in Gateways |-> "down"]
  /\ attempt = [g \in Gateways |-> 0]
  /\ seeded = [g \in Gateways |-> 0]
  /\ startLoad = [g \in Gateways |-> NoSnapshot]
  /\ eventLoad = [g \in Gateways |-> NoSnapshot]
  /\ served = [g \in Gateways |-> EmptyRouter]
  /\ change = [g \in Gateways |-> 0]
  /\ position = [g \in Gateways |-> -1]
  /\ committed = [g \in Gateways |-> -1]
  /\ upAt = [g \in Gateways |-> -1]
  /\ failedLoads = [g \in Gateways |-> {}]
  /\ failures = 0
  /\ crashes = 0

----------------------------------------------------------------------------
(* The start: consumers run, then initWithRetry, then listen. *)

Start(g) ==
  /\ phase[g] = "down"
  /\ phase' = [phase EXCEPT ![g] = "init"]
  /\ UNCHANGED <<tableVars, attempt, seeded, startLoad, eventLoad, served, change,
                 position, committed, upAt, failedLoads, failures, crashes>>

\* Mutant: INSERT without ON CONFLICT fails where the row is there.
SeedInsertsOnly(g) ==
  /\ phase[g] = "init"
  /\ seeded[g] < Len(Defaults)
  /\ LET route == Defaults[seeded[g] + 1]
     IN  /\ table[route[1]] = Absent
         /\ table' = [table EXCEPT ![route[1]] = [target |-> route[2], active |-> TRUE]]
  /\ version' = version + 1
  /\ seeded' = [seeded EXCEPT ![g] = @ + 1]
  /\ UNCHANGED <<log, phase, attempt, startLoad, eventLoad, served, change,
                 position, committed, upAt, failedLoads, failures, crashes>>

\* The next default route: INSERT ... ON CONFLICT DO NOTHING, without an event.
SeedRoute(g) ==
  /\ phase[g] = "init"
  /\ seeded[g] < Len(Defaults)
  /\ seeded' = [seeded EXCEPT ![g] = @ + 1]
  /\ LET route == Defaults[seeded[g] + 1]
     IN  IF table[route[1]] = Absent
         THEN /\ table' = [table EXCEPT ![route[1]] =
                             [target |-> route[2], active |-> TRUE]]
              /\ version' = version + 1
         ELSE UNCHANGED <<table, version>>
  /\ UNCHANGED <<log, phase, attempt, startLoad, eventLoad, served, change,
                 position, committed, upAt, failedLoads, failures, crashes>>

StartRead(g) ==
  /\ phase[g] = "init"
  /\ seeded[g] = Len(Defaults)
  /\ startLoad[g] = NoSnapshot
  /\ startLoad' = [startLoad EXCEPT ![g] = Read]
  /\ UNCHANGED <<tableVars, phase, attempt, seeded, eventLoad, served, change,
                 position, committed, upAt, failedLoads, failures, crashes>>

Listen(g) ==
  /\ phase' = [phase EXCEPT ![g] = "up"]
  /\ upAt' = [upAt EXCEPT ![g] = position[g]]

\* Mutant: app.listen does not wait for initWithRetry.
StartNotAwaited(g) ==
  /\ startLoad[g] # NoSnapshot
  /\ \/ phase[g] = "init" /\ Listen(g) /\ UNCHANGED <<served, startLoad>>
     \/ /\ phase[g] = "up"
        /\ served' = [served EXCEPT ![g] = startLoad[g]]
        /\ startLoad' = [startLoad EXCEPT ![g] = NoSnapshot]
        /\ UNCHANGED <<phase, upAt>>
  /\ UNCHANGED <<tableVars, attempt, seeded, eventLoad, change, position,
                 committed, failedLoads, failures, crashes>>

StartInstall(g) ==
  /\ phase[g] = "init"
  /\ startLoad[g] # NoSnapshot
  /\ served' = [served EXCEPT ![g] = startLoad[g]]
  /\ startLoad' = [startLoad EXCEPT ![g] = NoSnapshot]
  /\ Listen(g)
  /\ UNCHANGED <<tableVars, attempt, seeded, eventLoad, change, position,
                 committed, failedLoads, failures, crashes>>

\* A query of the attempt fails.  After the last attempt the gateway listens
\* all the same, with the router it has.
InitFails(g) ==
  /\ phase[g] = "init"
  /\ failures < MaxFailures
  /\ failures' = failures + 1
  /\ attempt' = [attempt EXCEPT ![g] = @ + 1]
  /\ seeded' = [seeded EXCEPT ![g] = 0]
  /\ startLoad' = [startLoad EXCEPT ![g] = NoSnapshot]
  /\ IF attempt[g] + 1 = Retries THEN Listen(g) ELSE UNCHANGED <<phase, upAt>>
  /\ UNCHANGED <<tableVars, eventLoad, served, change, position, committed,
                 failedLoads, crashes>>

----------------------------------------------------------------------------
(* The management API of a gateway that listens. *)

\* The query of a call has changed the table; its event is still to be sent.
Change(g, rows) ==
  /\ phase[g] = "up"
  /\ change[g] = 0
  /\ table' = rows
  /\ version' = version + 1
  /\ change' = [change EXCEPT ![g] = version + 1]
  /\ UNCHANGED <<log, phase, attempt, seeded, startLoad, eventLoad, served,
                 position, committed, upAt, failedLoads, failures, crashes>>

CreateRoute(g, k, row) ==
  /\ table[k] = Absent
  /\ Change(g, [table EXCEPT ![k] = row])

\* The target of the body replaces the row's even when the body has none; the
\* key may be another one that is free.
UpdateRoute(g, k, newKey, row) ==
  /\ table[k] # Absent
  /\ newKey = k \/ table[newKey] = Absent
  /\ Change(g, [table EXCEPT ![k] = Absent, ![newKey] = row])

DeleteRoute(g, k) ==
  /\ table[k] # Absent
  /\ Change(g, [table EXCEPT ![k] = Absent])

Publish(g) ==
  /\ change[g] # 0
  /\ log' = Append(log, change[g])
  /\ change' = [change EXCEPT ![g] = 0]
  /\ UNCHANGED <<table, version, phase, attempt, seeded, startLoad, eventLoad,
                 served, position, committed, upAt, failedLoads, failures, crashes>>

\* publishRouteUpdate catches the error: the caller is answered as if it were sent.
PublishFails(g) ==
  /\ change[g] # 0
  /\ failures < MaxFailures
  /\ failures' = failures + 1
  /\ change' = [change EXCEPT ![g] = 0]
  /\ UNCHANGED <<tableVars, phase, attempt, seeded, startLoad, eventLoad, served,
                 position, committed, upAt, failedLoads, crashes>>

----------------------------------------------------------------------------
(* The consumer of route events. *)

\* The consumer's first fetch: its group's offset, or else the end of the topic
\* (fromBeginning: false).  Nothing makes the start wait for it.
SetPosition(g) ==
  /\ phase[g] # "down"
  /\ position[g] = -1
  /\ LET first == IF committed[g] = -1 THEN Len(log) ELSE committed[g]
     IN  /\ position' = [position EXCEPT ![g] = first]
         /\ upAt' = [upAt EXCEPT ![g] = IF phase[g] = "up" THEN first ELSE @]
  /\ UNCHANGED <<tableVars, phase, attempt, seeded, startLoad, eventLoad, served,
                 change, committed, failedLoads, failures, crashes>>

EventRead(g) ==
  /\ position[g] # -1
  /\ position[g] < Len(log)
  /\ eventLoad[g] = NoSnapshot
  /\ eventLoad' = [eventLoad EXCEPT ![g] = Read]
  /\ UNCHANGED <<tableVars, phase, attempt, seeded, startLoad, served, change,
                 position, committed, upAt, failedLoads, failures, crashes>>

\* Mutant: the offset committed is one too high.
HandledAndNext(g) ==
  /\ position' = [position EXCEPT ![g] = @ + 1]
  /\ \E c \in {committed[g], position[g] + 2} :
       committed' = [committed EXCEPT ![g] = c]

\* The event is handled; its offset is committed now, or with a later one.
Handled(g) ==
  /\ position' = [position EXCEPT ![g] = @ + 1]
  /\ \E c \in {committed[g], position[g] + 1} :
       committed' = [committed EXCEPT ![g] = c]

\* Mutant: The rows are read but the router is not rebuilt.
NotRebuilt(g) ==
  /\ eventLoad[g] # NoSnapshot
  /\ eventLoad' = [eventLoad EXCEPT ![g] = NoSnapshot]
  /\ Handled(g)
  /\ UNCHANGED <<tableVars, phase, attempt, seeded, startLoad, served, change, upAt,
                 failedLoads, failures, crashes>>

\* Mutant: The routes are added to the router in use.
AddedToRouter(g) ==
  /\ eventLoad[g] # NoSnapshot
  /\ served' = [served EXCEPT ![g] =
       [version |-> eventLoad[g].version, routes |-> @.routes \cup eventLoad[g].routes]]
  /\ eventLoad' = [eventLoad EXCEPT ![g] = NoSnapshot]
  /\ Handled(g)
  /\ UNCHANGED <<tableVars, phase, attempt, seeded, startLoad, change, upAt,
                 failedLoads, failures, crashes>>

EventInstall(g) ==
  /\ eventLoad[g] # NoSnapshot
  /\ served' = [served EXCEPT ![g] = eventLoad[g]]
  /\ eventLoad' = [eventLoad EXCEPT ![g] = NoSnapshot]
  /\ Handled(g)
  /\ UNCHANGED <<tableVars, phase, attempt, seeded, startLoad, change, upAt,
                 failedLoads, failures, crashes>>

\* The query fails: the handler catches the error and the event is done with.
EventFails(g) ==
  /\ position[g] # -1
  /\ position[g] < Len(log)
  /\ eventLoad[g] = NoSnapshot
  /\ failures < MaxFailures
  /\ failures' = failures + 1
  /\ failedLoads' = [failedLoads EXCEPT ![g] = @ \cup {position[g] + 1}]
  /\ Handled(g)
  /\ UNCHANGED <<tableVars, phase, attempt, seeded, startLoad, eventLoad, served,
                 change, upAt, crashes>>

----------------------------------------------------------------------------
\* The process ends; the table, the topic and the committed offset remain.
Crash(g) ==
  /\ phase[g] # "down"
  /\ crashes < MaxCrashes
  /\ crashes' = crashes + 1
  /\ phase' = [phase EXCEPT ![g] = "down"]
  /\ attempt' = [attempt EXCEPT ![g] = 0]
  /\ seeded' = [seeded EXCEPT ![g] = 0]
  /\ startLoad' = [startLoad EXCEPT ![g] = NoSnapshot]
  /\ eventLoad' = [eventLoad EXCEPT ![g] = NoSnapshot]
  /\ served' = [served EXCEPT ![g] = EmptyRouter]
  /\ change' = [change EXCEPT ![g] = 0]
  /\ position' = [position EXCEPT ![g] = -1]
  /\ upAt' = [upAt EXCEPT ![g] = -1]
  /\ failedLoads' = [failedLoads EXCEPT ![g] = {}]
  /\ UNCHANGED <<tableVars, committed, failures>>

Manage(g) ==
  /\ version < MaxChanges
  /\ \E k \in Keys :
       \/ \E row \in Bodies : CreateRoute(g, k, row)
       \/ \E newKey \in Keys, row \in Bodies : UpdateRoute(g, k, newKey, row)
       \/ DeleteRoute(g, k)

Progress(g) ==
  \/ SeedRoute(g) \/ StartRead(g) \/ StartInstall(g)
  \/ SetPosition(g) \/ EventRead(g) \/ EventInstall(g)

Next ==
  \E g \in Gateways :
    \/ Start(g) \/ Progress(g) \/ InitFails(g)
    \/ Manage(g) \/ Publish(g) \/ PublishFails(g)
    \/ EventFails(g)
    \/ Crash(g)

Spec == Init /\ [][Next]_vars

\* A started gateway goes on: its queries are answered or fail, its consumer
\* fetches and handles.  That a gateway is started again is not assumed.
Fairness == \A g \in Gateways :
  /\ WF_vars(SeedRoute(g) \/ StartRead(g) \/ StartInstall(g))
  /\ WF_vars(SetPosition(g) \/ EventRead(g) \/ EventInstall(g))
FairSpec == Spec /\ Fairness

\* No more versions are made: calls stop at MaxChanges, and after that each
\* default can be missing once.
MaxVersion == MaxChanges + Len(Defaults)

----------------------------------------------------------------------------
(* Properties. *)

\* An event that reaches a listening gateway is enough: once it is past the
\* event, unless the read failed, its router is as new as the change announced
\* (the load of index.js:284), however loads, crashes and other changes fall.
RouterFollowsEvents ==
  \A g \in Gateways : phase[g] = "up" =>
    \A e \in (upAt[g] + 1)..position[g] :
      e \notin failedLoads[g] => served[g].version >= log[e]

\* A gateway that has read all events, and among them one of the last change,
\* routes as the table says: one event makes up for all the changes before it
\* that were not announced (seeds, events lost), for a load reads every row.
RouterCurrent ==
  \A g \in Gateways :
    /\ phase[g] = "up"
    /\ position[g] = Len(log)
    /\ \E e \in (upAt[g] + 1)..Len(log) : e \notin failedLoads[g] /\ log[e] = version
    => served[g].routes = ActiveRoutes(table)

\* What the events do for a router, in all (index.js:274-290).
RouterTracksTable == RouterFollowsEvents /\ RouterCurrent

\* From the first event it handles while it listens a gateway never goes back
\* to an older table: the start has installed its read before it listens, and
\* the consumer is serial.  (That first event may take it back: its read may be
\* older than the start's.)
RouterGoesForward ==
  [][\A g \in Gateways :
       phase[g] = "up" /\ phase'[g] = "up" /\ position[g] > upAt[g] =>
         served'[g].version >= served[g].version]_vars

\* A row that is in the table is changed by the management API alone: the
\* start of a gateway does not put a seeded route back to its default.
SeedKeepsRows ==
  [][\A k \in Keys : table[k] # Absent /\ table'[k] # table[k] =>
       \E g \in Gateways : phase[g] = "up" /\ change'[g] = version']_vars

\* Neither a router nor a row is put back to what it was by a load or a seed that
\* comes late (index.js:135, 157-190).
NothingGoesBack == RouterGoesForward /\ SeedKeepsRows

\* initWithRetry ends: a gateway that starts listens, or its process ends.
StartEnds == \A g \in Gateways : phase[g] = "init" ~> phase[g] # "init"

\* An event that a listening gateway has yet to read gets the change it
\* announces served, unless the read fails or the process ends.
EventGetsServed ==
  \A g \in Gateways : \A v \in 1..MaxVersion :
    (phase[g] = "up" /\ \E e \in DOMAIN log : log[e] = v /\ e > position[g] /\ position[g] # -1)
      ~> (phase[g] # "up" \/ failedLoads[g] # {} \/ served[g].version >= v)
=============================================================================

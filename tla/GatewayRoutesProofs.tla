------------------------- MODULE GatewayRoutesProofs ------------------------
(* Proofs about the routes of the gateways, for any number of gateways,      *)
(* keys, changes, failures and crashes.                                      *)
EXTENDS GatewayRoutes, TLAPS

(* A snapshot is no newer than the table, and one of its version has its rows. *)
TrueSnapshot(s) ==
  /\ s.version <= version
  /\ s.version = version => s.routes = ActiveRoutes(table)

SnapshotsTrue ==
  /\ TrueSnapshot(EmptyRouter)
  /\ \A g \in Gateways :
       /\ TrueSnapshot(served[g])
       /\ startLoad[g] # NoSnapshot => TrueSnapshot(startLoad[g])
       /\ eventLoad[g] # NoSnapshot => TrueSnapshot(eventLoad[g])

EventsOfChanges == \A e \in 1..Len(log) : log[e] <= version

(* What the phase of a gateway says of the rest of it. *)
PhasesTrue == \A g \in Gateways :
  /\ phase[g] = "down" => position[g] = -1 /\ eventLoad[g] = NoSnapshot /\ attempt[g] = 0
  /\ phase[g] = "init" => attempt[g] < Retries
  /\ startLoad[g] # NoSnapshot => phase[g] = "init"
  /\ upAt[g] <= position[g]
  /\ phase[g] = "up" /\ upAt[g] = -1 => position[g] = -1

(* The read for an event came after the change it announces, and once an event
   is handled by a listening gateway no later read is older than its router. *)
EventLoadsNew == \A g \in Gateways : eventLoad[g] # NoSnapshot =>
  /\ position[g] # -1
  /\ position[g] < Len(log)
  /\ eventLoad[g].version >= log[position[g] + 1]
  /\ phase[g] = "up" /\ position[g] > upAt[g] =>
       eventLoad[g].version >= served[g].version

IInv ==
  /\ TypeOK
  /\ SnapshotsTrue
  /\ EventsOfChanges
  /\ PhasesTrue
  /\ EventLoadsNew
  /\ RouterFollowsEvents

----------------------------------------------------------------------------
(* Types. *)

\* What is read of the table is a snapshot.
LEMMA ReadIsSnapshot ==
  ASSUME TypeOK
  PROVE  Read \in Snapshot
<1>1. \A k \in Keys : table[k] # Absent => table[k].target \in Targets \cup {NoTarget}
  BY DEF TypeOK, Row
<1>2. ActiveRoutes(table) \in SUBSET (Keys \X (Targets \cup {NoTarget}))
  BY <1>1 DEF ActiveRoutes
<1> QED  BY <1>2 DEF Read, Snapshot, TypeOK

\* The types at the start.
LEMMA InitTyped == Init => TypeOK
<1> SUFFICES ASSUME Init PROVE TypeOK
  OBVIOUS
<1>1. EmptyRouter \in Snapshot
  BY DEF EmptyRouter, Snapshot
<1>2. log \in Seq(Nat) /\ Len(log) = 0
  BY DEF Init
<1>3. 0 \in 0..Len(Defaults) /\ 0 \in 0..Retries /\ 0 \in 0..MaxFailures /\ 0 \in 0..MaxCrashes
  BY RoutesAssumption
<1> QED  BY <1>1, <1>2, <1>3 DEF Init, TypeOK

\* What a management call does to the types, whatever rows it leaves.
LEMMA ChangeTyped ==
  ASSUME TypeOK, NEW g \in Gateways, NEW rows \in [Keys -> Row \cup {Absent}],
         Change(g, rows)
  PROVE  TypeOK'
<1>1. version' = version + 1 /\ version' \in Nat /\ table' \in [Keys -> Row \cup {Absent}]
  BY DEF Change, TypeOK
<1>2. change' \in [Gateways -> 0..version']
  <2>1. version \in Nat /\ change \in [Gateways -> 0..version]
    BY DEF TypeOK
  <2>2. 0..version \subseteq 0..version' /\ version + 1 \in 0..version'
    BY <1>1, <2>1
  <2>3. change' = [change EXCEPT ![g] = version + 1]
    BY DEF Change
  <2> QED  BY <2>1, <2>2, <2>3
<1>3. UNCHANGED <<log, phase, attempt, seeded, startLoad, eventLoad, served,
                  position, committed, upAt, failedLoads, failures, crashes>>
  BY DEF Change
<1> QED  BY <1>1, <1>2, <1>3 DEF TypeOK

\* Every step keeps the types.
LEMMA NextTyped ==
  ASSUME TypeOK, PhasesTrue, EventLoadsNew, [Next]_vars
  PROVE  TypeOK'
<1>0. CASE UNCHANGED vars
  BY <1>0 DEF vars, TypeOK
<1> SUFFICES ASSUME Next PROVE TypeOK'
  BY <1>0
<1> PICK g \in Gateways :
      \/ Start(g) \/ Progress(g) \/ InitFails(g)
      \/ Manage(g) \/ Publish(g) \/ PublishFails(g)
      \/ EventFails(g)
      \/ Crash(g)
  BY DEF Next
<1>1. CASE Start(g)
  BY <1>1 DEF Start, TypeOK, tableVars
<1>2. CASE SeedRoute(g)
  <2> DEFINE route == Defaults[seeded[g] + 1]
  <2>1. route \in Keys \X Targets
    <3>1. seeded[g] \in 0..Len(Defaults) /\ seeded[g] < Len(Defaults)
      BY <1>2 DEF SeedRoute, TypeOK
    <3>2. Defaults \in Seq(Keys \X Targets) /\ seeded[g] + 1 \in 1..Len(Defaults)
      BY <3>1, RoutesAssumption
    <3> QED  BY <3>2
  <2>2. seeded' \in [Gateways -> 0..Len(Defaults)]
    BY <1>2, RoutesAssumption DEF SeedRoute, TypeOK
  <2>3. [target |-> route[2], active |-> TRUE] \in Row
    BY <2>1 DEF Row
  <2>4. /\ table' \in [Keys -> Row \cup {Absent}]
        /\ version' \in Nat
        /\ version' = version \/ version' = version + 1
    <3>1. CASE table[route[1]] = Absent
      <4>1. /\ table' = [table EXCEPT ![route[1]] = [target |-> route[2], active |-> TRUE]]
            /\ version' = version + 1
        BY <1>2, <3>1 DEF SeedRoute
      <4>2. route[1] \in Keys /\ table \in [Keys -> Row \cup {Absent}] /\ version \in Nat
        BY <2>1 DEF TypeOK
      <4> HIDE DEF route
      <4> QED  BY <2>3, <4>1, <4>2
    <3>2. CASE table[route[1]] # Absent
      BY <1>2, <3>2 DEF SeedRoute, TypeOK
    <3> QED  BY <3>1, <3>2
  <2>5. change \in [Gateways -> 0..version']
    <3>1. 0..version \subseteq 0..version'
      BY <2>4 DEF TypeOK
    <3> QED  BY <3>1 DEF TypeOK
  <2> QED  BY <1>2, <2>2, <2>4, <2>5 DEF SeedRoute, TypeOK
<1>3. CASE StartRead(g)
  BY <1>3, ReadIsSnapshot DEF StartRead, TypeOK, tableVars
<1>4. CASE StartInstall(g)
  BY <1>4 DEF StartInstall, Listen, TypeOK, tableVars
<1>5. CASE InitFails(g)
  <2>1. attempt[g] + 1 \in 0..Retries
    BY <1>5, RoutesAssumption DEF InitFails, PhasesTrue, TypeOK
  <2>2. attempt' \in [Gateways -> 0..Retries] /\ seeded' \in [Gateways -> 0..Len(Defaults)]
    BY <1>5, <2>1, RoutesAssumption DEF InitFails, TypeOK
  <2>3. /\ phase' \in [Gateways -> {"down", "init", "up"}]
        /\ upAt' \in [Gateways -> -1..Len(log)]
    BY <1>5 DEF InitFails, Listen, TypeOK
  <2>4. /\ startLoad' \in [Gateways -> Snapshot \cup {NoSnapshot}]
        /\ failures' \in 0..MaxFailures
    BY <1>5, RoutesAssumption DEF InitFails, TypeOK
  <2> QED  BY <1>5, <2>2, <2>3, <2>4 DEF InitFails, TypeOK, tableVars
<1>6. CASE Manage(g)
  <2>1. PICK k \in Keys :
          \/ \E row \in Bodies : CreateRoute(g, k, row)
          \/ \E newKey \in Keys, row \in Bodies : UpdateRoute(g, k, newKey, row)
          \/ DeleteRoute(g, k)
    BY <1>6 DEF Manage
  <2>2. CASE \E row \in Bodies : CreateRoute(g, k, row)
    BY <2>2, ChangeTyped, RoutesAssumption DEF CreateRoute, TypeOK
  <2>3. CASE \E newKey \in Keys, row \in Bodies : UpdateRoute(g, k, newKey, row)
    BY <2>3, ChangeTyped, RoutesAssumption DEF UpdateRoute, TypeOK
  <2>4. CASE DeleteRoute(g, k)
    BY <2>4, ChangeTyped DEF DeleteRoute, TypeOK
  <2> QED  BY <2>1, <2>2, <2>3, <2>4
<1>7. CASE Publish(g)
  <2>1. log' \in Seq(Nat) /\ Len(log') = Len(log) + 1
    <3>1. log \in Seq(Nat) /\ change[g] \in Nat /\ log' = Append(log, change[g])
      BY <1>7 DEF Publish, TypeOK
    <3> QED  BY <3>1
  <2>2. -1..Len(log) \subseteq -1..Len(log') /\ 1..Len(log) \subseteq 1..Len(log')
    BY <2>1 DEF TypeOK
  <2>3. /\ position \in [Gateways -> -1..Len(log')]
        /\ committed \in [Gateways -> -1..Len(log')]
        /\ upAt \in [Gateways -> -1..Len(log')]
    BY <2>2 DEF TypeOK
  <2>4. failedLoads \in [Gateways -> SUBSET (1..Len(log'))]
    BY <2>2 DEF TypeOK
  <2>5. change' \in [Gateways -> 0..version]
    BY <1>7 DEF Publish, TypeOK
  <2>6. UNCHANGED <<table, version, phase, attempt, seeded, startLoad, eventLoad,
                    served, position, committed, upAt, failedLoads, failures, crashes>>
    BY <1>7 DEF Publish
  <2> QED  BY <2>1, <2>3, <2>4, <2>5, <2>6 DEF TypeOK
<1>8. CASE PublishFails(g)
  BY <1>8, RoutesAssumption DEF PublishFails, TypeOK, tableVars
<1>9. CASE SetPosition(g)
  <2>1. Len(log) \in Nat
    BY DEF TypeOK
  <2>2. /\ position' \in [Gateways -> -1..Len(log)]
        /\ upAt' \in [Gateways -> -1..Len(log)]
    BY <1>9, <2>1 DEF SetPosition, TypeOK
  <2> QED  BY <1>9, <2>2 DEF SetPosition, TypeOK, tableVars
<1>10. CASE EventRead(g)
  BY <1>10, ReadIsSnapshot DEF EventRead, TypeOK, tableVars
<1>11. CASE EventInstall(g)
  <2>1. position[g] + 1 \in -1..Len(log)
    BY <1>11, RoutesAssumption DEF EventInstall, EventLoadsNew, TypeOK
  <2>2. /\ position' \in [Gateways -> -1..Len(log)]
        /\ committed' \in [Gateways -> -1..Len(log)]
    <3>1. Handled(g)
      BY <1>11 DEF EventInstall
    <3> QED  BY <2>1, <3>1 DEF Handled, TypeOK
  <2>3. /\ served' \in [Gateways -> Snapshot]
        /\ eventLoad' \in [Gateways -> Snapshot \cup {NoSnapshot}]
    BY <1>11 DEF EventInstall, TypeOK
  <2> QED  BY <1>11, <2>2, <2>3 DEF EventInstall, TypeOK, tableVars
<1>12. CASE EventFails(g)
  <2>1. position[g] + 1 \in 1..Len(log)
    BY <1>12 DEF EventFails, TypeOK
  <2>2. /\ position' \in [Gateways -> -1..Len(log)]
        /\ committed' \in [Gateways -> -1..Len(log)]
    <3>1. position[g] + 1 \in -1..Len(log)
      BY <2>1
    <3>2. Handled(g)
      BY <1>12 DEF EventFails
    <3> QED  BY <3>1, <3>2 DEF Handled, TypeOK
  <2>3. failedLoads' \in [Gateways -> SUBSET (1..Len(log))]
    BY <1>12, <2>1 DEF EventFails, TypeOK
  <2>4. failures' \in 0..MaxFailures
    BY <1>12, RoutesAssumption DEF EventFails, TypeOK
  <2> QED  BY <1>12, <2>2, <2>3, <2>4 DEF EventFails, TypeOK, tableVars
<1>13. CASE Crash(g)
  <2>1. EmptyRouter \in Snapshot
    BY DEF EmptyRouter, Snapshot
  <2>2. /\ phase' \in [Gateways -> {"down", "init", "up"}]
        /\ startLoad' \in [Gateways -> Snapshot \cup {NoSnapshot}]
        /\ eventLoad' \in [Gateways -> Snapshot \cup {NoSnapshot}]
        /\ served' \in [Gateways -> Snapshot]
    BY <1>13, <2>1 DEF Crash, TypeOK
  <2>3. /\ attempt' \in [Gateways -> 0..Retries]
        /\ seeded' \in [Gateways -> 0..Len(Defaults)]
        /\ change' \in [Gateways -> 0..version]
    BY <1>13, RoutesAssumption DEF Crash, TypeOK
  <2>4. /\ position' \in [Gateways -> -1..Len(log)]
        /\ upAt' \in [Gateways -> -1..Len(log)]
        /\ failedLoads' \in [Gateways -> SUBSET (1..Len(log))]
    BY <1>13 DEF Crash, TypeOK
  <2>5. crashes' \in 0..MaxCrashes /\ UNCHANGED <<table, version, log, committed, failures>>
    BY <1>13, RoutesAssumption DEF Crash, TypeOK, tableVars
  <2> QED  BY <2>2, <2>3, <2>4, <2>5 DEF TypeOK
<1> QED  BY <1>1, <1>2, <1>3, <1>4, <1>5, <1>6, <1>7, <1>8, <1>9, <1>10, <1>11, <1>12, <1>13
         DEF Progress

----------------------------------------------------------------------------
(* The table and the topic. *)

\* A step leaves the table as it is or makes a new version of it.
LEMMA TableSteps ==
  ASSUME [Next]_vars
  PROVE  \/ table' = table /\ version' = version
         \/ version' = version + 1
<1>0. CASE UNCHANGED vars
  BY <1>0 DEF vars
<1>1. ASSUME NEW g \in Gateways, SeedRoute(g)
      PROVE  \/ table' = table /\ version' = version
             \/ version' = version + 1
  BY <1>1 DEF SeedRoute
<1>2. ASSUME NEW g \in Gateways, Manage(g)
      PROVE  version' = version + 1
  BY <1>2 DEF Manage, CreateRoute, UpdateRoute, DeleteRoute, Change
<1>3. ASSUME NEW g \in Gateways,
             \/ Start(g) \/ StartRead(g) \/ StartInstall(g) \/ InitFails(g)
             \/ SetPosition(g) \/ EventRead(g) \/ EventInstall(g) \/ EventFails(g)
             \/ Publish(g) \/ PublishFails(g) \/ Crash(g)
      PROVE  table' = table /\ version' = version
  <2>1. CASE Start(g) \/ StartRead(g) \/ StartInstall(g) \/ InitFails(g)
    BY <2>1 DEF Start, StartRead, StartInstall, InitFails, tableVars
  <2>2. CASE SetPosition(g) \/ EventRead(g) \/ EventInstall(g) \/ EventFails(g)
    BY <2>2 DEF SetPosition, EventRead, EventInstall, EventFails, tableVars
  <2>3. CASE Publish(g) \/ PublishFails(g) \/ Crash(g)
    BY <2>3 DEF Publish, PublishFails, Crash, tableVars
  <2> QED  BY <1>3, <2>1, <2>2, <2>3
<1> QED  BY <1>0, <1>1, <1>2, <1>3 DEF Next, Progress

\* So what was a true snapshot remains one.
LEMMA TrueStays ==
  ASSUME TypeOK, [Next]_vars, NEW s \in Snapshot, TrueSnapshot(s)
  PROVE  TrueSnapshot(s)'
<1>1. s.version \in Nat /\ version \in Nat
  BY DEF Snapshot, TypeOK
<1>2. CASE table' = table /\ version' = version
  BY <1>2 DEF TrueSnapshot, ActiveRoutes
<1>3. CASE version' = version + 1
  BY <1>1, <1>3 DEF TrueSnapshot
<1> QED  BY <1>2, <1>3, TableSteps

\* What a gateway holds after a step it held before, or has just read.
LEMMA HeldBefore ==
  ASSUME TypeOK, PhasesTrue, EventLoadsNew, [Next]_vars, NEW h \in Gateways
  PROVE  /\ \/ served'[h] \in {served[h], EmptyRouter}
            \/ startLoad[h] # NoSnapshot /\ served'[h] = startLoad[h]
            \/ eventLoad[h] # NoSnapshot /\ served'[h] = eventLoad[h]
         /\ startLoad'[h] \in {startLoad[h], NoSnapshot, Read}
         /\ eventLoad'[h] \in {eventLoad[h], NoSnapshot, Read}
<1>0. CASE UNCHANGED vars
  BY <1>0 DEF vars
<1>1. CASE Next
  <2> PICK g \in Gateways :
        \/ Start(g) \/ Progress(g) \/ InitFails(g)
        \/ Manage(g) \/ Publish(g) \/ PublishFails(g)
        \/ EventFails(g)
        \/ Crash(g)
    BY <1>1 DEF Next
  <2>1. CASE StartRead(g) \/ StartInstall(g) \/ InitFails(g)
    BY <2>1 DEF StartRead, StartInstall, InitFails, TypeOK
  <2>2. CASE EventRead(g) \/ EventInstall(g)
    BY <2>2 DEF EventRead, EventInstall, TypeOK
  <2>3. CASE Crash(g)
    BY <2>3 DEF Crash, TypeOK
  <2>4. CASE Start(g) \/ SeedRoute(g) \/ SetPosition(g) \/ Publish(g) \/ PublishFails(g) \/ EventFails(g)
    BY <2>4 DEF Start, SeedRoute, SetPosition, Publish, PublishFails, EventFails
  <2>5. CASE Manage(g)
    BY <2>5 DEF Manage, CreateRoute, UpdateRoute, DeleteRoute, Change
  <2> QED  BY <2>1, <2>2, <2>3, <2>4, <2>5 DEF Progress
<1> QED  BY <1>0, <1>1

\* Every step keeps snapshots those of tables that were.
LEMMA SnapshotsStay ==
  ASSUME TypeOK, PhasesTrue, EventLoadsNew, SnapshotsTrue, [Next]_vars
  PROVE  SnapshotsTrue'
<1>1. EmptyRouter \in Snapshot /\ Read \in Snapshot
  BY ReadIsSnapshot DEF EmptyRouter, Snapshot
<1>2. TrueSnapshot(Read)
  BY DEF TrueSnapshot, Read, TypeOK
<1>3. TrueSnapshot(EmptyRouter)'
  BY <1>1, TrueStays DEF SnapshotsTrue, EmptyRouter
<1> SUFFICES ASSUME NEW h \in Gateways
             PROVE  /\ TrueSnapshot(served[h])'
                    /\ startLoad'[h] # NoSnapshot => TrueSnapshot(startLoad[h])'
                    /\ eventLoad'[h] # NoSnapshot => TrueSnapshot(eventLoad[h])'
  BY <1>3 DEF SnapshotsTrue
<1>4. \A s \in Snapshot :
        s.version <= version /\ (s.version = version => s.routes = ActiveRoutes(table))
          => s.version <= version' /\ (s.version = version' => s.routes = ActiveRoutes(table)')
  BY TrueStays DEF TrueSnapshot
<1>5. /\ served[h] \in Snapshot
      /\ startLoad[h] # NoSnapshot => startLoad[h] \in Snapshot
      /\ eventLoad[h] # NoSnapshot => eventLoad[h] \in Snapshot
  BY DEF TypeOK
<1>6. TrueSnapshot(served[h])'
  BY <1>1, <1>4, <1>5, HeldBefore DEF SnapshotsTrue, TrueSnapshot
<1>7. startLoad'[h] # NoSnapshot => TrueSnapshot(startLoad[h])'
  BY <1>1, <1>2, <1>4, <1>5, HeldBefore DEF SnapshotsTrue, TrueSnapshot
<1>8. eventLoad'[h] # NoSnapshot => TrueSnapshot(eventLoad[h])'
  BY <1>1, <1>2, <1>4, <1>5, HeldBefore DEF SnapshotsTrue, TrueSnapshot
<1> QED  BY <1>6, <1>7, <1>8

\* Every step keeps events those of changes that were made.
LEMMA EventsStay ==
  ASSUME TypeOK, EventsOfChanges, [Next]_vars
  PROVE  EventsOfChanges'
<1>1. version \in Nat /\ version' \in Nat /\ version <= version'
  BY TableSteps DEF TypeOK
<1>2. CASE log' = log
  BY <1>1, <1>2 DEF EventsOfChanges, TypeOK
<1>3. ASSUME NEW g \in Gateways, Publish(g)
      PROVE  EventsOfChanges'
  <2>1. change[g] \in Nat /\ change[g] <= version /\ version' = version
    BY <1>3 DEF Publish, TypeOK
  <2>2. log' = Append(log, change[g]) /\ log \in Seq(Nat)
    BY <1>3 DEF Publish, TypeOK
  <2>3. ASSUME NEW e \in 1..Len(log') PROVE log'[e] <= version'
    <3>1. CASE e \in 1..Len(log)
      BY <2>1, <2>2, <3>1 DEF EventsOfChanges
    <3>2. CASE e = Len(log) + 1
      BY <2>1, <2>2, <3>2
    <3> QED  BY <2>2, <3>1, <3>2
  <2> QED  BY <2>3 DEF EventsOfChanges
<1>4. log' = log \/ \E g \in Gateways : Publish(g)
  BY DEF Next, vars, Start, Progress, SeedRoute, StartRead, StartInstall, InitFails,
         SetPosition, EventRead, EventInstall, Manage, CreateRoute, UpdateRoute,
         DeleteRoute, Change, PublishFails, EventFails, Crash, tableVars
<1> QED  BY <1>2, <1>3, <1>4

----------------------------------------------------------------------------
(* The gateways.  The three invariants about them are kept together. *)

\* What is compared are numbers.
LEMMA Numbers ==
  ASSUME TypeOK
  PROVE  /\ Len(log) \in Nat
         /\ \A e \in 1..Len(log) : log[e] \in Nat
         /\ \A h \in Gateways :
              /\ position[h] \in Int /\ -1 <= position[h] /\ position[h] <= Len(log)
              /\ upAt[h] \in Int /\ -1 <= upAt[h] /\ upAt[h] <= Len(log)
              /\ served[h].version \in Nat
              /\ eventLoad[h] # NoSnapshot => eventLoad[h].version \in Nat
<1>1. Len(log) \in Nat /\ \A e \in 1..Len(log) : log[e] \in Nat
  BY DEF TypeOK
<1>2. ASSUME NEW h \in Gateways
      PROVE  position[h] \in -1..Len(log) /\ upAt[h] \in -1..Len(log)
  BY DEF TypeOK
<1>3. ASSUME NEW h \in Gateways
      PROVE  /\ served[h].version \in Nat
             /\ eventLoad[h] # NoSnapshot => eventLoad[h].version \in Nat
  BY DEF TypeOK, Snapshot
<1> QED  BY <1>1, <1>2, <1>3

GatewaysTrue == PhasesTrue /\ EventLoadsNew /\ RouterFollowsEvents

\* Every step keeps the three invariants about the gateways.
LEMMA GatewaysStay ==
  ASSUME TypeOK, SnapshotsTrue, EventsOfChanges, PhasesTrue, EventLoadsNew,
         RouterFollowsEvents, TypeOK', [Next]_vars
  PROVE  GatewaysTrue'
<1> USE DEF GatewaysTrue
<1>0. CASE UNCHANGED vars
  BY <1>0 DEF vars, PhasesTrue, EventLoadsNew, RouterFollowsEvents
<1> SUFFICES ASSUME Next PROVE GatewaysTrue'
  BY <1>0
<1> PICK g \in Gateways :
      \/ Start(g) \/ Progress(g) \/ InitFails(g)
      \/ Manage(g) \/ Publish(g) \/ PublishFails(g)
      \/ EventFails(g)
      \/ Crash(g)
  BY DEF Next
<1>1. CASE Start(g)
  <2>1. /\ phase[g] = "down" /\ phase'[g] = "init"
        /\ \A h \in Gateways \ {g} : phase'[h] = phase[h]
        /\ UNCHANGED <<log, attempt, startLoad, eventLoad, served, position, upAt,
                       failedLoads>>
    BY <1>1 DEF Start, tableVars, TypeOK
  <2>2. PhasesTrue'
    BY <2>1, RoutesAssumption DEF PhasesTrue
  <2>3. EventLoadsNew' /\ RouterFollowsEvents'
    BY <2>1 DEF EventLoadsNew, RouterFollowsEvents
  <2> QED  BY <2>2, <2>3
<1>2. CASE SeedRoute(g) \/ Manage(g) \/ PublishFails(g)
  <2>1. UNCHANGED <<log, phase, attempt, startLoad, eventLoad, served, position,
                    upAt, failedLoads>>
    BY <1>2 DEF SeedRoute, Manage, CreateRoute, UpdateRoute, DeleteRoute, Change,
                PublishFails, tableVars
  <2> QED  BY <2>1 DEF PhasesTrue, EventLoadsNew, RouterFollowsEvents
<1>3. CASE StartRead(g)
  BY <1>3 DEF StartRead, tableVars, TypeOK, PhasesTrue, EventLoadsNew, RouterFollowsEvents
<1>4. CASE StartInstall(g)
  <2>1. /\ phase'[g] = "up" /\ upAt'[g] = position[g] /\ startLoad'[g] = NoSnapshot
        /\ \A h \in Gateways \ {g} : /\ phase'[h] = phase[h] /\ upAt'[h] = upAt[h]
                                     /\ startLoad'[h] = startLoad[h]
                                     /\ served'[h] = served[h]
        /\ UNCHANGED <<log, attempt, eventLoad, position, failedLoads>>
    BY <1>4 DEF StartInstall, Listen, tableVars, TypeOK
  <2>2. PhasesTrue'
    BY <2>1, Numbers DEF PhasesTrue
  <2>3. EventLoadsNew'
    <3> SUFFICES ASSUME NEW h \in Gateways, eventLoad[h] # NoSnapshot
                 PROVE  /\ position[h] # -1
                        /\ position[h] < Len(log)
                        /\ eventLoad[h].version >= log[position[h] + 1]
                        /\ phase'[h] = "up" /\ position[h] > upAt'[h] =>
                             eventLoad[h].version >= served'[h].version
      BY <2>1 DEF EventLoadsNew
    <3>1. h = g => ~(position[h] > upAt'[h])
      BY <2>1, Numbers
    <3> QED  BY <2>1, <3>1 DEF EventLoadsNew
  <2>4. RouterFollowsEvents'
    <3> SUFFICES ASSUME NEW h \in Gateways, phase'[h] = "up",
                        NEW e \in (upAt'[h] + 1)..position[h], e \notin failedLoads[h]
                 PROVE  served'[h].version >= log[e]
      BY <2>1 DEF RouterFollowsEvents
    <3>1. h # g
      BY <2>1, Numbers
    <3> QED  BY <2>1, <3>1 DEF RouterFollowsEvents
  <2> QED  BY <2>2, <2>3, <2>4
<1>5. CASE InitFails(g)
  <2>1. /\ startLoad'[g] = NoSnapshot
        /\ \A h \in Gateways \ {g} : /\ phase'[h] = phase[h] /\ upAt'[h] = upAt[h]
                                     /\ startLoad'[h] = startLoad[h]
                                     /\ attempt'[h] = attempt[h]
        /\ phase[g] = "init" /\ attempt'[g] = attempt[g] + 1
        /\ UNCHANGED <<log, eventLoad, served, position, failedLoads>>
    <3>1. CASE attempt[g] + 1 = Retries
      BY <1>5, <3>1 DEF InitFails, Listen, tableVars, TypeOK
    <3>2. CASE attempt[g] + 1 # Retries
      BY <1>5, <3>2 DEF InitFails, tableVars, TypeOK
    <3> QED  BY <3>1, <3>2
  <2>2. CASE attempt[g] + 1 = Retries
    <3>1. phase'[g] = "up" /\ upAt'[g] = position[g]
      BY <1>5, <2>2 DEF InitFails, Listen, TypeOK
    <3>2. PhasesTrue'
      BY <2>1, <3>1, Numbers DEF PhasesTrue
    <3>3. EventLoadsNew'
      <4>1. ~(position[g] > upAt'[g])
        BY <3>1, Numbers
      <4> QED  BY <2>1, <4>1 DEF EventLoadsNew
    <3>4. RouterFollowsEvents'
      <4> SUFFICES ASSUME NEW h \in Gateways, phase'[h] = "up",
                          NEW e \in (upAt'[h] + 1)..position[h], e \notin failedLoads[h]
                   PROVE  served[h].version >= log[e]
        BY <2>1 DEF RouterFollowsEvents
      <4>1. h # g
        BY <3>1, Numbers
      <4> QED  BY <2>1, <4>1 DEF RouterFollowsEvents
    <3> QED  BY <3>2, <3>3, <3>4
  <2>3. CASE attempt[g] + 1 # Retries
    <3>1. phase'[g] = "init" /\ upAt'[g] = upAt[g]
      BY <1>5, <2>1, <2>3 DEF InitFails
    <3>2. attempt'[g] < Retries
      <4>1. attempt[g] \in Nat /\ Retries \in Nat
        BY RoutesAssumption DEF TypeOK
      <4>2. attempt[g] < Retries
        BY <2>1 DEF PhasesTrue
      <4> QED  BY <2>1, <2>3, <4>1, <4>2
    <3>3. PhasesTrue'
      BY <2>1, <3>1, <3>2 DEF PhasesTrue
    <3>4. EventLoadsNew' /\ RouterFollowsEvents'
      BY <2>1, <3>1 DEF EventLoadsNew, RouterFollowsEvents
    <3> QED  BY <3>3, <3>4
  <2> QED  BY <2>2, <2>3
<1>7. CASE Publish(g)
  <2>1. /\ Len(log') = Len(log) + 1
        /\ \A e \in 1..Len(log) : log'[e] = log[e]
    BY <1>7 DEF Publish, TypeOK
  <2>2. UNCHANGED <<phase, attempt, startLoad, eventLoad, served, position, upAt,
                    failedLoads>>
    BY <1>7 DEF Publish
  <2>3. PhasesTrue'
    BY <2>2 DEF PhasesTrue
  <2>4. EventLoadsNew'
    <3> SUFFICES ASSUME NEW h \in Gateways, eventLoad[h] # NoSnapshot
                 PROVE  /\ position[h] # -1
                        /\ position[h] < Len(log')
                        /\ eventLoad[h].version >= log'[position[h] + 1]
                        /\ phase[h] = "up" /\ position[h] > upAt[h] =>
                             eventLoad[h].version >= served[h].version
      BY <2>2 DEF EventLoadsNew
    <3>1. position[h] # -1 /\ position[h] < Len(log)
      BY DEF EventLoadsNew
    <3>2. position[h] + 1 \in 1..Len(log)
      BY <3>1, Numbers
    <3> QED  BY <2>1, <3>1, <3>2, Numbers DEF EventLoadsNew
  <2>5. RouterFollowsEvents'
    <3> SUFFICES ASSUME NEW h \in Gateways, phase[h] = "up",
                        NEW e \in (upAt[h] + 1)..position[h], e \notin failedLoads[h]
                 PROVE  served[h].version >= log'[e]
      BY <2>2 DEF RouterFollowsEvents
    <3>1. e \in 1..Len(log)
      BY Numbers DEF PhasesTrue
    <3> QED  BY <2>1, <3>1 DEF RouterFollowsEvents
  <2> QED  BY <2>3, <2>4, <2>5
<1>9. CASE SetPosition(g)
  <2>1. /\ position[g] = -1 /\ eventLoad[g] = NoSnapshot /\ upAt[g] = -1
        /\ phase[g] # "down"
    BY <1>9, Numbers DEF SetPosition, EventLoadsNew, PhasesTrue
  <2>2. /\ position'[g] \in Int /\ -1 <= position'[g]
        /\ upAt'[g] = IF phase[g] = "up" THEN position'[g] ELSE upAt[g]
        /\ \A h \in Gateways \ {g} : position'[h] = position[h] /\ upAt'[h] = upAt[h]
        /\ UNCHANGED <<log, phase, attempt, startLoad, eventLoad, served, failedLoads>>
    BY <1>9, Numbers DEF SetPosition, tableVars, TypeOK
  <2>3. PhasesTrue'
    BY <2>1, <2>2 DEF PhasesTrue
  <2>4. EventLoadsNew' /\ RouterFollowsEvents'
    BY <2>1, <2>2 DEF EventLoadsNew, RouterFollowsEvents
  <2> QED  BY <2>3, <2>4
<1>10. CASE EventRead(g)
  <2>1. version >= log[position[g] + 1] /\ version >= served[g].version
    <3>1. position[g] + 1 \in 1..Len(log)
      BY <1>10 DEF EventRead, TypeOK
    <3> QED  BY <3>1 DEF EventsOfChanges, SnapshotsTrue, TrueSnapshot, TypeOK, Snapshot
  <2>2. eventLoad'[g].version = version
    BY <1>10 DEF EventRead, Read, TypeOK
  <2>3. PhasesTrue'
    BY <1>10 DEF EventRead, tableVars, TypeOK, PhasesTrue
  <2>4. EventLoadsNew'
    BY <1>10, <2>1, <2>2 DEF EventRead, tableVars, TypeOK, EventLoadsNew
  <2>5. RouterFollowsEvents'
    BY <1>10 DEF EventRead, tableVars, RouterFollowsEvents
  <2> QED  BY <2>3, <2>4, <2>5
<1>11. CASE EventInstall(g)
  <2>1. /\ eventLoad'[g] = NoSnapshot /\ served'[g] = eventLoad[g]
        /\ position'[g] = position[g] + 1
        /\ UNCHANGED <<log, phase, attempt, startLoad, upAt, failedLoads>>
        /\ \A h \in Gateways \ {g} : /\ eventLoad'[h] = eventLoad[h]
                                     /\ served'[h] = served[h]
                                     /\ position'[h] = position[h]
    BY <1>11 DEF EventInstall, Handled, tableVars, TypeOK
  <2>2. position[g] # -1 /\ phase[g] # "down"
    BY <1>11 DEF EventInstall, EventLoadsNew, PhasesTrue
  <2>3. PhasesTrue'
    BY <2>1, <2>2, Numbers DEF PhasesTrue
  <2>4. EventLoadsNew'
    BY <2>1 DEF EventLoadsNew
  <2>5. RouterFollowsEvents'
    <3> SUFFICES ASSUME NEW h \in Gateways, phase[h] = "up",
                        NEW e \in (upAt[h] + 1)..position'[h], e \notin failedLoads[h]
                 PROVE  served'[h].version >= log[e]
      BY <2>1 DEF RouterFollowsEvents
    <3>1. CASE h # g
      BY <2>1, <3>1 DEF RouterFollowsEvents
    <3>2. CASE h = g /\ e = position[g] + 1
      BY <1>11, <2>1, <3>2 DEF EventInstall, EventLoadsNew
    <3>3. CASE h = g /\ e # position[g] + 1
      <4>1. position[g] \in Int /\ upAt[g] \in Int
        BY DEF TypeOK
      <4>2. e \in (upAt[g] + 1)..position[g] /\ position[g] > upAt[g]
        BY <2>1, <3>3, <4>1
      <4>3. served[g].version >= log[e]
        BY <3>3, <4>2 DEF RouterFollowsEvents
      <4>4. eventLoad[g].version >= served[g].version
        BY <1>11, <3>3, <4>2 DEF EventInstall, EventLoadsNew
      <4>5. /\ served[g].version \in Nat /\ eventLoad[g].version \in Nat
        BY <1>11 DEF TypeOK, Snapshot, EventInstall
      <4>6. e \in 1..Len(log)
        BY <2>2, <3>3, <4>2, Numbers DEF PhasesTrue
      <4>7. log[e] \in Nat
        BY <4>6, Numbers
      <4> QED  BY <2>1, <3>3, <4>3, <4>4, <4>5, <4>7
    <3> QED  BY <3>1, <3>2, <3>3
  <2> QED  BY <2>3, <2>4, <2>5
<1>12. CASE EventFails(g)
  <2>1. /\ position'[g] = position[g] + 1
        /\ failedLoads'[g] = failedLoads[g] \cup {position[g] + 1}
        /\ UNCHANGED <<log, phase, attempt, startLoad, eventLoad, served, upAt>>
        /\ \A h \in Gateways \ {g} : /\ failedLoads'[h] = failedLoads[h]
                                     /\ position'[h] = position[h]
        /\ eventLoad[g] = NoSnapshot /\ position[g] # -1
    BY <1>12 DEF EventFails, Handled, tableVars, TypeOK
  <2>2. position[g] \in Int /\ upAt[g] \in Int
    BY DEF TypeOK
  <2>3. PhasesTrue'
    BY <2>1, Numbers DEF PhasesTrue
  <2>4. EventLoadsNew'
    BY <2>1 DEF EventLoadsNew
  <2>5. RouterFollowsEvents'
    <3> SUFFICES ASSUME NEW h \in Gateways, phase[h] = "up",
                        NEW e \in (upAt[h] + 1)..position'[h], e \notin failedLoads'[h]
                 PROVE  served[h].version >= log[e]
      BY <2>1 DEF RouterFollowsEvents
    <3>1. e \in (upAt[h] + 1)..position[h] /\ e \notin failedLoads[h]
      BY <2>1, <2>2
    <3> QED  BY <3>1 DEF RouterFollowsEvents
  <2> QED  BY <2>3, <2>4, <2>5
<1>13. CASE Crash(g)
  <2>1. /\ phase'[g] = "down" /\ attempt'[g] = 0 /\ position'[g] = -1 /\ upAt'[g] = -1
        /\ startLoad'[g] = NoSnapshot /\ eventLoad'[g] = NoSnapshot
    BY <1>13 DEF Crash, TypeOK
  <2>2. \A h \in Gateways \ {g} :
          /\ phase'[h] = phase[h] /\ attempt'[h] = attempt[h]
          /\ position'[h] = position[h] /\ upAt'[h] = upAt[h]
          /\ startLoad'[h] = startLoad[h] /\ eventLoad'[h] = eventLoad[h]
    BY <1>13 DEF Crash, TypeOK
  <2>3. \A h \in Gateways \ {g} :
          served'[h] = served[h] /\ failedLoads'[h] = failedLoads[h]
    BY <1>13 DEF Crash, TypeOK
  <2>4. log' = log
    BY <1>13 DEF Crash, tableVars
  <2>5. PhasesTrue'
    BY <2>1, <2>2 DEF PhasesTrue
  <2>6. EventLoadsNew'
    BY <2>1, <2>2, <2>3, <2>4 DEF EventLoadsNew
  <2>7. RouterFollowsEvents'
    BY <2>1, <2>2, <2>3, <2>4 DEF RouterFollowsEvents
  <2> QED  BY <2>5, <2>6, <2>7
<1> QED  BY <1>1, <1>2, <1>3, <1>4, <1>5, <1>7, <1>9, <1>10, <1>11, <1>12, <1>13
         DEF Progress

----------------------------------------------------------------------------
(* The theorems. *)

\* The invariant holds at the start.
LEMMA InitInvariant == Init => IInv
<1> SUFFICES ASSUME Init PROVE IInv
  OBVIOUS
<1>1. TypeOK
  BY InitTyped
<1>2. ActiveRoutes(table) = {}
  BY DEF Init, ActiveRoutes
<1>3. SnapshotsTrue
  <2>1. EmptyRouter.version = 0 /\ EmptyRouter.routes = {}
    BY DEF EmptyRouter
  <2>2. TrueSnapshot(EmptyRouter)
    BY <1>2, <2>1 DEF Init, TrueSnapshot
  <2> QED  BY <2>2 DEF Init, SnapshotsTrue
<1>4. EventsOfChanges
  BY DEF Init, EventsOfChanges
<1>5. PhasesTrue
  <2>1. \A g \in Gateways :
          /\ phase[g] = "down" /\ position[g] = -1 /\ upAt[g] = position[g]
          /\ eventLoad[g] = NoSnapshot /\ startLoad[g] = NoSnapshot
          /\ attempt[g] = 0
    BY DEF Init
  <2>2. -1 <= -1
    OBVIOUS
  <2> QED  BY <2>1, <2>2 DEF PhasesTrue
<1>6. EventLoadsNew /\ RouterFollowsEvents
  BY DEF Init, EventLoadsNew, RouterFollowsEvents
<1> QED  BY <1>1, <1>3, <1>4, <1>5, <1>6 DEF IInv

\* Every step keeps it.
LEMMA NextInvariant == IInv /\ [Next]_vars => IInv'
<1> SUFFICES ASSUME IInv, [Next]_vars PROVE IInv'
  OBVIOUS
<1>1. TypeOK'
  BY NextTyped DEF IInv
<1>2. SnapshotsTrue' /\ EventsOfChanges'
  BY SnapshotsStay, EventsStay DEF IInv
<1>3. GatewaysTrue'
  BY <1>1, GatewaysStay DEF IInv
<1> QED  BY <1>1, <1>2, <1>3 DEF IInv, GatewaysTrue

\* The inductive invariant: what the properties of the gateways rest on.
THEOREM RoutesInvariant == Spec => []IInv
BY InitInvariant, NextInvariant, PTL DEF Spec

\* The state of the table, the topic and the gateways has its types.
THEOREM RoutesTyped == Spec => []TypeOK
<1>1. IInv => TypeOK
  BY DEF IInv
<1> QED  BY <1>1, RoutesInvariant, PTL

\* A listening gateway serves the change of each event it has handled
\* (index.js:279-289), however the loads of several gateways interleave.
THEOREM FollowsEvents == Spec => []RouterFollowsEvents
<1>1. IInv => RouterFollowsEvents
  BY DEF IInv
<1> QED  BY <1>1, RoutesInvariant, PTL

\* One event of the last change makes a gateway's router the table's
\* (index.js:157-162), whatever happened to the events before.
THEOREM Current == Spec => []RouterCurrent
<1>1. ASSUME IInv PROVE RouterCurrent
  <2> SUFFICES ASSUME NEW g \in Gateways, phase[g] = "up", position[g] = Len(log),
                      NEW e \in (upAt[g] + 1)..Len(log),
                      e \notin failedLoads[g], log[e] = version
               PROVE  served[g].routes = ActiveRoutes(table)
    BY DEF RouterCurrent
  <2>1. served[g].version >= version
    BY <1>1 DEF IInv, RouterFollowsEvents
  <2>2. served[g].version <= version /\ version \in Nat /\ served[g].version \in Nat
    BY <1>1, Numbers DEF IInv, SnapshotsTrue, TrueSnapshot, TypeOK
  <2> QED  BY <1>1, <2>1, <2>2 DEF IInv, SnapshotsTrue, TrueSnapshot
<1> QED  BY <1>1, RoutesInvariant, PTL

\* Both, as the run checks them.
THEOREM TracksTable == Spec => []RouterTracksTable
<1>1. RouterFollowsEvents /\ RouterCurrent => RouterTracksTable
  BY DEF RouterTracksTable
<1> QED  BY <1>1, FollowsEvents, Current, PTL

\* Past the first event it handles, a listening gateway never goes back to an
\* older table: its consumer reads and installs one event at a time.
THEOREM GoesForward == Spec => RouterGoesForward
<1>1. ASSUME IInv, [Next]_vars, NEW g \in Gateways,
             phase[g] = "up", phase'[g] = "up", position[g] > upAt[g]
      PROVE  served'[g].version >= served[g].version
  <2>1. served[g].version \in Nat /\ TypeOK
    BY <1>1, Numbers DEF IInv
  <2>2. CASE served'[g] = served[g]
    BY <2>1, <2>2
  <2>3. CASE EventInstall(g)
    <3>1. eventLoad[g] # NoSnapshot /\ served'[g] = eventLoad[g]
      BY <2>1, <2>3 DEF EventInstall, TypeOK
    <3> QED  BY <1>1, <3>1 DEF IInv, EventLoadsNew
  <2>4. served'[g] = served[g] \/ EventInstall(g)
    <3>1. CASE UNCHANGED vars
      BY <3>1 DEF vars
    <3>2. ASSUME NEW h \in Gateways, h # g, StartInstall(h) \/ EventInstall(h) \/ Crash(h)
          PROVE  served'[g] = served[g]
      <4>1. served \in [Gateways -> Snapshot]
        BY <2>1 DEF TypeOK
      <4>2. CASE StartInstall(h)
        BY <3>2, <4>1, <4>2 DEF StartInstall
      <4>3. CASE EventInstall(h)
        BY <3>2, <4>1, <4>3 DEF EventInstall
      <4>4. CASE Crash(h)
        BY <3>2, <4>1, <4>4 DEF Crash
      <4> QED  BY <3>2, <4>2, <4>3, <4>4
    <3>3. ~StartInstall(g) /\ ~Crash(g)
      BY <1>1, <2>1 DEF StartInstall, Crash, TypeOK
    <3>4. \/ served' = served
          \/ \E h \in Gateways : StartInstall(h) \/ EventInstall(h) \/ Crash(h)
          \/ UNCHANGED vars
      BY <1>1 DEF Next, Progress, Start, SeedRoute, StartRead, InitFails, SetPosition,
                  EventRead, Manage, CreateRoute, UpdateRoute, DeleteRoute, Change,
                  Publish, PublishFails, EventFails
    <3> QED  BY <3>1, <3>2, <3>3, <3>4
  <2> QED  BY <2>2, <2>3, <2>4
<1>2. IInv /\ [Next]_vars =>
        [\A g \in Gateways :
           phase[g] = "up" /\ phase'[g] = "up" /\ position[g] > upAt[g] =>
             served'[g].version >= served[g].version]_vars
  BY <1>1
<1> QED  BY <1>2, RoutesInvariant, PTL DEF Spec, RouterGoesForward

\* ON CONFLICT DO NOTHING (index.js:135): no start changes a row that is there.
THEOREM KeepsRows == Spec => SeedKeepsRows
<1>1. ASSUME IInv, [Next]_vars, NEW k \in Keys, table[k] # Absent, table'[k] # table[k]
      PROVE  \E g \in Gateways : phase[g] = "up" /\ change'[g] = version'
  <2>1. ASSUME NEW g \in Gateways, SeedRoute(g)
        PROVE  table'[k] = table[k]
    BY <1>1, <2>1 DEF SeedRoute, IInv, TypeOK
  <2>2. ASSUME NEW g \in Gateways, Manage(g)
        PROVE  phase[g] = "up" /\ change'[g] = version'
    BY <1>1, <2>2 DEF Manage, CreateRoute, UpdateRoute, DeleteRoute, Change, IInv, TypeOK
  <2>3. \/ table' = table
        \/ \E g \in Gateways : SeedRoute(g) \/ Manage(g)
    BY <1>1 DEF Next, vars, Progress, Start, StartRead, StartInstall, InitFails, SetPosition,
                EventRead, EventInstall, Publish, PublishFails, EventFails, Crash, tableVars
  <2> QED  BY <1>1, <2>1, <2>2, <2>3
<1>2. IInv /\ [Next]_vars =>
        [\A k \in Keys : table[k] # Absent /\ table'[k] # table[k] =>
           \E g \in Gateways : phase[g] = "up" /\ change'[g] = version']_vars
  BY <1>1
<1> QED  BY <1>2, RoutesInvariant, PTL DEF Spec, SeedKeepsRows

\* Both, as the run checks them.
THEOREM GoesForwardKeepsRows == Spec => NothingGoesBack
BY GoesForward, KeepsRows DEF NothingGoesBack
=============================================================================

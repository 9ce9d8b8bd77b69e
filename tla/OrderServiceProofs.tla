------------------------- MODULE OrderServiceProofs -------------------------
(***************************************************************************)
(* Proofs about OrderService, for every set of requests, every bound and   *)
(* every number of faults.                                                 *)
(***************************************************************************)
EXTENDS OrderService, Integers, FiniteSetTheorems, SequenceTheorems, TLAPS

\* The events of a log or a buffer say what a table says, and no two of them
\* are of the same order.
Truthful(log, table) ==
  \A i \in DOMAIN log :
    /\ log[i].order \in DOMAIN table
    /\ log[i].user = table[log[i].order].user
    /\ log[i].product = table[log[i].order].product
    /\ log[i].status = table[log[i].order].status

Once(log) == \A i, j \in DOMAIN log : log[i].order = log[j].order => i = j

\* Nothing in the log is of order o.
Absent(log, o) == \A i \in DOMAIN log : log[i].order # o

\* An order the handler is about to announce is settled, and nothing announced
\* it before.
EmitSound ==
  task.stage = "emit" =>
    /\ task.order \in DOMAIN orders
    /\ orders[task.order].status \in Settled
    /\ Absent(unsent, task.order)
    /\ Absent(events, task.order)

EventsSound ==
  /\ Truthful(unsent, orders) /\ Once(unsent)
  /\ Truthful(events, orders) /\ Once(events)
  /\ \A i \in DOMAIN unsent : Absent(events, unsent[i].order)

IInv == TypeOK /\ EmitSound /\ EventsSound

\* A step never removes a row, never changes whose order it is and for which
\* product, and never changes a settled one.
RowsKept ==
  /\ Len(orders) <= Len(orders')
  /\ \A o \in DOMAIN orders : /\ orders'[o].user = orders[o].user
                             /\ orders'[o].product = orders[o].product
  /\ \A o \in DOMAIN orders :
       orders[o].status \in Settled => orders'[o] = orders[o]

-----------------------------------------------------------------------------
\* The saved row of an applicable update is a row, and is settled.
LEMMA UpdatedRow ==
  ASSUME TypeOK, NEW m \in Messages, m.uri = "update", Applicable(m)
  PROVE  /\ m.order \in 1..Len(orders)
         /\ orders[m.order].status = "PENDING"
         /\ Updated(orders[m.order], m) \in Order
         /\ Updated(orders[m.order], m).status = m.status
         /\ Updated(orders[m.order], m).status \in Settled
  <1>1. m \in UpdateMessage
    BY MessagesAssumption
       DEF Message, CreateMessage, UpdateMessage, ListMessage, OtherMessage
  <1>2. m.order \in 1..Len(orders) /\ orders[m.order] \in Order
    BY DEF TypeOK, Applicable
  <1>3. orders[m.order].status = "PENDING" /\ m.status \in Settled
    BY DEF Applicable, CanTransition
  <1>. QED
    BY <1>1, <1>2, <1>3 DEF Updated, Order, UpdateMessage, Status

\* The row inserted for a create request is a row.
LEMMA CreatedRow ==
  ASSUME NEW m \in Messages, m.uri = "create"
  PROVE  /\ NewOrder(m.user, m.product) \in Order
         /\ m.id \in MessageId
  BY MessagesAssumption
     DEF Message, CreateMessage, UpdateMessage, ListMessage, OtherMessage,
         NewOrder, Order, Status, Settled

\* A request has an id, and says whether it waits for an answer.
LEMMA MessageFields ==
  ASSUME NEW m \in Messages
  PROVE  m.id \in MessageId /\ m.answer \in BOOLEAN
  BY MessagesAssumption
     DEF Message, CreateMessage, UpdateMessage, ListMessage, OtherMessage

\* A settled order's event is an event.
LEMMA EventType ==
  ASSUME TypeOK, NEW o \in DOMAIN orders, orders[o].status \in Settled
  PROVE  EventOf(o) \in Event /\ EventOf(o).order = o
  <1>1. orders[o] \in Order /\ o \in Nat \ {0}
    BY DEF TypeOK
  <1>. QED
    BY <1>1 DEF EventOf, Event, Order

\* A fault leaves the counts of faults well-typed.
LEMMA FaultCounted ==
  ASSUME TypeOK, NEW f \in Fault, Fails(f)
  PROVE  spent' \in [Fault -> Nat]
  BY DEF TypeOK, Fails

\* What the handler is working on, and what it answers, have their types.
LEMMA TaskType ==
  ASSUME NEW stage \in Stage \ {"idle"}, NEW m \in Messages, NEW o \in Nat
  PROVE  Working(stage, m, o) \in Task /\ Working(stage, m, o).stage = stage
  BY DEF Working, Task

\* A handler that is at work has a request.
LEMMA AtWork ==
  ASSUME TypeOK, task.stage # "idle"
  PROVE  /\ task.stage \in Stage \ {"idle"}
         /\ task.msg \in Messages
         /\ task.order \in Nat
         /\ task # NoTask
  BY DEF TypeOK, Task, NoTask

\* What is answered are answers.
LEMMA AnswerType ==
  ASSUME TypeOK, task.stage # "idle", NEW ok \in BOOLEAN, NEW o \in Nat
  PROVE  Answer(ok, o) \subseteq Reply
  BY AtWork, MessageFields DEF TypeOK, Answer, Reply

\* Type correctness is preserved by every step.
LEMMA TypeStep == IInv /\ [Next]_vars => TypeOK'
  <1>. SUFFICES ASSUME IInv, [Next]_vars PROVE TypeOK'
    OBVIOUS
  <1>. USE DEF IInv
  <1>0. TypeOK
    OBVIOUS
  <1>1. ASSUME NEW m \in Messages, Arrive(m) PROVE TypeOK'
    <2>. requests' \in Seq(Messages) /\ Len(requests') = Len(requests) + 1
      BY <1>1, AppendProperties DEF Arrive, TypeOK
    <2>. QED
      BY <1>1 DEF Arrive, TypeOK
  <1>2. ASSUME DropUnparsable PROVE TypeOK'
    BY <1>2 DEF DropUnparsable, TypeOK
  <1>3. ASSUME NEW m \in Messages, Handle(m) PROVE TypeOK'
    <2>1. CASE RefuseUnusable(m)
      BY <2>1, TaskType DEF RefuseUnusable, Takes, TypeOK, Stage
    <2>2. CASE CreateOrder(m)
      <3>1. NewOrder(m.user, m.product) \in Order /\ m.id \in MessageId
        BY <2>2, CreatedRow DEF CreateOrder, Takes
      <3>2. orders' \in Seq(Order) /\ origin' \in Seq(MessageId)
        BY <2>2, <3>1, AppendProperties DEF CreateOrder, TypeOK
      <3>3. task' \in Task
        BY <2>2, TaskType DEF CreateOrder, TypeOK, Stage
      <3>. QED
        BY <2>2, <3>2, <3>3 DEF CreateOrder, Takes, TypeOK
    <2>3. CASE CreateOrderFails(m)
      <3>1. NewOrder(m.user, m.product) \in Order /\ m.id \in MessageId
        BY <2>3, CreatedRow DEF CreateOrderFails, Takes
      <3>2. orders' \in Seq(Order) /\ origin' \in Seq(MessageId)
        <4>1. CASE UNCHANGED <<orders, origin>>
          BY <4>1 DEF TypeOK
        <4>2. CASE /\ orders' = Append(orders, NewOrder(m.user, m.product))
                   /\ origin' = Append(origin, m.id)
          BY <3>1, <4>2, AppendProperties DEF TypeOK
        <4>. QED
          BY <2>3, <4>1, <4>2 DEF CreateOrderFails
      <3>3. task' \in Task /\ spent' \in [Fault -> Nat]
        BY <2>3, TaskType, FaultCounted DEF CreateOrderFails, Stage, Fault
      <3>. QED
        BY <2>3, <3>2, <3>3 DEF CreateOrderFails, Takes, TypeOK
    <2>4. CASE UpdateStatus(m)
      <3>1. m.order \in 1..Len(orders) /\ Updated(orders[m.order], m) \in Order
        BY <2>4, UpdatedRow DEF UpdateStatus, Takes
      <3>2. orders' \in Seq(Order)
        BY <2>4, <3>1, ExceptSeq DEF UpdateStatus, TypeOK
      <3>3. task' \in Task
        BY <2>4, <3>1, TaskType DEF UpdateStatus, TypeOK, Stage
      <3>. QED
        BY <2>4, <3>2, <3>3 DEF UpdateStatus, Takes, TypeOK
    <2>5. CASE RefuseUpdate(m)
      BY <2>5, TaskType DEF RefuseUpdate, Takes, TypeOK, Stage
    <2>6. CASE UpdateStatusFails(m)
      <3>1. orders' \in Seq(Order)
        <4>1. CASE UNCHANGED orders
          BY <4>1 DEF TypeOK
        <4>2. CASE Applicable(m) /\ orders' = [orders EXCEPT ![m.order] = Updated(@, m)]
          <5>1. m.order \in 1..Len(orders) /\ Updated(orders[m.order], m) \in Order
            BY <2>6, <4>2, UpdatedRow DEF UpdateStatusFails, Takes
          <5>. QED
            BY <4>2, <5>1, ExceptSeq DEF TypeOK
        <4>. QED
          BY <2>6, <4>1, <4>2 DEF UpdateStatusFails
      <3>2. task' \in Task /\ spent' \in [Fault -> Nat]
        BY <2>6, TaskType, FaultCounted DEF UpdateStatusFails, Stage, Fault
      <3>. QED
        BY <2>6, <3>1, <3>2 DEF UpdateStatusFails, Takes, TypeOK
    <2>7. CASE ListOrders(m)
      BY <2>7, TaskType DEF ListOrders, Takes, TypeOK, Stage
    <2>. QED
      BY <1>3, <2>1, <2>2, <2>3, <2>4, <2>5, <2>6, <2>7 DEF Handle
  <1>4. ASSUME EmitStatusEvent \/ EmitStatusEventFails PROVE TypeOK'
    <2>1. task' \in Task
      BY <1>4, AtWork, TaskType
         DEF EmitStatusEvent, EmitStatusEventFails, Stage
    <2>2. EventOf(task.order) \in Event
      BY <1>4, EventType DEF EmitStatusEvent, EmitStatusEventFails, EmitSound
    <2>3. CASE EmitStatusEvent
      BY <2>1, <2>2, <2>3, AppendProperties DEF EmitStatusEvent, TypeOK
    <2>4. CASE EmitStatusEventFails
      BY <2>1, <2>4, FaultCounted DEF EmitStatusEventFails, TypeOK, Fault
    <2>. QED
      BY <1>4, <2>3, <2>4
  <1>5. ASSUME AskReturns \/ AskTimesOut PROVE TypeOK'
    <2>1. task' \in Task
      BY <1>5, AtWork, TaskType DEF AskReturns, AskTimesOut, NextStage, Stage
    <2>2. CASE AskReturns
      BY <2>1, <2>2 DEF AskReturns, TypeOK
    <2>3. CASE AskTimesOut
      BY <2>1, <2>3, FaultCounted DEF AskTimesOut, TypeOK, Min2, Fault
    <2>. QED
      BY <1>5, <2>2, <2>3
  <1>6. ASSUME Respond \/ RespondError PROVE TypeOK'
    BY <1>6, AtWork, AnswerType DEF Respond, RespondError, TypeOK, Task
  <1>7. ASSUME RespondFails PROVE TypeOK'
    <2>1. task' \in Task
      BY <1>7, AtWork, TaskType DEF RespondFails, Stage
    <2>2. replies' \subseteq Reply
      BY <1>7, AtWork, AnswerType DEF RespondFails, TypeOK
    <2>. QED
      BY <1>7, <2>1, <2>2, FaultCounted DEF RespondFails, TypeOK, Fault
  <1>13. ASSUME AggregateFails PROVE TypeOK'
    <2>1. task' \in Task
      BY <1>13, AtWork, TaskType DEF AggregateFails, Stage
    <2>. QED
      BY <1>13, <2>1, FaultCounted DEF AggregateFails, TypeOK, Fault
  <1>8. ASSUME RespondErrorFails PROVE TypeOK'
    <2>1. replies' \subseteq Reply
      BY <1>8, AnswerType DEF RespondErrorFails, TypeOK
    <2>. QED
      BY <1>8, <2>1, FaultCounted DEF RespondErrorFails, TypeOK, Task, Fault
  <1>9. ASSUME Poll PROVE TypeOK'
    BY <1>9 DEF Poll, Commit, Rejoin, TypeOK
  <1>10. ASSUME Producer PROVE TypeOK'
    <2>1. /\ unsent # <<>>
          /\ unsent' = Tail(unsent)
      BY <1>10 DEF Producer, Flush, FlushFails
    <2>2. unsent' \in Seq(Event) /\ Head(unsent) \in Event
      BY <2>1, HeadTailProperties DEF TypeOK
    <2>3. CASE Flush
      BY <2>2, <2>3, AppendProperties DEF Flush, TypeOK
    <2>4. CASE FlushFails
      BY <2>2, <2>4, FaultCounted DEF FlushFails, TypeOK, Fault
    <2>. QED
      BY <1>10, <2>3, <2>4 DEF Producer
  <1>11. ASSUME Crash PROVE TypeOK'
    BY <1>11, FaultCounted DEF Crash, TypeOK, Task, Fault
  <1>12. ASSUME UNCHANGED vars PROVE TypeOK'
    BY <1>12 DEF vars, TypeOK
  <1>. QED
    BY <1>1, <1>2, <1>3, <1>4, <1>5, <1>6, <1>7, <1>8, <1>9, <1>10, <1>11, <1>12, <1>13
       DEF Next, Listener

-----------------------------------------------------------------------------
\* Only an unsettled order is ever written to.
LEMMA RowsStep == TypeOK /\ [Next]_vars => RowsKept
  <1>. SUFFICES ASSUME TypeOK, [Next]_vars PROVE RowsKept
    OBVIOUS
  <1>1. CASE UNCHANGED orders
    BY <1>1 DEF RowsKept, TypeOK
  <1>2. ASSUME NEW m \in Messages, CreateOrder(m) \/ CreateOrderFails(m)
        PROVE  RowsKept
    <2>1. CASE orders' = Append(orders, NewOrder(m.user, m.product))
      <3>1. NewOrder(m.user, m.product) \in Order
        BY <1>2, CreatedRow DEF CreateOrder, CreateOrderFails, Takes
      <3>. QED
        BY <2>1, <3>1, AppendProperties DEF RowsKept, TypeOK
    <2>. QED
      BY <1>1, <1>2, <2>1 DEF CreateOrder, CreateOrderFails
  <1>3. ASSUME NEW m \in Messages, UpdateStatus(m) \/ UpdateStatusFails(m)
        PROVE  RowsKept
    <2>1. CASE Applicable(m) /\ orders' = [orders EXCEPT ![m.order] = Updated(@, m)]
      <3>1. /\ m.order \in 1..Len(orders)
            /\ Updated(orders[m.order], m) \in Order
            /\ orders[m.order].status = "PENDING"
            /\ Updated(orders[m.order], m).user = orders[m.order].user
            /\ Updated(orders[m.order], m).product = orders[m.order].product
        BY <1>3, <2>1, UpdatedRow DEF UpdateStatus, UpdateStatusFails, Takes, Updated
      <3>. QED
        BY <2>1, <3>1, ExceptSeq DEF RowsKept, TypeOK, Settled
    <2>. QED
      BY <1>1, <1>3, <2>1 DEF UpdateStatus, UpdateStatusFails
  <1>4. ASSUME [Next]_vars,
               ~\E m \in Messages : \/ CreateOrder(m) \/ CreateOrderFails(m)
                                   \/ UpdateStatus(m) \/ UpdateStatusFails(m)
        PROVE  UNCHANGED orders
    BY <1>4 DEF Next, vars, Arrive, Listener, Handle, DropUnparsable, RefuseUnusable,
         RefuseUpdate, ListOrders, EmitStatusEvent, EmitStatusEventFails, AskReturns,
         AskTimesOut, AggregateFails, Respond, RespondFails, RespondError, RespondErrorFails, Poll,
         Commit, Rejoin, Producer, Flush, FlushFails, Crash
  <1>. QED
    BY <1>1, <1>2, <1>3, <1>4

\* What appending an event to a log does to the two.
LEMMA AppendEvent ==
  ASSUME NEW log \in Seq(Event), NEW e \in Event, NEW table
  PROVE  /\ Append(log, e) \in Seq(Event)
         /\ \A o : Absent(Append(log, e), o) <=> Absent(log, o) /\ e.order # o
         /\ Once(log) /\ Absent(log, e.order) => Once(Append(log, e))
         /\ /\ Truthful(log, table)
            /\ e.order \in DOMAIN table
            /\ e.user = table[e.order].user
            /\ e.product = table[e.order].product
            /\ e.status = table[e.order].status
            => Truthful(Append(log, e), table)
  <1>1. /\ Append(log, e) \in Seq(Event)
        /\ DOMAIN Append(log, e) = 1..(Len(log) + 1)
        /\ DOMAIN log = 1..Len(log)
        /\ Len(log) \in Nat
        /\ \A i \in 1..Len(log) : Append(log, e)[i] = log[i]
        /\ Append(log, e)[Len(log) + 1] = e
    BY AppendProperties
  <1>2. \A i \in 1..(Len(log) + 1) : i \in 1..Len(log) \/ i = Len(log) + 1
    BY <1>1
  <1>3. \A o : Absent(Append(log, e), o) <=> Absent(log, o) /\ e.order # o
    BY <1>1, <1>2 DEF Absent
  <1>4. Once(log) /\ Absent(log, e.order) => Once(Append(log, e))
    BY <1>1, <1>2 DEF Absent, Once
  <1>. QED
    BY <1>1, <1>2, <1>3, <1>4 DEF Truthful

\* Removing the first event of a log.
LEMMA DropEvent ==
  ASSUME NEW log \in Seq(Event), log # <<>>, NEW table
  PROVE  /\ Tail(log) \in Seq(Event) /\ Head(log) \in Event
         /\ 1 \in DOMAIN log /\ Head(log) = log[1]
         /\ \A i \in DOMAIN Tail(log) :
              i + 1 \in DOMAIN log /\ i + 1 # 1 /\ Tail(log)[i] = log[i + 1]
         /\ \A o : Absent(log, o) => Absent(Tail(log), o)
         /\ Once(log) => Once(Tail(log)) /\ Absent(Tail(log), Head(log).order)
         /\ Truthful(log, table) => Truthful(Tail(log), table)
  <1>1. /\ Tail(log) \in Seq(Event) /\ Head(log) \in Event
        /\ 1 \in DOMAIN log /\ Head(log) = log[1]
        /\ DOMAIN Tail(log) \subseteq Nat \ {0}
        /\ \A i \in DOMAIN Tail(log) :
             i + 1 \in DOMAIN log /\ i + 1 # 1 /\ Tail(log)[i] = log[i + 1]
    BY HeadTailProperties
  <1>2. \A o : Absent(log, o) => Absent(Tail(log), o)
    BY <1>1 DEF Absent
  <1>3. Once(log) => Once(Tail(log)) /\ Absent(Tail(log), Head(log).order)
    BY <1>1 DEF Once, Absent
  <1>. QED
    BY <1>1, <1>2, <1>3 DEF Truthful

\* A truthful log stays so when settled rows are kept.
LEMMA TruthKept ==
  ASSUME TypeOK, TypeOK', RowsKept, NEW log \in Seq(Event), Truthful(log, orders)
  PROVE  Truthful(log, orders')
  <1>. SUFFICES ASSUME NEW i \in DOMAIN log
                PROVE  /\ log[i].order \in DOMAIN orders'
                       /\ orders'[log[i].order] = orders[log[i].order]
    BY DEF Truthful
  <1>0. log[i] \in Event
    OBVIOUS
  <1>1. /\ log[i].order \in DOMAIN orders
        /\ orders[log[i].order].status \in Settled
    BY <1>0 DEF Truthful, Event
  <1>. QED
    BY <1>1 DEF RowsKept, TypeOK

\* The buffer and the topic stay truthful and free of repetitions, and the order
\* that is about to be announced is not in either.
LEMMA EventsStep == IInv /\ [Next]_vars => EmitSound' /\ EventsSound'
  <1>. SUFFICES ASSUME IInv, [Next]_vars PROVE EmitSound' /\ EventsSound'
    OBVIOUS
  <1>1. TypeOK /\ EmitSound /\ EventsSound /\ TypeOK' /\ RowsKept
    BY TypeStep, RowsStep DEF IInv
  <1>2. Truthful(unsent, orders') /\ Truthful(events, orders')
    BY <1>1, TruthKept DEF EventsSound, TypeOK
  <1>3. ASSUME UNCHANGED <<unsent, events>> PROVE EventsSound'
    BY <1>1, <1>2, <1>3 DEF EventsSound
  <1>4. ASSUME UNCHANGED <<task, orders, unsent, events>> PROVE EmitSound'
    BY <1>1, <1>4 DEF EmitSound
  <1>5. ASSUME task'.stage # "emit" PROVE EmitSound'
    BY <1>5 DEF EmitSound
  <1>6. ASSUME NEW m \in Messages, UpdateStatus(m) PROVE EmitSound'
    <2>1. /\ m.order \in 1..Len(orders)
          /\ orders[m.order].status = "PENDING"
          /\ Updated(orders[m.order], m) \in Order
          /\ Updated(orders[m.order], m).status \in Settled
      BY <1>1, <1>6, UpdatedRow DEF UpdateStatus, Takes
    <2>2. /\ task'.order = m.order
          /\ orders' = [orders EXCEPT ![m.order] = Updated(@, m)]
          /\ UNCHANGED <<unsent, events>>
      BY <1>6 DEF UpdateStatus, Working
    <2>3. task'.order \in DOMAIN orders' /\ orders'[task'.order].status \in Settled
      BY <1>1, <2>1, <2>2 DEF TypeOK
    <2>4. ASSUME NEW log \in Seq(Event), Truthful(log, orders) PROVE Absent(log, m.order)
      <3>1. \A i \in DOMAIN log : log[i] \in Event
        BY <2>4
      <3>. QED
        BY <2>1, <2>4, <3>1 DEF Truthful, Event, Settled, Absent
    <2>5. Absent(unsent, m.order) /\ Absent(events, m.order)
      BY <1>1, <2>4 DEF TypeOK, EventsSound
    <2>. QED
      BY <2>2, <2>3, <2>5 DEF EmitSound
  <1>7. ASSUME EmitStatusEvent PROVE EmitSound' /\ EventsSound'
    <2>. DEFINE e == EventOf(task.order)
    <2>1. /\ e \in Event
          /\ e.order = task.order
          /\ e.user = orders[task.order].user
          /\ e.product = orders[task.order].product
          /\ e.status = orders[task.order].status
          /\ task.order \in DOMAIN orders
      BY <1>1, <1>7, EventType DEF EmitStatusEvent, EmitSound, EventOf
    <2>2. /\ unsent' = Append(unsent, e)
          /\ UNCHANGED <<orders, events>>
          /\ task'.stage # "emit"
      BY <1>7 DEF EmitStatusEvent, Working
    <2>3. Absent(unsent, e.order) /\ Absent(events, e.order)
      BY <1>1, <1>7, <2>1 DEF EmitStatusEvent, EmitSound
    <2>4. Truthful(unsent', orders') /\ Once(unsent')
      BY <1>1, <2>1, <2>2, <2>3, AppendEvent DEF TypeOK, EventsSound
    <2>5. \A i \in DOMAIN unsent' : Absent(events', unsent'[i].order)
      <3>1. /\ DOMAIN unsent' = 1..(Len(unsent) + 1)
            /\ \A i \in 1..Len(unsent) : i \in DOMAIN unsent /\ unsent'[i] = unsent[i]
            /\ unsent'[Len(unsent) + 1] = e
            /\ Len(unsent) \in Nat
        BY <1>1, <2>1, <2>2, AppendProperties DEF TypeOK
      <3>. QED
        BY <1>1, <2>2, <2>3, <3>1 DEF EventsSound
    <2>. QED
      BY <1>1, <1>5, <2>2, <2>4, <2>5 DEF EventsSound
  <1>8. ASSUME Producer PROVE EmitSound' /\ EventsSound'
    <2>1. /\ unsent # <<>>
          /\ unsent' = Tail(unsent)
          /\ UNCHANGED <<orders, task>>
          /\ events' = events \/ events' = Append(events, Head(unsent))
      BY <1>8 DEF Producer, Flush, FlushFails
    <2>2. /\ Head(unsent) \in Event
          /\ 1 \in DOMAIN unsent /\ Head(unsent) = unsent[1]
          /\ \A i \in DOMAIN unsent' : i + 1 \in DOMAIN unsent /\ unsent'[i] = unsent[i + 1]
          /\ \A o : Absent(unsent, o) => Absent(unsent', o)
          /\ Truthful(unsent', orders') /\ Once(unsent')
          /\ Absent(unsent', Head(unsent).order)
      BY <1>1, <2>1, DropEvent DEF TypeOK, EventsSound
    <2>3. \A i \in DOMAIN unsent' : Absent(events, unsent'[i].order)
      BY <1>1, <2>2 DEF EventsSound
    <2>4. CASE events' = events
      BY <1>1, <2>1, <2>2, <2>3, <2>4 DEF EventsSound, EmitSound
    <2>5. CASE events' = Append(events, Head(unsent))
      <3>1. Absent(events, Head(unsent).order)
        BY <1>1, <2>2 DEF EventsSound
      <3>2. /\ Head(unsent).order \in DOMAIN orders
            /\ Head(unsent).user = orders[Head(unsent).order].user
            /\ Head(unsent).product = orders[Head(unsent).order].product
            /\ Head(unsent).status = orders[Head(unsent).order].status
        BY <1>1, <2>2 DEF EventsSound, Truthful
      <3>3. /\ \A o : Absent(events', o) <=> Absent(events, o) /\ Head(unsent).order # o
            /\ Once(events')
            /\ Truthful(events', orders')
        BY <1>1, <2>1, <2>2, <2>5, <3>1, <3>2, AppendEvent DEF TypeOK, EventsSound
      <3>4. \A i \in DOMAIN unsent' : Absent(events', unsent'[i].order)
        BY <2>2, <2>3, <3>3 DEF Absent
      <3>5. EmitSound'
        BY <1>1, <2>1, <2>2, <3>3 DEF EmitSound, Absent
      <3>. QED
        BY <2>2, <3>3, <3>4, <3>5 DEF EventsSound
    <2>. QED
      BY <2>1, <2>4, <2>5
  <1>9. ASSUME Crash PROVE EmitSound' /\ EventsSound'
    <2>1. unsent' = <<>> /\ UNCHANGED events /\ task'.stage # "emit"
      BY <1>9 DEF Crash, NoTask
    <2>. QED
      BY <1>1, <1>2, <1>5, <2>1 DEF EventsSound, Truthful, Once, TypeOK
  <1>10. ASSUME NEW m \in Messages, Handle(m), ~UpdateStatus(m)
         PROVE  EmitSound' /\ EventsSound'
    <2>1. UNCHANGED <<unsent, events>> /\ task'.stage # "emit"
      BY <1>10 DEF Handle, RefuseUnusable, CreateOrder, CreateOrderFails, RefuseUpdate,
           UpdateStatusFails, ListOrders, Working
    <2>. QED
      BY <1>3, <1>5, <2>1
  <1>11. ASSUME \/ EmitStatusEventFails \/ AskReturns \/ AskTimesOut
                \/ AggregateFails \/ Respond
                \/ RespondFails \/ RespondError \/ RespondErrorFails
         PROVE  EmitSound' /\ EventsSound'
    <2>1. UNCHANGED <<unsent, events>> /\ task'.stage # "emit"
      <3>1. CASE EmitStatusEventFails
        BY <3>1 DEF EmitStatusEventFails, Working
      <3>2. CASE AskReturns
        BY <3>2 DEF AskReturns, NextStage, Working
      <3>3. CASE AskTimesOut
        BY <3>3 DEF AskTimesOut, NextStage, Working
      <3>4. CASE Respond
        BY <3>4 DEF Respond, NoTask
      <3>5. CASE RespondFails
        BY <3>5 DEF RespondFails, Working
      <3>6. CASE RespondError
        BY <3>6 DEF RespondError, NoTask
      <3>7. CASE RespondErrorFails
        BY <3>7 DEF RespondErrorFails, NoTask
      <3>8. CASE AggregateFails
        BY <3>8 DEF AggregateFails, Working
      <3>. QED
        BY <1>11, <3>1, <3>2, <3>3, <3>4, <3>5, <3>6, <3>7, <3>8
    <2>. QED
      BY <1>3, <1>5, <2>1
  <1>12. ASSUME \/ \E m \in Messages : Arrive(m)
                \/ DropUnparsable \/ Poll \/ UNCHANGED vars
         PROVE  EmitSound' /\ EventsSound'
    <2>1. UNCHANGED <<task, orders, unsent, events>>
      <3>1. CASE \E m \in Messages : Arrive(m)
        BY <3>1 DEF Arrive
      <3>2. CASE DropUnparsable \/ Poll \/ UNCHANGED vars
        BY <3>2 DEF DropUnparsable, Poll, Commit, Rejoin, vars
      <3>. QED
        BY <1>12, <3>1, <3>2
    <2>. QED
      BY <1>3, <1>4, <2>1
  <1>13. ASSUME NEW m \in Messages, UpdateStatus(m) PROVE EventsSound'
    BY <1>3, <1>13 DEF UpdateStatus
  <1>. QED
    BY <1>6, <1>7, <1>8, <1>9, <1>10, <1>11, <1>12, <1>13 DEF Next, Listener

\* The invariant holds at the start.
LEMMA InitInv == Init => IInv
  <1>. SUFFICES ASSUME Init PROVE IInv
    OBVIOUS
  <1>1. TypeOK
    BY DEF Init, TypeOK, Task, NoTask, Fault
  <1>. QED
    BY <1>1 DEF Init, IInv, EmitSound, EventsSound, NoTask, Truthful, Once

\* Every step preserves the invariant.
LEMMA StepInv == IInv /\ [Next]_vars => IInv'
  BY TypeStep, EventsStep DEF IInv

\* The inductive invariant: it holds of every state of the service.
THEOREM Invariance == Spec => []IInv
  BY InitInv, StepInv, PTL DEF Spec

\* Every state of the service is well-typed.
THEOREM TypeCorrect == Spec => []TypeOK
  <1>1. IInv => TypeOK
    BY DEF IInv
  <1>. QED
    BY <1>1, Invariance, PTL

-----------------------------------------------------------------------------
\* Nobody is told twice that an order settled, whatever was redelivered.
THEOREM NeverAnnouncedTwice == Spec => []Lifecycle!AnnouncedOnce
  <1>. IInv => Lifecycle!AnnouncedOnce
    BY DEF IInv, EventsSound, Once, Lifecycle!AnnouncedOnce
  <1>. QED
    BY Invariance, PTL

\* What was announced of an order is what its row says, for ever.
THEOREM AnnouncementsTruthful == Spec => []Lifecycle!AnnouncedTruthfully
  <1>1. IInv => Lifecycle!AnnouncedTruthfully
    <2>. SUFFICES ASSUME IInv, NEW i \in DOMAIN events
                  PROVE  /\ events[i].order \in DOMAIN orders
                         /\ events[i] = Lifecycle!EventOf(events[i].order)
      BY DEF Lifecycle!AnnouncedTruthfully
    <2>1. PICK e \in Event : e = events[i]
      BY DEF IInv, TypeOK
    <2>2. /\ e.order \in DOMAIN orders
          /\ e.user = orders[e.order].user
          /\ e.product = orders[e.order].product
          /\ e.status = orders[e.order].status
      BY <2>1 DEF IInv, EventsSound, Truthful
    <2>3. e = Lifecycle!EventOf(e.order)
      BY <2>1, <2>2 DEF Event, Lifecycle!EventOf
    <2>. QED
      BY <2>1, <2>2, <2>3
  <1>. QED
    BY <1>1, Invariance, PTL

-----------------------------------------------------------------------------
\* Every step of the service is a step of the lifecycle, or leaves it alone:
\* an insert places an order, a save settles it, a flush announces it.
LEMMA LifecycleStep == IInv /\ [Next]_vars => [Lifecycle!Next]_(Lifecycle!vars)
  <1>. SUFFICES ASSUME IInv, [Next]_vars PROVE [Lifecycle!Next]_(Lifecycle!vars)
    OBVIOUS
  <1>1. TypeOK /\ EventsSound
    BY DEF IInv
  <1>2. ASSUME UNCHANGED <<orders, events>> PROVE UNCHANGED Lifecycle!vars
    BY <1>2 DEF Lifecycle!vars
  <1>3. ASSUME NEW m \in Messages, m.uri = "create", UNCHANGED events,
               orders' = Append(orders, NewOrder(m.user, m.product))
        PROVE  Lifecycle!Next
    <2>1. m.user \in User /\ m.product \in Product
      BY <1>3, MessagesAssumption
         DEF Message, CreateMessage, UpdateMessage, ListMessage, OtherMessage
    <2>2. Lifecycle!Place(m.user, m.product)
      BY <1>3 DEF Lifecycle!Place, Lifecycle!NewOrder, NewOrder
    <2>. QED
      BY <2>1, <2>2 DEF Lifecycle!Next
  <1>4. ASSUME NEW m \in Messages, m.uri = "update", Applicable(m), UNCHANGED events,
               orders' = [orders EXCEPT ![m.order] = Updated(@, m)]
        PROVE  Lifecycle!Next
    <2>. DEFINE row == orders[m.order]
                saved == Updated(row, m)
    <2>1. /\ m.order \in DOMAIN orders
          /\ row \in Order
          /\ row.status = "PENDING"
          /\ saved \in Order
          /\ saved.status \in Settled
          /\ saved.user = row.user /\ saved.product = row.product
      BY <1>1, <1>4, UpdatedRow DEF TypeOK, Updated
    <2>2. saved = [row EXCEPT !.status = saved.status, !.session = saved.session]
      BY <2>1 DEF Order
    <2>3. Lifecycle!Settle(m.order, saved.status, saved.session)
      BY <1>1, <1>4, <2>1, <2>2 DEF Lifecycle!Settle, TypeOK
    <2>4. saved.session \in Session \cup {NoSession} /\ saved.status \in Lifecycle!Settled
      BY <2>1 DEF Order, Settled, Lifecycle!Settled
    <2>. QED
      BY <2>1, <2>3, <2>4 DEF Lifecycle!Next
  <1>5. CASE Flush
    <2>. DEFINE e == Head(unsent)
    <2>1. /\ unsent # <<>>
          /\ events' = Append(events, e)
          /\ UNCHANGED orders
      BY <1>5 DEF Flush
    <2>2. e \in Event /\ 1 \in DOMAIN unsent /\ e = unsent[1]
      BY <1>1, <2>1, DropEvent DEF TypeOK
    <2>3. /\ e.order \in DOMAIN orders
          /\ e = EventOf(e.order)
          /\ orders[e.order].status \in Settled
          /\ Absent(events, e.order)
      BY <1>1, <2>2 DEF EventsSound, Truthful, EventOf, Event
    <2>4. Lifecycle!Announce(e.order)
      BY <2>1, <2>3 DEF Lifecycle!Announce, Lifecycle!Announced, Lifecycle!EventOf,
         EventOf, Absent, Lifecycle!Settled, Settled
    <2>. QED
      BY <2>3, <2>4 DEF Lifecycle!Next
  <1>6. ASSUME NEW m \in Messages, CreateOrder(m) PROVE [Lifecycle!Next]_(Lifecycle!vars)
    BY <1>2, <1>3, <1>6 DEF CreateOrder, Takes
  <1>7. ASSUME NEW m \in Messages, CreateOrderFails(m) PROVE [Lifecycle!Next]_(Lifecycle!vars)
    BY <1>2, <1>3, <1>7 DEF CreateOrderFails, Takes
  <1>8. ASSUME NEW m \in Messages, UpdateStatus(m) PROVE [Lifecycle!Next]_(Lifecycle!vars)
    BY <1>2, <1>4, <1>8 DEF UpdateStatus, Takes
  <1>9. ASSUME NEW m \in Messages, UpdateStatusFails(m) PROVE [Lifecycle!Next]_(Lifecycle!vars)
    BY <1>2, <1>4, <1>9 DEF UpdateStatusFails, Takes
  <1>10. ASSUME NEW m \in Messages,
               Arrive(m) \/ RefuseUnusable(m) \/ RefuseUpdate(m) \/ ListOrders(m)
        PROVE  [Lifecycle!Next]_(Lifecycle!vars)
    BY <1>2, <1>10 DEF Arrive, RefuseUnusable, RefuseUpdate, ListOrders
  <1>11. CASE \/ DropUnparsable \/ EmitStatusEvent \/ EmitStatusEventFails
            \/ AskReturns \/ AskTimesOut \/ AggregateFails \/ Respond \/ RespondFails
            \/ RespondError \/ RespondErrorFails \/ Poll \/ FlushFails \/ Crash
    <2>1. UNCHANGED <<orders, events>>
      <3>1. CASE DropUnparsable
        BY <3>1 DEF DropUnparsable
      <3>2. CASE EmitStatusEvent
        BY <3>2 DEF EmitStatusEvent
      <3>3. CASE EmitStatusEventFails
        BY <3>3 DEF EmitStatusEventFails
      <3>4. CASE AskReturns
        BY <3>4 DEF AskReturns
      <3>5. CASE AskTimesOut
        BY <3>5 DEF AskTimesOut
      <3>6. CASE Respond
        BY <3>6 DEF Respond
      <3>7. CASE RespondFails
        BY <3>7 DEF RespondFails
      <3>8. CASE RespondError
        BY <3>8 DEF RespondError
      <3>9. CASE RespondErrorFails
        BY <3>9 DEF RespondErrorFails
      <3>10. CASE Poll
        BY <3>10 DEF Poll, Commit, Rejoin
      <3>11. CASE FlushFails
        BY <3>11 DEF FlushFails
      <3>12. CASE Crash
        BY <3>12 DEF Crash
      <3>13. CASE AggregateFails
        BY <3>13 DEF AggregateFails
      <3>. QED
        BY <1>11, <3>1, <3>2, <3>3, <3>4, <3>5, <3>6, <3>7, <3>8, <3>9, <3>10, <3>11,
           <3>12, <3>13
    <2>. QED
      BY <1>2, <2>1
  <1>12. CASE UNCHANGED vars
    BY <1>2, <1>12 DEF vars
  <1>. QED
    BY <1>5, <1>6, <1>7, <1>8, <1>9, <1>10, <1>11, <1>12
       DEF Next, Listener, Handle, Producer

\* The order service keeps the promise of OrderLifecycle, whatever crashes,
\* redeliveries and failures happen to it.
THEOREM Refinement == Spec => ImplementsLifecycle
  <1>1. Init => Lifecycle!Init
    BY DEF Init, Lifecycle!Init
  <1>. QED
    BY <1>1, LifecycleStep, Invariance, PTL DEF Spec, ImplementsLifecycle, Lifecycle!Spec

-----------------------------------------------------------------------------
\* The request being handled is the last one taken, and is not committed yet.
TaskSound ==
  task.stage # "idle" =>
    /\ committed < position
    /\ task.msg = requests[position]
    /\ Parsable(task.msg)

\* Every request taken is answered, except the one being handled.
TakenAnswered ==
  spent["send"] = 0 =>
    \A i \in 1..position :
      Owed(requests[i]) =>
        Answered(requests[i]) \/ (task.stage # "idle" /\ i = position)

AnswerInv == TaskSound /\ TakenAnswered

\* Every step keeps what was taken answered, or being answered.
LEMMA AnswerStep == TypeOK /\ TypeOK' /\ AnswerInv /\ [Next]_vars => AnswerInv'
  <1>. SUFFICES ASSUME TypeOK, TypeOK', AnswerInv, [Next]_vars PROVE AnswerInv'
    OBVIOUS
  <1>1. TaskSound /\ TakenAnswered
    BY DEF AnswerInv
  <1>2. \A i \in 1..position : requests[i] \in Messages
    BY DEF TypeOK
  <1>3. ASSUME NEW m \in Messages, Arrive(m) PROVE AnswerInv'
    <2>1. /\ Len(requests') = Len(requests) + 1
          /\ \A i \in 1..Len(requests) : requests'[i] = requests[i]
      BY <1>3, AppendProperties DEF Arrive, TypeOK
    <2>. QED
      BY <1>1, <1>3, <2>1
         DEF Arrive, AnswerInv, TaskSound, TakenAnswered, Answered, TypeOK
  <1>4. CASE DropUnparsable
    BY <1>1, <1>4 DEF DropUnparsable, AnswerInv, TaskSound, TakenAnswered, Owed,
       Answered, NoTask, TypeOK
  <1>5. ASSUME NEW m \in Messages, Handle(m) PROVE AnswerInv'
    <2>1. /\ task = NoTask
          /\ position < Len(requests)
          /\ m = requests[position + 1]
          /\ Parsable(m)
          /\ position' = position + 1
          /\ task'.stage # "idle" /\ task'.msg = m
          /\ UNCHANGED <<requests, committed, replies>>
          /\ spent' = spent \/ Fails("database")
      BY <1>5 DEF Handle, Takes, Working, RefuseUnusable, CreateOrder, CreateOrderFails,
         UpdateStatus, RefuseUpdate, UpdateStatusFails, ListOrders
    <2>2. spent'["send"] = spent["send"]
      BY <2>1 DEF Fails, TypeOK, Fault
    <2>. QED
      BY <1>1, <2>1, <2>2
         DEF AnswerInv, TaskSound, TakenAnswered, Answered, NoTask, TypeOK
  <1>6. ASSUME task.stage # "idle", task'.stage # "idle",
               UNCHANGED <<requests, position, committed, replies>>,
               task'.msg = task.msg,
               spent' = spent \/ Fails("timeout") \/ Fails("database")
        PROVE  AnswerInv'
    <2>1. spent'["send"] = spent["send"]
      BY <1>6 DEF Fails, TypeOK, Fault
    <2>. QED
      BY <1>1, <1>6, <2>1 DEF AnswerInv, TaskSound, TakenAnswered, Answered, TypeOK
  <1>7. ASSUME task.stage # "idle",
               \/ task'.stage = "idle"
               \/ task'.stage # "idle" /\ task'.msg = task.msg,
               UNCHANGED <<requests, position, committed>>,
               Fails("send")
        PROVE  AnswerInv'
    <2>1. spent'["send"] # 0
      BY <1>7 DEF Fails, TypeOK, Fault
    <2>. QED
      BY <1>1, <1>7, <2>1 DEF AnswerInv, TaskSound, TakenAnswered, TypeOK
  <1>8. ASSUME task.stage # "idle", NEW ok \in BOOLEAN, NEW o \in Nat,
               replies' = Answer(ok, o), task' = NoTask,
               UNCHANGED <<requests, position, committed, spent>>
        PROVE  AnswerInv'
    <2>1. task.msg = requests[position] /\ committed < position
      BY <1>1, <1>8 DEF TaskSound
    <2>2. replies \subseteq replies'
      BY <1>8 DEF Answer
    <2>3. Owed(requests[position]) => Answered(requests[position])'
      <3>. SUFFICES ASSUME Owed(requests[position])
                    PROVE  \E r \in replies' : r.to = requests[position].id
        BY <1>8 DEF Answered
      <3>. DEFINE r == [to |-> task.msg.id, ok |-> ok, order |-> o]
      <3>1. task.msg.answer
        BY <2>1 DEF Owed
      <3>2. r \in replies'
        BY <1>8, <3>1 DEF Answer
      <3>3. r.to = requests[position].id
        BY <2>1
      <3>. QED
        BY <3>2, <3>3
    <2>. QED
      BY <1>1, <1>8, <2>1, <2>2, <2>3
         DEF AnswerInv, TaskSound, TakenAnswered, Answered, NoTask, TypeOK
  <1>9. CASE EmitStatusEvent
    BY <1>6, <1>9 DEF EmitStatusEvent, Working
  <1>10. CASE EmitStatusEventFails
    BY <1>7, <1>10 DEF EmitStatusEventFails, Working
  <1>11. CASE AskReturns
    BY <1>6, <1>11 DEF AskReturns, NextStage, Working
  <1>12. CASE AskTimesOut
    BY <1>6, <1>12 DEF AskTimesOut, NextStage, Working
  <1>13. CASE Respond
    BY <1>8, <1>13, AtWork DEF Respond
  <1>14. CASE RespondFails
    BY <1>7, <1>14 DEF RespondFails, Working
  <1>15. CASE RespondError
    BY <1>8, <1>15 DEF RespondError
  <1>16. CASE RespondErrorFails
    BY <1>7, <1>16 DEF RespondErrorFails, NoTask
  <1>17. CASE Poll
    BY <1>1, <1>17 DEF Poll, Commit, Rejoin, AnswerInv, TaskSound, TakenAnswered,
       Answered, NoTask, TypeOK
  <1>18. CASE Flush
    BY <1>1, <1>18 DEF Flush, AnswerInv, TaskSound, TakenAnswered, Answered
  <1>19. CASE FlushFails
    <2>1. spent'["send"] # 0
      BY <1>19 DEF FlushFails, Fails, TypeOK, Fault
    <2>. QED
      BY <1>1, <1>19, <2>1 DEF FlushFails, AnswerInv, TaskSound, TakenAnswered
  <1>20. CASE Crash
    <2>1. spent'["send"] = spent["send"]
      BY <1>20 DEF Crash, Fails, TypeOK, Fault
    <2>. QED
      BY <1>1, <1>20, <2>1
         DEF Crash, AnswerInv, TaskSound, TakenAnswered, Answered, NoTask, TypeOK
  <1>21. CASE UNCHANGED vars
    BY <1>1, <1>21 DEF vars, AnswerInv, TaskSound, TakenAnswered, Answered
  <1>22. CASE AggregateFails
    BY <1>6, <1>22 DEF AggregateFails, Working
  <1>. QED
    BY <1>3, <1>4, <1>5, <1>9, <1>10, <1>11, <1>12, <1>13, <1>14, <1>15, <1>16,
       <1>17, <1>18, <1>19, <1>20, <1>21, <1>22 DEF Next, Listener, Producer

\* No request is committed unanswered while every send succeeds.
THEOREM NothingSkipped == Spec => []CommittedAnswered
  <1>1. Init => AnswerInv
    BY DEF Init, AnswerInv, TaskSound, TakenAnswered, NoTask
  <1>2. TypeOK /\ AnswerInv => CommittedAnswered
    BY DEF TypeOK, AnswerInv, TaskSound, TakenAnswered, CommittedAnswered
  <1>. QED
    BY <1>1, <1>2, AnswerStep, TypeCorrect, PTL DEF Spec

-----------------------------------------------------------------------------
\* What an OK answer will say holds as soon as the work for it is done, and
\* every OK answer written still says the truth.
ReplySound ==
  /\ Len(origin) = Len(orders)
  /\ task.stage \notin {"idle", "refuse"} => StillTrue(task.msg, task.order)
  /\ RepliesTruthful

\* The requests that created the orders are never forgotten or exchanged.
OriginKept ==
  /\ Len(origin') = Len(orders')
  /\ \A o \in DOMAIN origin : origin'[o] = origin[o]

\* A step never changes which request an order was made for.
LEMMA OriginStep == TypeOK /\ Len(origin) = Len(orders) /\ [Next]_vars => OriginKept
  <1>. SUFFICES ASSUME TypeOK, Len(origin) = Len(orders), [Next]_vars PROVE OriginKept
    OBVIOUS
  <1>1. ASSUME UNCHANGED <<orders, origin>> PROVE OriginKept
    BY <1>1 DEF OriginKept
  <1>2. ASSUME NEW m \in Messages, m.uri = "create",
               orders' = Append(orders, NewOrder(m.user, m.product)),
               origin' = Append(origin, m.id)
        PROVE  OriginKept
    BY <1>2, CreatedRow, AppendProperties DEF OriginKept, TypeOK
  <1>3. ASSUME NEW m \in Messages, m.uri = "update", Applicable(m), UNCHANGED origin,
               orders' = [orders EXCEPT ![m.order] = Updated(@, m)]
        PROVE  OriginKept
    BY <1>3, UpdatedRow, ExceptSeq DEF OriginKept, TypeOK
  <1>4. ASSUME NEW m \in Messages, CreateOrder(m) PROVE OriginKept
    BY <1>2, <1>4 DEF CreateOrder, Takes
  <1>5. ASSUME NEW m \in Messages, CreateOrderFails(m) PROVE OriginKept
    BY <1>1, <1>2, <1>5 DEF CreateOrderFails, Takes
  <1>6. ASSUME NEW m \in Messages, UpdateStatus(m) PROVE OriginKept
    BY <1>3, <1>6 DEF UpdateStatus, Takes
  <1>7. ASSUME NEW m \in Messages, UpdateStatusFails(m) PROVE OriginKept
    BY <1>1, <1>3, <1>7 DEF UpdateStatusFails, Takes
  <1>8. ASSUME NEW m \in Messages,
               Arrive(m) \/ RefuseUnusable(m) \/ RefuseUpdate(m) \/ ListOrders(m)
        PROVE  OriginKept
    BY <1>1, <1>8 DEF Arrive, RefuseUnusable, RefuseUpdate, ListOrders
  <1>9. CASE DropUnparsable
    BY <1>1, <1>9 DEF DropUnparsable
  <1>10. CASE EmitStatusEvent
    BY <1>1, <1>10 DEF EmitStatusEvent
  <1>11. CASE EmitStatusEventFails
    BY <1>1, <1>11 DEF EmitStatusEventFails
  <1>12. CASE AskReturns
    BY <1>1, <1>12 DEF AskReturns
  <1>13. CASE AskTimesOut
    BY <1>1, <1>13 DEF AskTimesOut
  <1>14. CASE Respond
    BY <1>1, <1>14 DEF Respond
  <1>15. CASE RespondFails
    BY <1>1, <1>15 DEF RespondFails
  <1>16. CASE RespondError
    BY <1>1, <1>16 DEF RespondError
  <1>17. CASE RespondErrorFails
    BY <1>1, <1>17 DEF RespondErrorFails
  <1>18. CASE Poll
    BY <1>1, <1>18 DEF Poll, Commit, Rejoin
  <1>19. CASE Flush
    BY <1>1, <1>19 DEF Flush
  <1>20. CASE FlushFails
    BY <1>1, <1>20 DEF FlushFails
  <1>21. CASE Crash
    BY <1>1, <1>21 DEF Crash
  <1>22. CASE UNCHANGED vars
    BY <1>1, <1>22 DEF vars
  <1>23. CASE AggregateFails
    BY <1>1, <1>23 DEF AggregateFails
  <1>. QED
    BY <1>4, <1>5, <1>6, <1>7, <1>8, <1>9, <1>10, <1>11, <1>12, <1>13, <1>14, <1>15, <1>16, <1>17, <1>18, <1>19, <1>20, <1>21, <1>22, <1>23
       DEF Next, Listener, Handle, Producer

\* What an answer said goes on being true: settled rows and origins are kept.
LEMMA StillTrueKept ==
  ASSUME TypeOK, TypeOK', RowsKept, OriginKept, Len(origin) = Len(orders),
         NEW m \in Messages, NEW o \in Nat, StillTrue(m, o)
  PROVE  StillTrue(m, o)'
  <1>1. ASSUME o \in DOMAIN orders
        PROVE  /\ o \in DOMAIN orders' /\ origin'[o] = origin[o]
               /\ orders'[o].user = orders[o].user
               /\ orders'[o].product = orders[o].product
               /\ orders[o].status \in Settled => orders'[o] = orders[o]
    <2>1. /\ DOMAIN orders = 1..Len(orders) /\ DOMAIN origin = 1..Len(origin)
          /\ DOMAIN orders' = 1..Len(orders')
          /\ Len(orders) \in Nat /\ Len(orders') \in Nat
      BY DEF TypeOK
    <2>. QED
      BY <1>1, <2>1 DEF RowsKept, OriginKept
  <1>. QED
    BY <1>1 DEF StillTrue

\* Every step keeps the answers, and the one being prepared, true.
LEMMA ReplyStep == IInv /\ ReplySound /\ [Next]_vars => ReplySound'
  <1>. SUFFICES ASSUME IInv, ReplySound, [Next]_vars PROVE ReplySound'
    OBVIOUS
  <1>1. /\ TypeOK /\ TypeOK' /\ RowsKept /\ OriginKept
        /\ Len(origin) = Len(orders) /\ Len(origin') = Len(orders')
    BY TypeStep, RowsStep, OriginStep DEF IInv, ReplySound, OriginKept
  <1>2. ASSUME NEW r \in replies, NEW m \in Messages, r.ok, r.to = m.id
        PROVE  StillTrue(m, r.order)'
    <2>1. StillTrue(m, r.order) /\ r.order \in Nat
      BY <1>1, <1>2 DEF ReplySound, RepliesTruthful, TypeOK, Reply
    <2>. QED
      BY <1>1, <2>1, StillTrueKept
  \* Steps that write no OK answer.
  <1>3. ASSUME \A r \in replies' : r \in replies \/ ~r.ok PROVE RepliesTruthful'
    BY <1>2, <1>3 DEF RepliesTruthful
  \* Steps that leave the request being handled and its order as they are.
  <1>4. ASSUME task.stage \notin {"idle", "refuse"},
               task'.msg = task.msg, task'.order = task.order
        PROVE  StillTrue(task.msg, task.order)'
    <2>1. task.msg \in Messages /\ task.order \in Nat /\ StillTrue(task.msg, task.order)
      BY <1>1, <1>4, AtWork DEF ReplySound
    <2>2. PICK m \in Messages, o \in Nat :
            m = task.msg /\ o = task.order /\ StillTrue(m, o)
      BY <2>1
    <2>3. StillTrue(m, o)'
      BY <1>1, <2>2, StillTrueKept
    <2>. QED
      BY <1>4, <2>2, <2>3
  <1>5. ASSUME task'.stage \in {"idle", "refuse"}, UNCHANGED replies PROVE ReplySound'
    BY <1>1, <1>3, <1>5 DEF ReplySound
  <1>6. ASSUME UNCHANGED <<task, replies>> PROVE ReplySound'
    <2>1. CASE task.stage \in {"idle", "refuse"}
      BY <1>5, <1>6, <2>1
    <2>2. CASE task.stage \notin {"idle", "refuse"}
      BY <1>1, <1>3, <1>4, <1>6, <2>2 DEF ReplySound
    <2>. QED
      BY <2>1, <2>2
  <1>7. ASSUME NEW m \in Messages, CreateOrder(m) PROVE ReplySound'
    <2>1. /\ task' = Working("respond", m, Len(orders) + 1)
          /\ m.uri = "create"
          /\ orders' = Append(orders, NewOrder(m.user, m.product))
          /\ origin' = Append(origin, m.id)
          /\ UNCHANGED replies
      BY <1>7 DEF CreateOrder, Takes
    <2>2. /\ Len(orders) + 1 \in DOMAIN orders'
          /\ orders'[Len(orders) + 1] = NewOrder(m.user, m.product)
          /\ origin'[Len(orders) + 1] = m.id
      BY <1>1, <2>1, CreatedRow, AppendProperties DEF TypeOK
    <2>3. /\ task'.msg = m
          /\ task'.order \in DOMAIN orders'
          /\ orders'[task'.order].user = m.user
          /\ orders'[task'.order].product = m.product
          /\ origin'[task'.order] = m.id
      <3>1. task'.msg = m /\ task'.order = Len(orders) + 1
        BY <2>1 DEF Working
      <3>2. /\ NewOrder(m.user, m.product).user = m.user
            /\ NewOrder(m.user, m.product).product = m.product
        BY DEF NewOrder
      <3>. QED
        BY <2>2, <3>1, <3>2
    <2>4. StillTrue(task.msg, task.order)'
      BY <2>1, <2>3 DEF StillTrue
    <2>. QED
      BY <1>1, <1>3, <2>1, <2>4 DEF ReplySound
  <1>8. ASSUME NEW m \in Messages, UpdateStatus(m) PROVE ReplySound'
    <2>1. /\ task' = Working("emit", m, m.order)
          /\ m.uri = "update"
          /\ orders' = [orders EXCEPT ![m.order] = Updated(@, m)]
          /\ UNCHANGED replies
      BY <1>8 DEF UpdateStatus, Takes
    <2>2. /\ m.order \in DOMAIN orders
          /\ Updated(orders[m.order], m).status \in Settled
      BY <1>1, <1>8, UpdatedRow DEF UpdateStatus, Takes, TypeOK
    <2>3. /\ m.order \in DOMAIN orders'
          /\ orders'[m.order] = Updated(orders[m.order], m)
      BY <1>1, <2>1, <2>2 DEF TypeOK
    <2>4. StillTrue(task.msg, task.order)'
      BY <2>1, <2>2, <2>3 DEF StillTrue, Updated, Working
    <2>. QED
      BY <1>1, <1>3, <2>1, <2>4 DEF ReplySound
  <1>9. ASSUME NEW m \in Messages, ListOrders(m) PROVE ReplySound'
    <2>1. /\ task' = Working("users", m, 0)
          /\ m.uri = "list"
          /\ UNCHANGED replies
      BY <1>9 DEF ListOrders, Takes
    <2>2. StillTrue(task.msg, task.order)'
      BY <2>1 DEF StillTrue, Working
    <2>. QED
      BY <1>1, <1>3, <2>1, <2>2 DEF ReplySound
  \* Steps that write the OK answer of the request being handled, or none.
  <1>10. ASSUME task.stage = "respond",
                replies' \in {replies, Answer(TRUE, task.order)}
         PROVE  RepliesTruthful'
    <2>1. task.msg \in Messages /\ task.order \in Nat /\ StillTrue(task.msg, task.order)
      BY <1>1, <1>10, AtWork DEF ReplySound
    <2>2. SUFFICES ASSUME NEW r \in replies', NEW m \in Messages, r.ok, r.to = m.id
                   PROVE  StillTrue(m, r.order)'
      BY DEF RepliesTruthful
    <2>3. CASE r \in replies
      BY <1>2, <2>2, <2>3
    <2>4. CASE r \notin replies
      <3>1. r.to = task.msg.id /\ r.order = task.order
        BY <1>10, <2>4 DEF Answer
      <3>2. m = task.msg
        BY <2>1, <2>2, <3>1, MessagesAssumption
      <3>. QED
        BY <1>1, <2>1, <3>1, <3>2, StillTrueKept
    <2>. QED
      BY <2>3, <2>4
  <1>11. ASSUME task'.stage \in {"idle", "refuse"},
                replies' \in {replies, Answer(FALSE, 0)}
         PROVE  ReplySound'
    BY <1>1, <1>3, <1>11 DEF ReplySound, Answer
  <1>12. ASSUME NEW m \in Messages, RefuseUnusable(m) PROVE ReplySound'
    BY <1>5, <1>12 DEF RefuseUnusable, Working
  <1>13. ASSUME NEW m \in Messages, CreateOrderFails(m) PROVE ReplySound'
    BY <1>5, <1>13 DEF CreateOrderFails, Working
  <1>14. ASSUME NEW m \in Messages, RefuseUpdate(m) PROVE ReplySound'
    BY <1>5, <1>14 DEF RefuseUpdate, Working
  <1>15. ASSUME NEW m \in Messages, UpdateStatusFails(m) PROVE ReplySound'
    BY <1>5, <1>15 DEF UpdateStatusFails, Working
  <1>16. CASE EmitStatusEvent
    <2>1. /\ task.stage \notin {"idle", "refuse"} /\ UNCHANGED replies
          /\ task'.msg = task.msg /\ task'.order = task.order
      BY <1>16 DEF EmitStatusEvent, Working
    <2>. QED
      BY <1>1, <1>3, <1>4, <2>1 DEF ReplySound
  <1>17. CASE EmitStatusEventFails
    <2>1. /\ task.stage \notin {"idle", "refuse"} /\ UNCHANGED replies
          /\ task'.msg = task.msg /\ task'.order = task.order
      BY <1>17 DEF EmitStatusEventFails, Working
    <2>. QED
      BY <1>1, <1>3, <1>4, <2>1 DEF ReplySound
  <1>18. CASE AskReturns
    <2>1. /\ task.stage \notin {"idle", "refuse"} /\ UNCHANGED replies
          /\ task'.msg = task.msg /\ task'.order = task.order
      BY <1>18 DEF AskReturns, NextStage, Working
    <2>. QED
      BY <1>1, <1>3, <1>4, <2>1 DEF ReplySound
  <1>19. CASE AskTimesOut
    <2>1. /\ task.stage \notin {"idle", "refuse"} /\ UNCHANGED replies
          /\ task'.msg = task.msg /\ task'.order = task.order
      BY <1>19 DEF AskTimesOut, NextStage, Working
    <2>. QED
      BY <1>1, <1>3, <1>4, <2>1 DEF ReplySound
  <1>20. CASE Respond
    BY <1>1, <1>10, <1>20 DEF Respond, ReplySound, NoTask
  <1>21. CASE RespondFails
    BY <1>1, <1>10, <1>21 DEF RespondFails, ReplySound, Working
  <1>22. CASE RespondError
    BY <1>11, <1>22 DEF RespondError, NoTask
  <1>23. CASE RespondErrorFails
    BY <1>11, <1>23 DEF RespondErrorFails, NoTask
  <1>24. ASSUME NEW m \in Messages, Arrive(m) PROVE ReplySound'
    BY <1>6, <1>24 DEF Arrive
  <1>25. CASE DropUnparsable
    BY <1>6, <1>25 DEF DropUnparsable
  <1>26. CASE Poll
    BY <1>6, <1>26 DEF Poll, Commit, Rejoin
  <1>27. CASE Flush
    BY <1>6, <1>27 DEF Flush
  <1>28. CASE FlushFails
    BY <1>6, <1>28 DEF FlushFails
  <1>29. CASE Crash
    BY <1>5, <1>29 DEF Crash, NoTask
  <1>30. CASE UNCHANGED vars
    BY <1>6, <1>30 DEF vars
  <1>31. CASE AggregateFails
    BY <1>5, <1>31 DEF AggregateFails, Working
  <1>. QED
    BY <1>7, <1>8, <1>9, <1>12, <1>13, <1>14, <1>15, <1>16, <1>17, <1>18, <1>19, <1>20, <1>21, <1>22, <1>23, <1>24, <1>25, <1>26, <1>27, <1>28, <1>29, <1>30, <1>31
       DEF Next, Listener, Handle, Producer

\* Every OK answer of the service stays true for ever.
THEOREM AnswersTruthful == Spec => []RepliesTruthful
  <1>1. Init => ReplySound
    BY DEF Init, ReplySound, RepliesTruthful, NoTask
  <1>2. ReplySound => RepliesTruthful
    BY DEF ReplySound
  <1>. QED
    BY <1>1, <1>2, ReplyStep, Invariance, PTL DEF Spec

-----------------------------------------------------------------------------
\* A row that a step writes is a new order's, or says what a request for an update
\* in the topic asked for.
Asks(m, o, row) ==
  /\ m.uri = "update" /\ m.order = o
  /\ row.status = m.status
  /\ m.session # NoSession => row.session = m.session

\* Which rows a step writes, and with which requests.
LEMMA RowsWritten ==
  ASSUME TypeOK, [Next]_vars, NEW o \in 1..Len(orders')
  PROVE  \/ o \in 1..Len(orders) /\ orders'[o] = orders[o]
         \/ orders'[o].status = "PENDING"
         \/ \E i \in 1..Len(requests) : Asks(requests[i], o, orders'[o])
  <1>. DEFINE Written == \/ o \in 1..Len(orders) /\ orders'[o] = orders[o]
                         \/ orders'[o].status = "PENDING"
                         \/ \E i \in 1..Len(requests) : Asks(requests[i], o, orders'[o])
  <1>1. ASSUME UNCHANGED orders PROVE Written
    BY <1>1
  <1>2. ASSUME NEW m \in Messages, m.uri = "create",
               orders' = Append(orders, NewOrder(m.user, m.product))
        PROVE  Written
    <2>1. /\ Len(orders') = Len(orders) + 1
          /\ \A q \in 1..Len(orders) : orders'[q] = orders[q]
          /\ orders'[Len(orders) + 1].status = "PENDING"
      BY <1>2, CreatedRow, AppendProperties DEF TypeOK, NewOrder
    <2>2. o \in 1..Len(orders) \/ o = Len(orders) + 1
      BY <2>1 DEF TypeOK
    <2>. QED
      BY <2>1, <2>2
  <1>3. ASSUME NEW m \in Messages, Takes(m, "update"), Applicable(m),
               orders' = [orders EXCEPT ![m.order] = Updated(@, m)]
        PROVE  Written
    <2>1. /\ m.uri = "update" /\ position + 1 \in 1..Len(requests)
          /\ m = requests[position + 1]
      BY <1>3 DEF Takes, TypeOK
    <2>2. /\ m.order \in 1..Len(orders)
          /\ Updated(orders[m.order], m) \in Order
      BY <1>3, <2>1, UpdatedRow
    <2>3. /\ Len(orders') = Len(orders)
          /\ orders'[m.order] = Updated(orders[m.order], m)
          /\ \A q \in 1..Len(orders) : q # m.order => orders'[q] = orders[q]
      BY <1>3, <2>2, ExceptSeq DEF TypeOK
    <2>4. CASE o = m.order
      <3>1. Asks(m, o, orders'[o])
        BY <2>1, <2>3, <2>4 DEF Asks, Updated
      <3>. QED
        BY <2>1, <3>1
    <2>5. CASE o # m.order
      BY <2>3, <2>5
    <2>. QED
      BY <2>4, <2>5
  <1>4. ASSUME NEW m \in Messages, CreateOrder(m) \/ CreateOrderFails(m) PROVE Written
    BY <1>1, <1>2, <1>4 DEF CreateOrder, CreateOrderFails, Takes
  <1>5. ASSUME NEW m \in Messages, UpdateStatus(m) \/ UpdateStatusFails(m) PROVE Written
    BY <1>1, <1>3, <1>5 DEF UpdateStatus, UpdateStatusFails
  <1>6. ASSUME ~\E m \in Messages : \/ CreateOrder(m) \/ CreateOrderFails(m)
                                    \/ UpdateStatus(m) \/ UpdateStatusFails(m)
        PROVE  UNCHANGED orders
    BY <1>6 DEF Next, vars, Arrive, Listener, Handle, DropUnparsable, RefuseUnusable,
         RefuseUpdate, ListOrders, EmitStatusEvent, EmitStatusEventFails, AskReturns,
         AskTimesOut, AggregateFails, Respond, RespondFails, RespondError, RespondErrorFails, Poll,
         Commit, Rejoin, Producer, Flush, FlushFails, Crash
  <1>. QED
    BY <1>1, <1>4, <1>5, <1>6

\* What is announced is never taken back.
LEMMA EventsGrow == TypeOK /\ [Next]_vars => Len(events) <= Len(events')
  <1>. SUFFICES ASSUME TypeOK, [Next]_vars PROVE Len(events) <= Len(events')
    OBVIOUS
  <1>1. CASE Flush
    <2>1. Head(unsent) \in Event /\ events' = Append(events, Head(unsent))
      BY <1>1, HeadTailProperties DEF Flush, TypeOK
    <2>. QED
      BY <2>1, AppendProperties DEF TypeOK
  <1>2. ASSUME ~Flush PROVE UNCHANGED events
    BY <1>2 DEF Next, vars, Arrive, Listener, Handle, DropUnparsable, RefuseUnusable,
         CreateOrder, CreateOrderFails, UpdateStatus, UpdateStatusFails,
         RefuseUpdate, ListOrders, EmitStatusEvent, EmitStatusEventFails, AskReturns,
         AskTimesOut, AggregateFails, Respond, RespondFails, RespondError, RespondErrorFails, Poll,
         Commit, Rejoin, Producer, FlushFails, Crash
  <1>. QED
    BY <1>1, <1>2 DEF TypeOK

-----------------------------------------------------------------------------
(* How many orders a request can make. *)

\* How often x is among the first n of a sequence.
Upto(s, n, x)  == {i \in 1..n : s[i] = x}
Times(s, n, x) == Cardinality(Upto(s, n, x))

\* Times is a number.
LEMMA TimesNat ==
  ASSUME NEW s, NEW n \in Nat, NEW x
  PROVE  IsFiniteSet(Upto(s, n, x)) /\ Times(s, n, x) \in Nat
  <1>1. IsFiniteSet(1..n) /\ Upto(s, n, x) \subseteq 1..n
    BY FS_Interval DEF Upto
  <1>. QED
    BY <1>1, FS_Subset, FS_CardinalityType DEF Times

\* It is no less among more of the sequence.
LEMMA TimesMore ==
  ASSUME NEW s, NEW n \in Nat, NEW k \in 0..n, NEW x
  PROVE  Times(s, k, x) <= Times(s, n, x)
  <1>1. Upto(s, k, x) \subseteq Upto(s, n, x)
    BY DEF Upto
  <1>. QED
    BY <1>1, TimesNat, FS_Subset DEF Times

\* One further counts one more, or none.
LEMMA TimesNext ==
  ASSUME NEW s, NEW n \in Nat, NEW x
  PROVE  Times(s, n + 1, x) = IF s[n + 1] = x THEN Times(s, n, x) + 1 ELSE Times(s, n, x)
  <1>1. CASE s[n + 1] = x
    <2>1. Upto(s, n + 1, x) = Upto(s, n, x) \cup {n + 1} /\ n + 1 \notin Upto(s, n, x)
      BY <1>1 DEF Upto
    <2>. QED
      BY <1>1, <2>1, TimesNat, FS_AddElement DEF Times
  <1>2. CASE s[n + 1] # x
    <2>1. Upto(s, n + 1, x) = Upto(s, n, x)
      BY <1>2 DEF Upto
    <2>. QED
      BY <1>2, <2>1 DEF Times
  <1>. QED
    BY <1>1, <1>2

\* It is about the first n elements only.
LEMMA TimesSame ==
  ASSUME NEW s, NEW t, NEW n \in Nat, NEW x, \A i \in 1..n : s[i] = t[i]
  PROVE  Times(s, n, x) = Times(t, n, x)
  <1>1. Upto(s, n, x) = Upto(t, n, x)
    BY DEF Upto
  <1>. QED
    BY <1>1 DEF Times

\* What is appended counts once.
LEMMA TimesAppend ==
  ASSUME NEW S, NEW s \in Seq(S), NEW e \in S, NEW x
  PROVE  Times(Append(s, e), Len(Append(s, e)), x)
           = IF e = x THEN Times(s, Len(s), x) + 1 ELSE Times(s, Len(s), x)
  <1>1. /\ Len(Append(s, e)) = Len(s) + 1 /\ Len(s) \in Nat
        /\ Append(s, e)[Len(s) + 1] = e
        /\ \A i \in 1..Len(s) : Append(s, e)[i] = s[i]
    <2>1. /\ Len(Append(s, e)) = Len(s) + 1 /\ Append(s, e)[Len(s) + 1] = e
          /\ \A i \in 1..Len(s) : Append(s, e)[i] = s[i]
      BY AppendProperties
    <2>. QED
      BY <2>1
  <1>2. Times(Append(s, e), Len(s), x) = Times(s, Len(s), x)
    BY <1>1, TimesSame
  <1>3. Times(Append(s, e), Len(s) + 1, x)
          = IF Append(s, e)[Len(s) + 1] = x
            THEN Times(Append(s, e), Len(s), x) + 1 ELSE Times(Append(s, e), Len(s), x)
    BY <1>1, TimesNext
  <1>. QED
    BY <1>1, <1>2, <1>3

\* A product grows with its factors.
LEMMA ProductGrows ==
  ASSUME NEW a \in Nat, NEW b \in Nat, NEW k \in Nat, NEW l \in Nat, a <= b, k <= l
  PROVE  a * k \in Nat /\ b * l \in Nat /\ a * k <= b * l
  <1>1. PICK c \in Nat, j \in Nat : b = a + c /\ l = k + j
    <2>1. b - a \in Nat /\ l - k \in Nat /\ b = a + (b - a) /\ l = k + (l - k)
      OBVIOUS
    <2>. QED
      BY <2>1
  <1>2. b * l = a * k + a * j + c * k + c * j
    BY <1>1
  <1>3. a * k \in Nat /\ a * j \in Nat /\ c * k \in Nat /\ c * j \in Nat
    BY <1>1
  <1>. QED
    BY <1>2, <1>3

Half(n) == n \div 2

\* Half grows with its number, by one every two.
LEMMA Halves ==
  \A a, b \in Nat : Half(a) \in Nat /\ (a <= b => Half(a) <= Half(b)) /\ Half(a + 2) = Half(a) + 1
  BY DEF Half

\* How often the listener went back to the committed offset: at each crash, and each
\* time that two calls had timed out in one poll.
Rereads(crashes, timeouts, pending) == crashes + Half(timeouts - pending)
Repeats == Rereads(spent["crash"], spent["timeout"], late)

\* A crash adds one, a timeout adds none before its rejoin, and a rejoin adds one.
LEMMA RereadsGrow ==
  ASSUME NEW c \in Nat, NEW t \in Nat, NEW p \in Nat, p <= t
  PROVE  /\ Rereads(c, t, p) \in Nat
         /\ Rereads(c, t, p) <= Rereads(c, t, 0)
         /\ Rereads(c, t, p) <= Rereads(c, t + 1, p)
         /\ Rereads(c, t + 1, p + 1) = Rereads(c, t, p)
         /\ Rereads(c, t, p) + 1 <= Rereads(c + 1, t, 0)
         /\ p = 2 => Rereads(c, t, p) + 1 = Rereads(c, t, 0)
  <1>1. PICK d \in Nat : t = p + d
    <2>1. t - p \in Nat /\ t = p + (t - p)
      OBVIOUS
    <2>. QED
      BY <2>1
  <1>2. t - p = d /\ t - 0 = t /\ (t + 1) - p = d + 1 /\ (t + 1) - (p + 1) = d
    BY <1>1
  <1>3. /\ Half(d) \in Nat /\ Half(t) \in Nat /\ Half(d + 1) \in Nat
        /\ Half(d) <= Half(t) /\ Half(d) <= Half(d + 1) /\ Half(d + 2) = Half(d) + 1
    <2>1. d <= t /\ d <= d + 1 /\ d + 1 \in Nat
      BY <1>1
    <2>. QED
      BY <2>1, Halves
  <1>4. /\ Rereads(c, t, p) = c + Half(d) /\ Rereads(c, t, 0) = c + Half(t)
        /\ Rereads(c, t + 1, p) = c + Half(d + 1) /\ Rereads(c, t + 1, p + 1) = c + Half(d)
        /\ Rereads(c + 1, t, 0) = (c + 1) + Half(t)
    BY <1>2 DEF Rereads
  <1>5. p = 2 => t = d + 2
    BY <1>1
  <1>. QED
    BY <1>3, <1>4, <1>5

LateCounted == late <= spent["timeout"]

\* What a step does to the requests, the listener's place and the orders made.
Repeated ==
  /\ UNCHANGED <<requests, origin>>
  /\ position' = committed /\ Repeats + 1 <= Repeats'
Made ==
  /\ UNCHANGED requests /\ position < Len(requests) /\ position' = position + 1
  /\ requests[position + 1] \in Messages /\ origin' = Append(origin, requests[position + 1].id)
Moved ==
  /\ UNCHANGED origin /\ position' \in position..Len(requests)
  /\ requests' = requests \/ \E m \in Messages : requests' = Append(requests, m)

\* Every step sends the listener back, and counts it; or hands it one record, with an
\* order at most; or leaves the orders alone.
LEMMA PlaceStep ==
  ASSUME TypeOK, LateCounted, [Next]_vars
  PROVE  /\ LateCounted' /\ Repeats \in Nat /\ Repeats' \in Nat
         /\ Repeated \/ (Repeats <= Repeats' /\ (Made \/ Moved))
  <1>. DEFINE Local == /\ LateCounted' /\ Repeats \in Nat /\ Repeats' \in Nat
                       /\ Repeated \/ (Repeats <= Repeats' /\ (Made \/ Moved))
  <1>0. /\ spent \in [Fault -> Nat] /\ spent["crash"] \in Nat /\ spent["timeout"] \in Nat
        /\ late \in 0..2 /\ late <= spent["timeout"] /\ requests \in Seq(Messages)
        /\ position \in 0..Len(requests) /\ Len(requests) \in Nat
    BY DEF TypeOK, LateCounted, Fault
  <1>1. Repeats \in Nat
    <2>1. late \in Nat
      BY <1>0
    <2>. QED
      BY <1>0, <2>1, RereadsGrow DEF Repeats
  <1>2. ASSUME UNCHANGED late, \/ UNCHANGED spent \/ Fails("database") \/ Fails("send"), Made \/ Moved
        PROVE  Local
    <2>1. spent'["crash"] = spent["crash"] /\ spent'["timeout"] = spent["timeout"]
      BY <1>0, <1>2 DEF Fails, Fault
    <2>. QED
      BY <1>0, <1>1, <1>2, <2>1 DEF Repeats, LateCounted
  <1>3. ASSUME NEW m \in Messages, position < Len(requests), m = requests[position + 1],
               position' = position + 1, UNCHANGED requests,
               UNCHANGED origin \/ origin' = Append(origin, m.id)
        PROVE  Made \/ Moved
    BY <1>0, <1>3 DEF Made, Moved
  <1>4. ASSUME UNCHANGED <<requests, position, origin>> PROVE Moved
    BY <1>0, <1>4 DEF Moved
  <1>5. ASSUME NEW m \in Messages, Handle(m) PROVE Local
    BY <1>2, <1>3, <1>5 DEF Handle, Takes, RefuseUnusable, CreateOrder, CreateOrderFails,
         UpdateStatus, RefuseUpdate, UpdateStatusFails, ListOrders
  <1>6. CASE DropUnparsable
    BY <1>0, <1>2, <1>6 DEF DropUnparsable, Moved
  <1>7. ASSUME NEW m \in Messages, Arrive(m) PROVE Local
    BY <1>0, <1>2, <1>7 DEF Arrive, Moved
  <1>8. CASE EmitStatusEvent \/ EmitStatusEventFails \/ AskReturns \/ AggregateFails
             \/ Respond \/ RespondFails \/ RespondError \/ RespondErrorFails \/ Flush \/ FlushFails
    BY <1>2, <1>4, <1>8 DEF EmitStatusEvent, EmitStatusEventFails, AskReturns, AggregateFails,
         Respond, RespondFails, RespondError, RespondErrorFails, Flush, FlushFails
  <1>9. CASE UNCHANGED vars
    BY <1>2, <1>4, <1>9 DEF vars
  <1>10. CASE AskTimesOut
    <2>1. /\ spent'["timeout"] = spent["timeout"] + 1 /\ spent'["crash"] = spent["crash"]
          /\ late' = IF late = 2 THEN late ELSE late + 1
          /\ UNCHANGED <<requests, position, origin>>
      BY <1>0, <1>10 DEF AskTimesOut, Fails, Fault, Min2
    <2>2. LateCounted'
      BY <1>0, <2>1 DEF LateCounted
    <2>3. Repeats' = Rereads(spent["crash"], spent["timeout"] + 1, late')
      BY <2>1 DEF Repeats
    <2>4. Repeats <= Repeats' /\ Repeats' \in Nat
      <3>1. CASE late = 2
        <4>1. Repeats' = Rereads(spent["crash"], spent["timeout"] + 1, late)
          BY <2>1, <2>3, <3>1
        <4>2. late \in Nat /\ late <= spent["timeout"] + 1 /\ spent["timeout"] + 1 \in Nat
          BY <1>0
        <4>3. Rereads(spent["crash"], spent["timeout"] + 1, late) \in Nat
          BY <1>0, <4>2, RereadsGrow
        <4>4. Repeats <= Rereads(spent["crash"], spent["timeout"] + 1, late)
          BY <1>0, <4>2, RereadsGrow DEF Repeats
        <4>. QED
          BY <4>1, <4>3, <4>4
      <3>2. CASE late # 2
        <4>1. Repeats' = Rereads(spent["crash"], spent["timeout"] + 1, late + 1)
          BY <2>1, <2>3, <3>2
        <4>2. late \in Nat
          BY <1>0
        <4>3. Repeats' = Repeats
          BY <1>0, <4>1, <4>2, RereadsGrow DEF Repeats
        <4>. QED
          BY <1>1, <4>3
      <3>. QED
        BY <3>1, <3>2
    <2>. QED
      BY <1>1, <1>4, <2>1, <2>2, <2>4
  <1>11. CASE Commit
    <2>1. spent' = spent /\ late' = 0 /\ UNCHANGED <<requests, position, origin>>
      BY <1>11 DEF Commit
    <2>2. Repeats' = Rereads(spent["crash"], spent["timeout"], 0)
      BY <2>1 DEF Repeats
    <2>3. Repeats <= Repeats' /\ Repeats' \in Nat /\ LateCounted'
      <3>1. late \in Nat /\ 0 \in Nat /\ 0 <= spent["timeout"]
        BY <1>0
      <3>2. Rereads(spent["crash"], spent["timeout"], 0) \in Nat
        BY <1>0, <3>1, RereadsGrow
      <3>3. Repeats <= Rereads(spent["crash"], spent["timeout"], 0)
        BY <1>0, <3>1, RereadsGrow DEF Repeats
      <3>. QED
        BY <1>0, <2>1, <2>2, <3>2, <3>3 DEF LateCounted
    <2>. QED
      BY <1>1, <1>4, <2>1, <2>3
  <1>12. CASE Rejoin
    <2>1. /\ spent' = spent /\ late = 2 /\ late' = 0 /\ UNCHANGED <<requests, origin>>
          /\ position' = committed
      BY <1>12 DEF Rejoin
    <2>2. Repeats' = Rereads(spent["crash"], spent["timeout"], 0)
      BY <2>1 DEF Repeats
    <2>3. Repeats + 1 = Rereads(spent["crash"], spent["timeout"], 0)
      <3>1. late \in Nat
        BY <1>0
      <3>. QED
        BY <1>0, <2>1, <3>1, RereadsGrow DEF Repeats
    <2>4. Repeats + 1 = Repeats'
      BY <2>2, <2>3
    <2>5. Repeats + 1 <= Repeats' /\ Repeats' \in Nat
      BY <1>1, <2>4
    <2>6. LateCounted'
      BY <1>0, <2>1 DEF LateCounted
    <2>. QED
      BY <1>1, <2>1, <2>5, <2>6 DEF Repeated
  <1>13. CASE Crash
    <2>1. /\ spent'["crash"] = spent["crash"] + 1 /\ spent'["timeout"] = spent["timeout"]
          /\ late' = 0 /\ UNCHANGED <<requests, origin>> /\ position' = committed
      BY <1>0, <1>13 DEF Crash, Fails, Fault
    <2>2. Repeats' = Rereads(spent["crash"] + 1, spent["timeout"], 0)
      BY <2>1 DEF Repeats
    <2>3. Repeats + 1 <= Repeats' /\ Repeats' \in Nat
      <3>1. late \in Nat /\ 0 \in Nat /\ 0 <= spent["timeout"] /\ spent["crash"] + 1 \in Nat
        BY <1>0
      <3>2. Rereads(spent["crash"] + 1, spent["timeout"], 0) \in Nat
        BY <1>0, <3>1, RereadsGrow
      <3>3. Repeats + 1 <= Rereads(spent["crash"] + 1, spent["timeout"], 0)
        BY <1>0, <3>1, RereadsGrow DEF Repeats
      <3>. QED
        BY <2>2, <3>2, <3>3
    <2>4. LateCounted'
      BY <1>0, <2>1 DEF LateCounted
    <2>. QED
      BY <1>1, <2>1, <2>3, <2>4 DEF Repeated
  <1>. QED
    BY <1>5, <1>6, <1>7, <1>8, <1>9, <1>10, <1>11, <1>12, <1>13 DEF Next, Listener, Poll, Producer

\* The orders made for a request: once for each copy that was taken since the last
\* time the listener went back, and for each copy each time before.
DeliveryInv ==
  /\ LateCounted
  /\ \A m \in Messages :
       Times(origin, Len(origin), m.id)
         <= Times(requests, Len(requests), m) * Repeats + Times(requests, position, m)

\* Every step keeps the bound.
LEMMA DeliveryStep == TypeOK /\ DeliveryInv /\ [Next]_vars => DeliveryInv'
  <1>. SUFFICES ASSUME TypeOK, DeliveryInv, [Next]_vars PROVE DeliveryInv'
    OBVIOUS
  <1>0. /\ requests \in Seq(Messages) /\ origin \in Seq(MessageId) /\ position \in 0..Len(requests)
        /\ Len(requests) \in Nat /\ Len(origin) \in Nat /\ committed \in 0..position
    BY DEF TypeOK
  <1>1. /\ LateCounted' /\ Repeats \in Nat /\ Repeats' \in Nat
        /\ Repeated \/ (Repeats <= Repeats' /\ (Made \/ Moved))
    BY PlaceStep DEF DeliveryInv
  <1>2. ASSUME NEW m \in Messages
        PROVE  Times(origin', Len(origin'), m.id)
                 <= Times(requests', Len(requests'), m) * Repeats' + Times(requests', position', m)
    <2>1. PICK a \in Nat, b \in Nat, c \in Nat, k \in Nat, l \in Nat :
            /\ a = Times(origin, Len(origin), m.id) /\ b = Times(requests, Len(requests), m)
            /\ c = Times(requests, position, m) /\ k = Repeats /\ l = Repeats'
      <3>1. position \in Nat
        BY <1>0
      <3>2. /\ Times(origin, Len(origin), m.id) \in Nat /\ Times(requests, Len(requests), m) \in Nat
            /\ Times(requests, position, m) \in Nat
        BY <1>0, <3>1, TimesNat
      <3>. QED
        BY <1>1, <3>2
    <2>2. a <= b * k + c /\ c <= b
      BY <1>0, <2>1, TimesMore DEF DeliveryInv
    <2>3. b * k \in Nat /\ b * l \in Nat
      BY ProductGrows
    <2>4. CASE Repeated
      <3>1. Times(requests, committed, m) \in Nat /\ k + 1 <= l
        BY <1>0, <2>1, <2>4, TimesNat DEF Repeated
      <3>2. b * (k + 1) <= b * l /\ b * (k + 1) = b * k + b
        BY <3>1, ProductGrows
      <3>3. a <= b * l + Times(requests, committed, m)
        BY <2>2, <2>3, <3>1, <3>2
      <3>. QED
        BY <2>1, <2>4, <3>3 DEF Repeated
    <2>5. CASE Made /\ k <= l
      <3>1. /\ requests[position + 1] \in Messages
            /\ origin' = Append(origin, requests[position + 1].id)
            /\ requests' = requests /\ position' = position + 1
        BY <2>5 DEF Made
      <3>2. requests[position + 1].id = m.id => requests[position + 1] = m
        BY <3>1, MessagesAssumption
      <3>3. requests[position + 1].id \in MessageId
        BY <3>1, MessageFields
      <3>4. /\ Times(origin', Len(origin'), m.id) \in {a, a + 1}
            /\ Times(origin', Len(origin'), m.id) = a + 1 => requests[position + 1] = m
        <4>1. Times(Append(origin, requests[position + 1].id),
                    Len(Append(origin, requests[position + 1].id)), m.id)
                = IF requests[position + 1].id = m.id
                  THEN Times(origin, Len(origin), m.id) + 1 ELSE Times(origin, Len(origin), m.id)
          BY <1>0, <3>3, TimesAppend
        <4>2. a # a + 1
          OBVIOUS
        <4>. QED
          BY <2>1, <3>1, <3>2, <4>1, <4>2
      <3>5. Times(requests, position + 1, m) = IF requests[position + 1] = m THEN c + 1 ELSE c
        <4>1. position \in Nat
          BY <1>0
        <4>2. Times(requests, position + 1, m)
                = IF requests[position + 1] = m
                  THEN Times(requests, position, m) + 1 ELSE Times(requests, position, m)
          BY <4>1, TimesNext
        <4>. QED
          BY <2>1, <4>2
      <3>6. PICK p \in Nat : p = b * l
        BY <2>3
      <3>7. PICK q \in Nat : q = b * k
        BY <2>3
      <3>8. q <= p /\ a <= q + c
        BY <2>2, <2>5, <3>6, <3>7, ProductGrows
      <3>9. Times(origin', Len(origin'), m.id) <= p + Times(requests, position + 1, m)
        <4>1. CASE requests[position + 1] = m
          BY <3>4, <3>5, <3>8, <4>1
        <4>2. CASE requests[position + 1] # m
          BY <3>4, <3>5, <3>8, <4>2
        <4>. QED
          BY <4>1, <4>2
      <3>. QED
        BY <2>1, <3>1, <3>6, <3>9
    <2>6. CASE Moved /\ k <= l
      <3>1. origin' = origin /\ position' \in position..Len(requests)
        BY <2>6 DEF Moved
      <3>2. /\ Times(requests', Len(requests'), m) \in Nat /\ b <= Times(requests', Len(requests'), m)
            /\ Times(requests', position', m) = Times(requests, position', m)
        <4>1. CASE requests' = requests
          BY <1>0, <2>1, <4>1
        <4>2. ASSUME NEW n \in Messages, requests' = Append(requests, n)
              PROVE  /\ Times(requests', Len(requests'), m) \in {b, b + 1}
                     /\ Times(requests', position', m) = Times(requests, position', m)
          <5>1. \A i \in 1..position' : requests'[i] = requests[i]
            BY <1>0, <3>1, <4>2, AppendProperties
          <5>2. Times(requests', position', m) = Times(requests, position', m)
            BY <1>0, <3>1, <5>1, TimesSame
          <5>3. Times(Append(requests, n), Len(Append(requests, n)), m) \in {b, b + 1}
            BY <1>0, <2>1, TimesAppend
          <5>. QED
            BY <4>2, <5>2, <5>3
        <4>. QED
          BY <2>1, <2>6, <4>1, <4>2 DEF Moved
      <3>3. c <= Times(requests, position', m) /\ Times(requests, position', m) \in Nat
        BY <1>0, <2>1, <3>1, TimesMore, TimesNat
      <3>4. PICK d \in Nat : d = Times(requests', Len(requests'), m)
        BY <3>2
      <3>5. b * k <= d * l /\ d * l \in Nat
        BY <2>6, <3>2, <3>4, ProductGrows
      <3>6. PICK p \in Nat : p = d * l
        BY <3>5
      <3>7. PICK q \in Nat : q = b * k
        BY <2>3
      <3>8. PICK e \in Nat : e = Times(requests, position', m)
        BY <3>3
      <3>9. a <= p + e
        BY <2>2, <3>3, <3>5, <3>6, <3>7, <3>8
      <3>. QED
        BY <2>1, <3>1, <3>2, <3>4, <3>6, <3>8, <3>9
    <2>. QED
      BY <1>1, <2>1, <2>4, <2>5, <2>6
  <1>. QED
    BY <1>1, <1>2 DEF DeliveryInv

\* One create request makes at most one order for each time it is delivered: once
\* for each copy in the log, and again after a crash, or a rejoin that took two
\* calls that timed out (OrderService.createOrder under the container's commits).
THEOREM OrdersForDeliveries == Spec => []OrdersPerDelivery
  <1>1. Init => DeliveryInv
    <2>. SUFFICES ASSUME Init PROVE DeliveryInv
      OBVIOUS
    <2>1. \A x : Times(<<>>, 0, x) = 0
      BY FS_EmptySet DEF Times, Upto
    <2>2. Repeats = 0 /\ LateCounted
      <3>1. spent["crash"] = 0 /\ spent["timeout"] = 0 /\ late = 0
        BY DEF Init, Fault
      <3>. QED
        BY <3>1 DEF Repeats, Rereads, Half, LateCounted
    <2>. QED
      BY <2>1, <2>2 DEF Init, DeliveryInv
  <1>2. ASSUME TypeOK, DeliveryInv PROVE OrdersPerDelivery
    <2>1. ASSUME NEW m \in Messages
          PROVE  Times(origin, Len(origin), m.id)
                   <= Times(requests, Len(requests), m)
                        * (1 + spent["crash"] + spent["timeout"] \div 2)
      <3>1. /\ Len(requests) \in Nat /\ Len(origin) \in Nat /\ position \in 0..Len(requests)
            /\ late \in Nat /\ late <= spent["timeout"] /\ 0 <= spent["timeout"]
            /\ spent["crash"] \in Nat /\ spent["timeout"] \in Nat
        BY <1>2 DEF TypeOK, DeliveryInv, LateCounted, Fault
      <3>2. PICK a \in Nat, b \in Nat, c \in Nat :
              /\ a = Times(origin, Len(origin), m.id) /\ b = Times(requests, Len(requests), m)
              /\ c = Times(requests, position, m)
        BY <3>1, TimesNat
      <3>3. PICK k \in Nat : k = Repeats
        <4>1. Repeats \in Nat
          BY <3>1, RereadsGrow DEF Repeats
        <4>. QED
          BY <4>1
      <3>4. PICK l \in Nat : l = Rereads(spent["crash"], spent["timeout"], 0)
        <4>1. Rereads(spent["crash"], spent["timeout"], 0) \in Nat
          <5>1. 0 \in Nat
            OBVIOUS
          <5>. QED
            BY <3>1, <5>1, RereadsGrow
        <4>. QED
          BY <4>1
      <3>5. k <= l
        <4>1. Rereads(spent["crash"], spent["timeout"], late)
                <= Rereads(spent["crash"], spent["timeout"], 0)
          BY <3>1, RereadsGrow
        <4>. QED
          BY <3>3, <3>4, <4>1 DEF Repeats
      <3>6. a <= b * k + c /\ c <= b
        BY <1>2, <3>1, <3>2, <3>3, TimesMore DEF DeliveryInv
      <3>7. b * k <= b * l /\ b * k \in Nat /\ b * l \in Nat
        BY <3>5, ProductGrows
      <3>8. b * (1 + l) = b * l + b
        OBVIOUS
      <3>9. a <= b * (1 + l)
        BY <3>6, <3>7, <3>8
      <3>10. 1 + spent["crash"] + spent["timeout"] \div 2 = 1 + l
        BY <3>1, <3>4 DEF Rereads, Half
      <3>. QED
        BY <3>2, <3>9, <3>10
    <2>2. DOMAIN origin = 1..Len(origin) /\ DOMAIN requests = 1..Len(requests)
      BY <1>2 DEF TypeOK
    <2>. QED
      BY <2>1, <2>2 DEF OrdersPerDelivery, Times, Upto
  <1>. QED
    BY <1>1, <1>2, DeliveryStep, TypeCorrect, PTL DEF Spec
=============================================================================

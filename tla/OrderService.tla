---------------------------- MODULE OrderService ----------------------------
(***************************************************************************)
(* The order service: its single Kafka listener thread, the orders table,  *)
(* the producer it shares between replies and real-time events, and what a *)
(* crash, a slow dependency or a failing send does to them.                *)
(*                                                                         *)
(* One action is what the listener thread does between two points at which *)
(* something outside it can happen: a database call, a send, a blocking    *)
(* request to another service.                                             *)
(***************************************************************************)
EXTENDS Sequences, Naturals, FiniteSets

CONSTANTS
  User, Product, Session, NoSession,
  MessageId,       \* the random UUIDs of requests
  Messages,        \* the requests the clients of the service may send
  StrictEnvelope,  \* Jackson's FAIL_ON_UNKNOWN_PROPERTIES (TRUE as shipped)
  MaxRequests,     \* bound on the length of the request topic
  MaxFaults        \* bound on the faults of each kind

Settled == {"PAID", "REJECTED"}
Status  == {"PENDING"} \cup Settled
Fault   == {"crash", "database", "send", "timeout"}

Order == [user: User, product: Product, status: Status,
          session: Session \cup {NoSession}]
Event == [order: Nat \ {0}, user: User, product: Product, status: Settled]

\* A request is known by its id; "headers" says whether the envelope has a
\* headers field (every JavaScript client sets one), "answer" whether it names
\* a response destination. A request with an unknown uri, or with data its
\* handler cannot convert, is "other".
CreateMessage == [id: MessageId, uri: {"create"}, headers: BOOLEAN,
                  answer: BOOLEAN, user: User, product: Product]
UpdateMessage == [id: MessageId, uri: {"update"}, headers: BOOLEAN,
                  answer: BOOLEAN, order: Nat \ {0}, status: Status,
                  session: Session \cup {NoSession}]
ListMessage   == [id: MessageId, uri: {"list"}, headers: BOOLEAN, answer: BOOLEAN]
OtherMessage  == [id: MessageId, uri: {"other"}, headers: BOOLEAN, answer: BOOLEAN]
Message == CreateMessage \cup UpdateMessage \cup ListMessage \cup OtherMessage

ASSUME MessagesAssumption ==
  /\ Messages \subseteq Message
  /\ \A m, n \in Messages : m.id = n.id => m = n
ASSUME EnvelopeAssumption == StrictEnvelope \in BOOLEAN
ASSUME BoundsAssumption ==
  /\ MaxRequests \in Nat
  /\ MaxFaults \in [Fault -> Nat]

VARIABLES
  requests,   \* order-service-topic, one partition: a log
  position,   \* how many of its records the listener thread has taken
  committed,  \* the group's committed offset (the container commits one at once)
  late,       \* blocking calls that timed out since the last poll, up to 2
  task,       \* what the listener thread is in the middle of
  orders,     \* the orders table: the order with id o is orders[o]
  origin,     \* history: the request each order was created for
  unsent,     \* status events in the producer's buffer
  events,     \* order-status-updates
  replies,    \* the answers written to the clients' response topics
  spent       \* how many faults of each kind have happened

vars == <<requests, position, committed, late, task, orders, origin, unsent,
          events, replies, spent>>

Stage == {"idle", "emit", "users", "products", "respond", "refuse"}
NoTask == [stage |-> "idle"]

\* order = 0: the answer carries no order (the list, or an error).
Task == {NoTask} \cup [stage: Stage \ {"idle"}, msg: Messages, order: Nat]
Reply == [to: MessageId, ok: BOOLEAN, order: Nat]

TypeOK ==
  /\ requests \in Seq(Messages)
  /\ position \in 0..Len(requests)
  /\ committed \in 0..position
  /\ late \in 0..2
  /\ task \in Task
  /\ orders \in Seq(Order)
  /\ origin \in Seq(MessageId)
  /\ unsent \in Seq(Event)
  /\ events \in Seq(Event)
  /\ replies \subseteq Reply
  /\ spent \in [Fault -> Nat]

Init ==
  /\ requests = <<>>
  /\ position = 0
  /\ committed = 0
  /\ late = 0
  /\ task = NoTask
  /\ orders = <<>>
  /\ origin = <<>>
  /\ unsent = <<>>
  /\ events = <<>>
  /\ replies = {}
  /\ spent = [f \in Fault |-> 0]

-----------------------------------------------------------------------------
\* Helpers.

Min2(n) == IF n > 2 THEN 2 ELSE n

MayFail(fault) == spent[fault] < MaxFaults[fault]
Fails(fault) ==
  /\ MayFail(fault)
  /\ spent' = [spent EXCEPT ![fault] = @ + 1]

\* Mutant: any status may become a settled one.
CanAlwaysSettle(from, to) == to \in Settled

\* Mutant: the target status is not looked at.
CanReopen(from, to) == from = "PENDING"

\* OrderStatus.canTransitionTo.
CanTransition(from, to) == from = "PENDING" /\ to \in Settled

NewOrder(u, p) ==
  [user |-> u, product |-> p, status |-> "PENDING", session |-> NoSession]

\* The row updateStatus saves: a null session leaves the stored one.
Updated(order, m) ==
  [user |-> order.user, product |-> order.product, status |-> m.status,
   session |-> IF m.session = NoSession THEN order.session ELSE m.session]

EventOf(o) ==
  [order |-> o, user |-> orders[o].user, product |-> orders[o].product,
   status |-> orders[o].status]

\* JsonUtils' ObjectMapper refuses an envelope with a field Message lacks.
Parsable(m) == ~(StrictEnvelope /\ m.headers)

Working(stage, m, o) == [stage |-> stage, msg |-> m, order |-> o]

\* The listener thread takes the next record, which is a parsable request m.
Takes(m, uri) ==
  /\ task = NoTask
  /\ position < Len(requests)
  /\ m = requests[position + 1]
  /\ m.uri = uri
  /\ Parsable(m)
  /\ position' = position + 1

\* The update m can be applied: the order exists and its status may change so.
Applicable(m) ==
  /\ m.order \in DOMAIN orders
  /\ CanTransition(orders[m.order].status, m.status)

-----------------------------------------------------------------------------
\* The clients: a request reaches the topic. A producer that retries writes
\* the same request again.
Arrive(m) ==
  /\ Len(requests) < MaxRequests
  /\ requests' = Append(requests, m)
  /\ UNCHANGED <<position, committed, late, task, orders, origin, unsent,
                 events, replies, spent>>

\* RequestHandler.dispatch cannot read the envelope: logged, and nobody answers.
DropUnparsable ==
  /\ task = NoTask
  /\ position < Len(requests)
  /\ ~Parsable(requests[position + 1])
  /\ position' = position + 1
  /\ UNCHANGED <<requests, committed, late, task, orders, origin, unsent,
                 events, replies, spent>>

\* No handler for the uri, or data that the handler cannot convert.
RefuseUnusable(m) ==
  /\ Takes(m, "other")
  /\ task' = Working("refuse", m, 0)
  /\ UNCHANGED <<requests, committed, late, orders, origin, unsent, events,
                 replies, spent>>

\* OrderService.createOrder: the row is inserted as PENDING.
CreateOrder(m) ==
  /\ Takes(m, "create")
  /\ orders' = Append(orders, NewOrder(m.user, m.product))
  /\ origin' = Append(origin, m.id)
  /\ task' = Working("respond", m, Len(orders) + 1)
  /\ UNCHANGED <<requests, committed, late, unsent, events, replies, spent>>

\* Mutant: the handler tries the insert once more.
CreateOrderRetried(m) ==
  /\ Takes(m, "create")
  /\ Fails("database")
  /\ \E n \in 1..2 :
       /\ orders' = orders \o [i \in 1..n |-> NewOrder(m.user, m.product)]
       /\ origin' = origin \o [i \in 1..n |-> m.id]
       /\ task' = Working("respond", m, Len(orders) + n)
  /\ UNCHANGED <<requests, committed, late, unsent, events, replies>>

\* repository.save throws: before the insert, or after it committed.
CreateOrderFails(m) ==
  /\ Takes(m, "create")
  /\ Fails("database")
  /\ \/ UNCHANGED <<orders, origin>>
     \/ /\ orders' = Append(orders, NewOrder(m.user, m.product))
        /\ origin' = Append(origin, m.id)
  /\ task' = Working("refuse", m, 0)
  /\ UNCHANGED <<requests, committed, late, unsent, events, replies>>

\* OrderService.updateStatus up to its save. Nothing else writes the table, so
\* the read, the check of the transition and the save are one step.
UpdateStatus(m) ==
  /\ Takes(m, "update")
  /\ Applicable(m)
  /\ orders' = [orders EXCEPT ![m.order] = Updated(@, m)]
  /\ task' = Working("emit", m, m.order)
  /\ UNCHANGED <<requests, committed, late, origin, unsent, events, replies, spent>>

\* No such order, or a transition canTransitionTo refuses.
RefuseUpdate(m) ==
  /\ Takes(m, "update")
  /\ ~Applicable(m)
  /\ task' = Working("refuse", m, 0)
  /\ UNCHANGED <<requests, committed, late, orders, origin, unsent, events,
                 replies, spent>>

\* findById or save throws: nothing was written, or the save committed and only
\* its outcome was lost. Either way no event follows.
UpdateStatusFails(m) ==
  /\ Takes(m, "update")
  /\ Fails("database")
  /\ \/ UNCHANGED orders
     \/ Applicable(m) /\ orders' = [orders EXCEPT ![m.order] = Updated(@, m)]
  /\ task' = Working("refuse", m, 0)
  /\ UNCHANGED <<requests, committed, late, origin, unsent, events, replies>>

\* Mutant: only a payment is announced.
EmitOnlyPaid ==
  /\ task.stage = "emit"
  /\ unsent' = IF orders[task.order].status = "PAID"
               THEN Append(unsent, EventOf(task.order)) ELSE unsent
  /\ task' = Working("respond", task.msg, task.order)
  /\ UNCHANGED <<requests, position, committed, late, orders, origin, events,
                 replies, spent>>

\* emitStatusEvent: kafkaTemplate.send only buffers, and nobody waits for it.
EmitStatusEvent ==
  /\ task.stage = "emit"
  /\ unsent' = Append(unsent, EventOf(task.order))
  /\ task' = Working("respond", task.msg, task.order)
  /\ UNCHANGED <<requests, position, committed, late, orders, origin, events,
                 replies, spent>>

\* The send throws: caught and logged, and the handler goes on.
EmitStatusEventFails ==
  /\ task.stage = "emit"
  /\ Fails("send")
  /\ task' = Working("respond", task.msg, task.order)
  /\ UNCHANGED <<requests, position, committed, late, orders, origin, unsent,
                 events, replies>>

\* The /orders handler, which then asks user-service and product-service.
ListOrders(m) ==
  /\ Takes(m, "list")
  /\ task' = Working("users", m, 0)
  /\ UNCHANGED <<requests, committed, late, orders, origin, unsent, events,
                 replies, spent>>

\* After either answer, or either error, the handler goes on to the next call.
NextStage == IF task.stage = "users" THEN "products" ELSE "respond"

AskReturns ==
  /\ task.stage \in {"users", "products"}
  /\ task' = Working(NextStage, task.msg, task.order)
  /\ UNCHANGED <<requests, position, committed, late, orders, origin, unsent,
                 events, replies, spent>>

\* sendRequest blocks the listener thread for requestTimeoutMs (180 s).
AskTimesOut ==
  /\ task.stage \in {"users", "products"}
  /\ Fails("timeout")
  /\ late' = Min2(late + 1)
  /\ task' = Working(NextStage, task.msg, task.order)
  /\ UNCHANGED <<requests, position, committed, orders, origin, unsent, events,
                 replies>>

\* getAggregated: repository.findAll throws.
AggregateFails ==
  /\ task.stage = "respond"
  /\ task.msg.uri = "list"
  /\ Fails("database")
  /\ task' = Working("refuse", task.msg, 0)
  /\ UNCHANGED <<requests, position, committed, late, orders, origin, unsent,
                 events, replies>>

\* The answer to a request that names no destination is not sent.
Answer(ok, o) ==
  IF task.msg.answer
  THEN replies \cup {[to |-> task.msg.id, ok |-> ok, order |-> o]}
  ELSE replies

\* sendResponse waits for the broker's acknowledgement.
Respond ==
  /\ task.stage = "respond"
  /\ replies' = Answer(TRUE, task.order)
  /\ task' = NoTask
  /\ UNCHANGED <<requests, position, committed, late, orders, origin, unsent,
                 events, spent>>

\* The send throws, though the broker may have the reply: the catch block of
\* dispatch then answers the same request with an error.
RespondFails ==
  /\ task.stage = "respond"
  /\ task.msg.answer
  /\ Fails("send")
  /\ replies' \in {replies, Answer(TRUE, task.order)}
  /\ task' = Working("refuse", task.msg, 0)
  /\ UNCHANGED <<requests, position, committed, late, orders, origin, unsent, events>>

\* Mutant: dispatch logs the error and does not answer.
RespondNothing ==
  /\ task.stage = "refuse"
  /\ task' = NoTask
  /\ UNCHANGED <<requests, position, committed, late, orders, origin, unsent,
                 events, replies, spent>>

RespondError ==
  /\ task.stage = "refuse"
  /\ replies' = Answer(FALSE, 0)
  /\ task' = NoTask
  /\ UNCHANGED <<requests, position, committed, late, orders, origin, unsent,
                 events, spent>>

\* Logged, and the request is over.
RespondErrorFails ==
  /\ task.stage = "refuse"
  /\ task.msg.answer
  /\ Fails("send")
  /\ replies' \in {replies, Answer(FALSE, 0)}
  /\ task' = NoTask
  /\ UNCHANGED <<requests, position, committed, late, orders, origin, unsent, events>>

\* Spring's listener container commits after the last record of a poll; where
\* a poll ends is left open.
Commit ==
  /\ task = NoTask
  /\ committed < position
  /\ late < 2
  /\ committed' = position
  /\ late' = 0
  /\ UNCHANGED <<requests, position, task, orders, origin, unsent, events,
                 replies, spent>>

\* Two timed-out calls in one poll (360 s) exceed max.poll.interval.ms (300 s):
\* the consumer has left the group, its commit fails, and once it is back it
\* reads again from the committed offset.
Rejoin ==
  /\ task = NoTask
  /\ late = 2
  /\ position' = committed
  /\ late' = 0
  /\ UNCHANGED <<requests, committed, task, orders, origin, unsent, events,
                 replies, spent>>

\* The process dies and starts again: the thread and the buffer are lost.
Crash ==
  /\ Fails("crash")
  /\ position' = committed
  /\ late' = 0
  /\ task' = NoTask
  /\ unsent' = <<>>
  /\ UNCHANGED <<requests, committed, orders, origin, events, replies>>

\* Mutant: a producer that is not idempotent may write an event again.
FlushAgain ==
  /\ unsent # <<>>
  /\ events' = Append(events, Head(unsent))
  /\ unsent' \in {unsent, Tail(unsent)}
  /\ UNCHANGED <<requests, position, committed, late, task, orders, origin,
                 replies, spent>>

\* The producer's background thread writes a buffered event, or gives it up.
Flush ==
  /\ unsent # <<>>
  /\ events' = Append(events, Head(unsent))
  /\ unsent' = Tail(unsent)
  /\ UNCHANGED <<requests, position, committed, late, task, orders, origin,
                 replies, spent>>

FlushFails ==
  /\ unsent # <<>>
  /\ Fails("send")
  /\ unsent' = Tail(unsent)
  /\ UNCHANGED <<requests, position, committed, late, task, orders, origin,
                 events, replies>>

-----------------------------------------------------------------------------
\* What the listener thread does with the request it takes.
Handle(m) ==
  \/ RefuseUnusable(m) \/ CreateOrder(m) \/ CreateOrderFails(m)
  \/ UpdateStatus(m) \/ RefuseUpdate(m) \/ UpdateStatusFails(m)
  \/ ListOrders(m)

Listener ==
  \/ DropUnparsable
  \/ \E m \in Messages : Handle(m)
  \/ EmitStatusEvent \/ EmitStatusEventFails
  \/ AskReturns \/ AskTimesOut \/ AggregateFails
  \/ Respond \/ RespondFails \/ RespondError \/ RespondErrorFails

\* The container polls when it has nothing left to hand to the thread.
Poll == Commit \/ Rejoin

Producer == Flush \/ FlushFails

Next ==
  \/ \E m \in Messages : Arrive(m)
  \/ Listener
  \/ Poll
  \/ Producer
  \/ Crash

Spec == Init /\ [][Next]_vars

\* The listener thread, its container and the producer's thread keep running.
Fairness ==
  /\ WF_vars(Listener)
  /\ WF_vars(Poll)
  /\ WF_vars(Producer)

FairSpec == Spec /\ Fairness

-----------------------------------------------------------------------------
\* What the service promises: OrderLifecycle, with orders and events as here.
Lifecycle == INSTANCE OrderLifecycle
ImplementsLifecycle == Lifecycle!Spec

\* A request whose sender waits for an answer and that the service can read.
Owed(m) == m.answer /\ Parsable(m)
Answered(m) == \E r \in replies : r.to = m.id

\* What an OK answer naming order o says about the request m it answers.
StillTrue(m, o) ==
  /\ m.uri = "create" =>
       /\ o \in DOMAIN orders
       /\ origin[o] = m.id
       /\ orders[o].user = m.user
       /\ orders[o].product = m.product
  /\ m.uri = "update" =>
       /\ o = m.order
       /\ o \in DOMAIN orders
       /\ m.status \in Settled
       /\ orders[o].status = m.status
       /\ m.session # NoSession => orders[o].session = m.session
  /\ m.uri # "other"

\* An OK answer stays true: the order it names was created for that request, or
\* is settled the way that request asked, with its Stripe session, whatever
\* was redelivered or retried since (RequestHandler.dispatch,
\* OrderService.createOrder and updateStatus).
RepliesTruthful ==
  \A r \in replies, m \in Messages : r.ok /\ r.to = m.id => StillTrue(m, r.order)

\* An offset is committed only past requests that were answered: a crash or a
\* rejoin repeats work but never skips it, as long as no send failed
\* (RequestHandler.dispatch under the listener container's batch commit).
CommittedAnswered ==
  spent["send"] = 0 =>
    \A i \in 1..committed : Owed(requests[i]) => Answered(requests[i])

\* One create request makes at most one order for each time it is delivered:
\* once for each copy in the log, and again after a crash or a rejoin.
OrdersPerDelivery ==
  \A m \in Messages :
    Cardinality({o \in DOMAIN origin : origin[o] = m.id})
      <= Cardinality({i \in DOMAIN requests : requests[i] = m})
           * (1 + spent["crash"] + spent["timeout"] \div 2)

\* Every request that can be read is answered in the end, with an OK or an
\* error, through crashes, rejoins and database failures, unless a send failed
\* (RequestHandler.dispatch).
EveryRequestAnswered ==
  \A m \in Messages :
    (\E i \in DOMAIN requests : requests[i] = m /\ Owed(m))
      ~> (Answered(m) \/ spent["send"] > 0)

\* A settled order is announced in the end ("Emits a Kafka event for real-time
\* updates", OrderService.updateStatus).
EverySettlementAnnounced ==
  \A o \in 1..MaxRequests :
    (o \in DOMAIN orders /\ orders[o].status \in Settled) ~> Lifecycle!Announced(o)

\* It is, unless the process died, the database lost the outcome of the save, or
\* a send failed: nothing else loses an event (OrderService.emitStatusEvent).
OnlyFaultsLoseEvents ==
  \A o \in 1..MaxRequests :
    (o \in DOMAIN orders /\ orders[o].status \in Settled)
      ~> \/ Lifecycle!Announced(o)
         \/ \E f \in {"crash", "database", "send"} : spent[f] > 0
=============================================================================

--------------------------- MODULE CheckoutProofs ---------------------------
(***************************************************************************)
(* Proofs about a purchase end to end, for any number of clicks, of        *)
(* sessions, of requests and of faults.                                    *)
(*                                                                         *)
(* What is proved of the order service and of the payment service on their *)
(* own is used here as it is: each step of a purchase is a step of either  *)
(* service, of both, or of neither.                                        *)
(***************************************************************************)
EXTENDS Checkout, SequenceTheorems, TLAPS

OP == INSTANCE OrderServiceProofs WITH
  NoSession <- 0, Messages <- OrderMessages, MessageId <- OrderIds,
  MaxFaults <- MaxOrderFaults

PP == INSTANCE PaymentServiceProofs WITH
  Order <- OrderId, Requests <- PayMessages,
  RequestId <- PayIds, MaxFaults <- MaxPayFaults,
  position <- payPosition, committed <- payCommitted, task <- payTask,
  replies <- payReplies, faults <- payFaults

-----------------------------------------------------------------------------
\* A request is a create request or an update, and its id says which one it is.
LEMMA OrderRequest ==
  ASSUME NEW m \in OrderMessages
  PROVE  \/ \E k \in Checkout, p \in Product : m = CreateRequest(k, p)
         \/ \E o \in OrderId, v \in {"PAID", "REJECTED"}, s \in Session, n \in 1..MaxPolls :
              m = StatusRequest(o, v, s, n)
  BY DEF OrderMessages

\* The ids of the requests.
LEMMA Ids ==
  ASSUME NEW k, NEW p, NEW o, NEW v, NEW s, NEW i
  PROVE  /\ CreateRequest(k, p).id = <<"create", k, p>>
         /\ StatusRequest(o, v, s, i).id = <<v, o, s, i>>
         /\ SessionRequest(k, o).id = <<k, o>>
  BY DEF CreateRequest, StatusRequest, SessionRequest

\* The requests of the gateway and of the payment service are requests of the
\* order service.
LEMMA OrderRequests ==
  /\ OrderMessages \subseteq OP!Message
  /\ \A m, n \in OrderMessages : m.id = n.id => m = n
  <1>1. ASSUME NEW m \in OrderMessages PROVE m \in OP!Message
    <2>1. m.id \in OrderIds
      BY DEF OrderIds
    <2>2. ASSUME NEW k \in Checkout, NEW p \in Product, m = CreateRequest(k, p)
          PROVE  m \in OP!CreateMessage
      <3>1. Buyer[k] \in User
        BY CheckoutAssumption
      <3>. QED
        BY <2>1, <2>2, <3>1 DEF CreateRequest, OP!CreateMessage
    <2>3. ASSUME NEW o \in OrderId, NEW v \in {"PAID", "REJECTED"}, NEW s \in Session,
                 NEW n \in 1..MaxPolls, m = StatusRequest(o, v, s, n)
          PROVE  m \in OP!UpdateMessage
      BY <2>1, <2>3, SizesAssumption
         DEF StatusRequest, OP!UpdateMessage, OP!Status, OP!Settled, OrderId
    <2>. QED
      BY <2>2, <2>3, OrderRequest DEF OP!Message
  <1>2. ASSUME NEW m \in OrderMessages, NEW n \in OrderMessages, m.id = n.id
        PROVE  m = n
    <2>1. ASSUME NEW k \in Checkout, NEW p \in Product, m = CreateRequest(k, p),
                 NEW l \in Checkout, NEW q \in Product, n = CreateRequest(l, q)
          PROVE  m = n
      <3>1. <<"create", k, p>> = <<"create", l, q>>
        BY <1>2, <2>1, Ids
      <3>2. k = l /\ p = q
        BY <3>1
      <3>. QED
        BY <2>1, <3>2
    <2>2. ASSUME NEW o \in OrderId, NEW v \in {"PAID", "REJECTED"}, NEW s \in Session,
                 NEW i \in 1..MaxPolls, m = StatusRequest(o, v, s, i),
                 NEW a \in OrderId, NEW w \in {"PAID", "REJECTED"}, NEW t \in Session,
                 NEW j \in 1..MaxPolls, n = StatusRequest(a, w, t, j)
          PROVE  m = n
      <3>1. <<v, o, s, i>> = <<w, a, t, j>>
        BY <1>2, <2>2, Ids
      <3>2. v = w /\ o = a /\ s = t /\ i = j
        BY <3>1
      <3>. QED
        BY <2>2, <3>2
    <2>3. ASSUME NEW k, NEW p, NEW o, NEW v \in {"PAID", "REJECTED"}, NEW s, NEW i
          PROVE  CreateRequest(k, p).id # StatusRequest(o, v, s, i).id
      <3>1. <<"create", k, p>>[1] = "create" /\ <<v, o, s, i>>[1] = v
        OBVIOUS
      <3>. QED
        BY <3>1, Ids
    <2>. QED
      BY <1>2, <2>1, <2>2, <2>3, OrderRequest
  <1>. QED
    BY <1>1, <1>2

\* The requests of the gateway are requests of the payment service.
LEMMA PayRequests ==
  /\ PayMessages \subseteq PP!Request
  /\ \A m, n \in PayMessages : m.id = n.id => m = n
  <1>1. ASSUME NEW m \in PayMessages PROVE m \in PP!Request
    <2>1. PICK k \in Checkout, o \in OrderId : m = SessionRequest(k, o)
      BY DEF PayMessages
    <2>2. m.id \in PayIds
      BY DEF PayIds
    <2>. QED
      BY <2>1, <2>2 DEF SessionRequest, PP!Request
  <1>2. ASSUME NEW m \in PayMessages, NEW n \in PayMessages, m.id = n.id PROVE m = n
    <2>1. PICK k \in Checkout, o \in OrderId : m = SessionRequest(k, o)
      BY DEF PayMessages
    <2>2. PICK l \in Checkout, q \in OrderId : n = SessionRequest(l, q)
      BY DEF PayMessages
    <2>3. <<k, o>> = <<l, q>>
      BY <1>2, <2>1, <2>2, Ids
    <2>4. k = l /\ o = q
      BY <2>3
    <2>. QED
      BY <2>1, <2>2, <2>4
  <1>. QED
    BY <1>1, <1>2

-----------------------------------------------------------------------------
\* The services of Checkout are the ones that OP and PP are about.
LEMMA SameOrders ==
  /\ Orders!Init => OP!Init
  /\ [Orders!Next]_(Orders!vars) => [OP!Next]_(OP!vars)
  <1>1. Orders!Init => OP!Init
    BY DEF Orders!Init, OP!Init, Orders!NoTask, OP!NoTask, Orders!Fault, OP!Fault
  <1>2. [Orders!Next]_(Orders!vars) => [OP!Next]_(OP!vars)
    BY DEF Orders!Next, Orders!vars, Orders!Arrive, Orders!Listener, Orders!Handle,
           Orders!DropUnparsable, Orders!RefuseUnusable, Orders!CreateOrder,
           Orders!CreateOrderFails, Orders!UpdateStatus, Orders!UpdateStatusFails,
           Orders!RefuseUpdate, Orders!ListOrders, Orders!EmitStatusEvent,
           Orders!EmitStatusEventFails, Orders!AskReturns, Orders!AskTimesOut,
           Orders!AggregateFails, Orders!Respond, Orders!RespondFails,
           Orders!RespondError, Orders!RespondErrorFails, Orders!Poll,
           Orders!Commit, Orders!Rejoin, Orders!Producer, Orders!Flush,
           Orders!FlushFails, Orders!Crash, Orders!Takes, Orders!Parsable,
           Orders!Applicable, Orders!CanTransition, Orders!Settled, Orders!NewOrder,
           Orders!Updated, Orders!EventOf, Orders!Working, Orders!Fails,
           Orders!MayFail, Orders!Min2, Orders!NextStage, Orders!Answer,
           Orders!NoTask, OP!Next, OP!vars, OP!Arrive, OP!Listener, OP!Handle,
           OP!DropUnparsable, OP!RefuseUnusable, OP!CreateOrder,
           OP!CreateOrderFails, OP!UpdateStatus, OP!UpdateStatusFails,
           OP!RefuseUpdate, OP!ListOrders, OP!EmitStatusEvent,
           OP!EmitStatusEventFails, OP!AskReturns, OP!AskTimesOut,
           OP!AggregateFails, OP!Respond, OP!RespondFails, OP!RespondError,
           OP!RespondErrorFails, OP!Poll, OP!Commit, OP!Rejoin, OP!Producer,
           OP!Flush, OP!FlushFails, OP!Crash, OP!Takes, OP!Parsable, OP!Applicable,
           OP!CanTransition, OP!Settled, OP!NewOrder, OP!Updated, OP!EventOf,
           OP!Working, OP!Fails, OP!MayFail, OP!Min2, OP!NextStage, OP!Answer,
           OP!NoTask
  <1>. QED
    BY <1>1, <1>2

\* The same for the payment service.
LEMMA SamePay ==
  /\ Pay!Init => PP!Init
  /\ [Pay!Next]_(Pay!vars) => [PP!Next]_(PP!vars)
  <1>1. Pay!Init => PP!Init
    BY DEF Pay!Init, PP!Init, Pay!NoTask, PP!NoTask
  <1>2. [Pay!Next]_(Pay!vars) => [PP!Next]_(PP!vars)
    BY DEF Pay!Next, Pay!vars, Pay!Arrive, Pay!Consumer, Pay!Take,
           Pay!CreateSession, Pay!CreateSessionFails, Pay!NewSession,
           Pay!StartPolling, Pay!Respond, Pay!RespondFails, Pay!RespondError,
           Pay!RespondErrorFails, Pay!Answer, Pay!Commit, Pay!Tick,
           Pay!SafetyTimeout, Pay!Resolves, Pay!PollOpen, Pay!PollFails,
           Pay!PollEnds, Pay!SendUpdate, Pay!SendUpdateFails, Pay!PollDecides,
           Pay!Views, Pay!StopPolling, Pay!UpdateOf, Pay!Crash, Pay!Becomes,
           Pay!Fault, Pay!Working, Pay!NoTask, Pay!Verdict, Pay!Session, Pay!kafka,
           Pay!stripe, Pay!polls, PP!Next, PP!vars, PP!Arrive, PP!Consumer, PP!Take,
           PP!CreateSession, PP!CreateSessionFails, PP!NewSession, PP!StartPolling,
           PP!Respond, PP!RespondFails, PP!RespondError, PP!RespondErrorFails,
           PP!Answer, PP!Commit, PP!Tick, PP!SafetyTimeout, PP!Resolves,
           PP!PollOpen, PP!PollFails, PP!PollEnds, PP!SendUpdate,
           PP!SendUpdateFails, PP!PollDecides, PP!Views, PP!StopPolling,
           PP!UpdateOf, PP!Crash, PP!Becomes, PP!Fault, PP!Working, PP!NoTask,
           PP!Verdict, PP!Session, PP!kafka, PP!stripe, PP!polls
  <1>. QED
    BY <1>1, <1>2

\* What the theorems about the services assume of their constants.
LEMMA Constants ==
  /\ MaxRequests \in Nat /\ MaxSessions \in Nat /\ MaxPolls \in Nat \ {0}
  /\ MaxPayFaults \in Nat
  /\ MaxOrderFaults \in [OP!Fault -> Nat]
  /\ StrictEnvelope \in BOOLEAN
  BY SizesAssumption, FaultBoundsAssumption, CheckoutAssumption DEF OP!Fault

\* What is proved of the services on their own.
OrdersInv == OP!IInv /\ OP!ReplySound
PayInv    == PP!IInv /\ PP!HandedSound /\ PP!TakenOnce

\* The order service's invariant is kept by its steps, and so are settled rows and
\* whose they are.
LEMMA OrdersInvariant ==
  /\ OP!Init => OrdersInv
  /\ OrdersInv /\ [OP!Next]_(OP!vars) =>
       /\ OrdersInv'
       /\ OP!RowsKept /\ OP!OriginKept
       /\ Len(events) <= Len(events')
  <1>1. OP!Init => OP!IInv
    BY OP!InitInv, OrderRequests, Constants
  <1>2. OP!Init => OP!ReplySound
    BY DEF OP!Init, OP!ReplySound, OP!RepliesTruthful, OP!NoTask
  <1>3. OP!IInv /\ [OP!Next]_(OP!vars) => OP!IInv'
    BY OP!StepInv, OrderRequests, Constants
  <1>4. OP!IInv /\ OP!ReplySound /\ [OP!Next]_(OP!vars) => OP!ReplySound'
    BY OP!ReplyStep, OrderRequests, Constants
  <1>5. OP!TypeOK /\ [OP!Next]_(OP!vars) => OP!RowsKept
    BY OP!RowsStep, OrderRequests, Constants
  <1>6. OP!TypeOK /\ Len(origin) = Len(orders) /\ [OP!Next]_(OP!vars) => OP!OriginKept
    BY OP!OriginStep, OrderRequests, Constants
  <1>7. OP!TypeOK /\ [OP!Next]_(OP!vars) => Len(events) <= Len(events')
    BY OP!EventsGrow, OrderRequests, Constants
  <1>8. OrdersInv => OP!TypeOK /\ Len(origin) = Len(orders)
    BY DEF OrdersInv, OP!IInv, OP!ReplySound
  <1>. QED
    BY <1>1, <1>2, <1>3, <1>4, <1>5, <1>6, <1>7, <1>8 DEF OrdersInv

\* The payment service's invariant is kept by its steps, and so are its sessions.
LEMMA PayInvariant ==
  /\ PP!Init => PayInv
  /\ PayInv /\ [PP!Next]_(PP!vars) => PayInv' /\ PP!SessionsKept
  <1>1. PP!Init => PP!IInv
    BY PP!InitInv, PayRequests, Constants
  <1>2. PP!Init => PP!HandedSound /\ PP!TakenOnce
    BY DEF PP!Init, PP!HandedSound, PP!TakenOnce, PP!NoTask, PP!Apart
  <1>3. PP!IInv /\ [PP!Next]_(PP!vars) => PP!IInv'
    BY PP!StepInv, PayRequests, Constants
  <1>4. PP!IInv /\ PP!HandedSound /\ [PP!Next]_(PP!vars) => PP!HandedSound'
    BY PP!HandedStep, PayRequests, Constants
  <1>5. PP!IInv /\ PP!TakenOnce /\ [PP!Next]_(PP!vars) => PP!TakenOnce'
    BY PP!TakenOnceStep, PayRequests, Constants
  <1>6. PP!TypeOK /\ [PP!Next]_(PP!vars) => PP!SessionsKept
    BY PP!SessionsStep, PayRequests, Constants
  <1>7. PP!IInv => PP!TypeOK
    BY DEF PP!IInv
  <1>. QED
    BY <1>1, <1>2, <1>3, <1>4, <1>5, <1>6, <1>7 DEF PayInv

\* The types that the proofs below use.
LEMMA OrdersTypes ==
  ASSUME OrdersInv
  PROVE  /\ requests \in Seq(OrderMessages) /\ orders \in Seq(OP!Order)
         /\ events \in Seq(OP!Event)
         /\ Len(orders) \in Nat /\ Len(events) \in Nat /\ Len(requests) \in Nat
         /\ DOMAIN orders = 1..Len(orders) /\ DOMAIN origin = 1..Len(orders)
  BY DEF OrdersInv, OP!IInv, OP!TypeOK, OP!ReplySound

\* What the invariant says of the types of the payment service.
LEMMA PayTypes ==
  ASSUME PayInv
  PROVE  /\ inbox \in Seq(PayMessages) /\ Len(inbox) \in Nat
         /\ sessions \in Seq(PP!StripeSession)
         /\ Len(sessions) \in Nat /\ Len(sessions) <= MaxSessions
         /\ DOMAIN sessions = 1..Len(sessions)
         /\ callbacks \subseteq PP!Callback /\ payFaults \in Nat
  BY DEF PayInv, PP!IInv, PP!TypeOK

-----------------------------------------------------------------------------
\* The invariant of a purchase.

FlowType == {NoFlow} \cup [step: Step, product: Product, order: 0..MaxOrders]

WebTyped ==
  /\ flow \in [Checkout -> FlowType]
  /\ page \in [Checkout -> Page]
  /\ links \subseteq Session
  /\ online \subseteq Checkout
  /\ pushed \in 0..Len(events)
  /\ webFaults \in Nat
  /\ Len(orders) <= MaxOrders

\* The order that the handler goes on with was made for its click.
OrderMade(k) ==
  /\ flow[k].order \in 1..Len(orders)
  /\ origin[flow[k].order] = Asked(k).id
  /\ orders[flow[k].order].product = flow[k].product

FlowSound ==
  \A k \in Checkout :
    flow[k].step \in {"products", "payment", "ok", "notFound"} => OrderMade(k)

\* The click may have asked for a session.
MayHaveAsked(k) == flow[k].step \in {"payment", "ok", "failed"}

\* Sessions are asked for by a click, and for the order made for it; twice only
\* if something failed.
AskedFor(k, m) ==
  MayHaveAsked(k) /\ m = SessionRequest(k, flow[k].order) /\ OrderMade(k)

InboxSound ==
  /\ \A i \in 1..Len(inbox) : \E k \in Checkout : AskedFor(k, inbox[i])
  /\ webFaults = 0 => \A i, j \in 1..Len(inbox) : inbox[i] = inbox[j] => i = j

\* A page is handed out to the click whose order the session is for, and only
\* the sessions handed out are ever paid.
HandedTo(k, s) ==
  /\ s \in 1..Len(sessions)
  /\ At(k, "ok")
  /\ flow[k].order = sessions[s].order

LinksSound ==
  /\ \A s \in links : \E k \in Checkout : HandedTo(k, s)
  /\ \A s \in 1..Len(sessions) : sessions[s].status = "paid" => s \in links

\* Session s was made for order o, and ended as verdict v says.
EndedAs(o, s, v) ==
  /\ v \in {"PAID", "REJECTED"}
  /\ s \in 1..Len(sessions)
  /\ sessions[s].order = o
  /\ sessions[s].status = PP!Final(v)

\* What the order service is asked to write, and what it wrote, is so.
UpdateSound(m) == m.uri = "update" => EndedAs(m.order, m.session, m.status)

SettledSound ==
  /\ \A i \in 1..Len(requests) : UpdateSound(requests[i])
  /\ \A o \in 1..Len(orders) :
       orders[o].status # "PENDING" => EndedAs(o, orders[o].session, orders[o].status)

\* A page shows the order of its click and the session handed out with it.
PageOf(k, p) ==
  /\ HandedTo(k, p.session)
  /\ p.order = flow[k].order
  /\ p.status \in {"PENDING", orders[p.order].status}

PageSound == \A k \in Checkout : page[k] # NoPage => PageOf(k, page[k])

Inv == /\ OrdersInv /\ PayInv
       /\ WebTyped /\ FlowSound /\ InboxSound /\ LinksSound /\ SettledSound /\ PageSound

-----------------------------------------------------------------------------
\* Where a click is.
LEMMA FlowFields ==
  ASSUME WebTyped, NEW k \in Checkout, flow[k].step # "none"
  PROVE  flow[k] \in [step: Step, product: Product, order: 0..MaxOrders]
  BY DEF WebTyped, FlowType, NoFlow

\* How a click goes on.
LEMMA Going ==
  ASSUME WebTyped, NEW k \in Checkout, flow[k].step # "none",
         NEW step \in Step, NEW o \in 0..MaxOrders, Goes(k, step, o)
  PROVE  /\ flow' \in [Checkout -> FlowType]
         /\ flow'[k].step = step /\ flow'[k].product = flow[k].product
         /\ flow'[k].order = o
         /\ \A j \in Checkout : j # k => flow'[j] = flow[j]
  <1>1. flow[k] \in [step: Step, product: Product, order: 0..MaxOrders]
    BY FlowFields
  <1>2. flow'[k] = [step |-> step, product |-> flow[k].product, order |-> o]
    BY <1>1 DEF Goes, WebTyped
  <1>3. /\ \A j \in Checkout : j # k => flow'[j] = flow[j]
        /\ flow' = [j \in Checkout |-> flow'[j]]
    BY DEF Goes, WebTyped
  <1>4. flow'[k] \in FlowType
    BY <1>1, <1>2 DEF FlowType
  <1>5. \A j \in Checkout : flow'[j] \in FlowType
    BY <1>3, <1>4 DEF WebTyped
  <1>. QED
    BY <1>2, <1>3, <1>5

\* An order was made for one click.
LEMMA OneClick ==
  ASSUME NEW k \in Checkout, NEW j \in Checkout, OrderMade(k), OrderMade(j),
         flow[k].order = flow[j].order
  PROVE  k = j
  <1>1. <<"create", k, flow[k].product>> = <<"create", j, flow[j].product>>
    BY Ids DEF OrderMade, Asked
  <1>. QED
    BY <1>1

\* The answer to the create request of a click names an order made for it.
LEMMA OrderAnswer ==
  ASSUME OrdersInv, WebTyped, NEW k \in Checkout, flow[k].step # "none",
         NEW r \in replies, r.to = Asked(k).id, r.ok
  PROVE  /\ r.order \in 1..Len(orders)
         /\ origin[r.order] = Asked(k).id
         /\ orders[r.order].product = flow[k].product
  <1>1. Asked(k) \in OrderMessages
    BY FlowFields DEF Asked, OrderMessages
  <1>2. OP!StillTrue(Asked(k), r.order)
    BY <1>1 DEF OrdersInv, OP!ReplySound, OP!RepliesTruthful
  <1>3. Asked(k).uri = "create" /\ Asked(k).product = flow[k].product
    BY DEF Asked, CreateRequest
  <1>. QED
    BY <1>2, <1>3, OrdersTypes DEF OP!StillTrue

\* The answer to its request for a session names one made for that order.
LEMMA SessionAnswer ==
  ASSUME PayInv, WebTyped, NEW k \in Checkout, OrderMade(k),
         NEW r \in payReplies, r.to = SessionRequest(k, flow[k].order).id, r.ok
  PROVE  /\ r.session \in 1..Len(sessions) /\ r.session \in Session
         /\ sessions[r.session].order = flow[k].order
  <1>1. flow[k].order \in OrderId
    BY SizesAssumption DEF OrderMade, WebTyped, OrderId
  <1>2. SessionRequest(k, flow[k].order) \in PayMessages
    BY <1>1 DEF PayMessages
  <1>3. PP!MadeFor(r.session, SessionRequest(k, flow[k].order))
    BY <1>2 DEF PayInv, PP!HandedSound
  <1>4. SessionRequest(k, flow[k].order).order = flow[k].order
    BY DEF SessionRequest
  <1>. QED
    BY <1>3, <1>4, PayTypes, SizesAssumption DEF PP!MadeFor, Session

-----------------------------------------------------------------------------
\* The requests that a click makes are requests of the two services.
LEMMA Asking ==
  ASSUME WebTyped, FlowSound, NEW k \in Checkout
  PROVE  /\ At(k, "order") => Asked(k) \in OrderMessages
         /\ flow[k].step \in {"products", "payment"} =>
              SessionRequest(k, flow[k].order) \in PayMessages
  <1>1. ASSUME At(k, "order") PROVE Asked(k) \in OrderMessages
    BY <1>1, FlowFields DEF At, Asked, OrderMessages
  <1>2. ASSUME flow[k].step \in {"products", "payment"}
        PROVE  SessionRequest(k, flow[k].order) \in PayMessages
    <2>1. flow[k].order \in OrderId
      BY <1>2, SizesAssumption DEF FlowSound, OrderMade, WebTyped, OrderId
    <2>. QED
      BY <2>1 DEF PayMessages
  <1>. QED
    BY <1>1, <1>2

\* So is the one a callback makes, and it says what Stripe says.
LEMMA Reporting ==
  ASSUME PayInv, NEW c \in callbacks, c.awaits \in Pay!Verdict
  PROVE  LET u == Pay!UpdateOf(c)
             m == StatusRequest(u.order, u.status, c.session, c.n)
         IN m \in OrderMessages /\ UpdateSound(m)
  <1>. DEFINE o == sessions[c.session].order
              m == StatusRequest(o, c.awaits, c.session, c.n)
  <1>1. c.session \in Session /\ c.n \in 1..MaxPolls /\ c.awaits \in {"PAID", "REJECTED"}
    BY PayTypes DEF PP!Callback, Pay!Verdict, Session, PP!Session
  <1>2. /\ c.session \in 1..Len(sessions)
        /\ sessions[c.session].status = PP!Final(c.awaits)
    BY <1>1 DEF PayInv, PP!IInv, PP!PollsSound, PP!Verdict
  <1>3. o \in OrderId
    <2>1. sessions \in Seq(PP!StripeSession) /\ c.session \in 1..Len(sessions)
      BY <1>2, PayTypes
    <2>2. sessions[c.session] \in PP!StripeSession
      BY <2>1
    <2>. QED
      BY <2>2 DEF PP!StripeSession
  <1>4. m \in OrderMessages
    BY <1>1, <1>3 DEF OrderMessages
  <1>5. /\ m.uri = "update" /\ m.order = o /\ m.status = c.awaits /\ m.session = c.session
    BY DEF StatusRequest
  <1>6. UpdateSound(m)
    BY <1>1, <1>2, <1>5 DEF UpdateSound, EndedAs
  <1>7. Pay!UpdateOf(c).order = o /\ Pay!UpdateOf(c).status = c.awaits
    BY DEF Pay!UpdateOf
  <1>. QED
    BY <1>4, <1>6, <1>7

\* Each step of a purchase is a step of the order service, or none of its.
LEMMA OrdersStep == Inv /\ [Next]_vars => [Orders!Next]_(Orders!vars)
  <1>. SUFFICES ASSUME Inv, [Next]_vars PROVE [Orders!Next]_(Orders!vars)
    OBVIOUS
  <1>0. OrdersInv /\ PayInv /\ WebTyped /\ FlowSound
    BY DEF Inv
  <1>1. ASSUME UNCHANGED orderVars PROVE UNCHANGED Orders!vars
    BY <1>1 DEF orderVars, Orders!vars
  <1>2. ASSUME NEW m \in OrderMessages, Orders!Arrive(m) PROVE Orders!Next
    BY <1>2 DEF Orders!Next
  <1>3. ASSUME NEW k \in Checkout, NEW p \in Product, Post(k, p)
        PROVE  [Orders!Next]_(Orders!vars)
    BY <1>2, <1>3 DEF Post, OrderMessages
  <1>4. ASSUME NEW k \in Checkout, Answered(k) \/ GiveUp(k) \/ Leave(k) \/ Disconnect(k)
                                   \/ Connect(k)
        PROVE  [Orders!Next]_(Orders!vars)
    BY <1>1, <1>4 DEF Answered, GotOrder, GotProducts, ProductMissing, GotSession, GiveUp, Leave,
                      Disconnect, Connect
  <1>5. ASSUME NEW k \in Checkout, WrittenTwice(k) PROVE [Orders!Next]_(Orders!vars)
    BY <1>0, <1>1, <1>2, <1>5, Asking DEF WrittenTwice
  <1>6. ASSUME NEW c \in callbacks, Report(c) \/ ReportFails(c)
        PROVE  [Orders!Next]_(Orders!vars)
    <2>. DEFINE u == Pay!UpdateOf(c)
                m == StatusRequest(u.order, u.status, c.session, c.n)
    <2>1. c.awaits \in Pay!Verdict /\ (Orders!Arrive(m) \/ UNCHANGED orderVars)
      BY <1>6 DEF Report, ReportFails
    <2>2. m \in OrderMessages
      BY <1>0, <2>1, Reporting
    <2>. QED
      BY <1>1, <1>2, <2>1, <2>2
  <1>7. ASSUME NEW s \in Session, CustomerPays(s) \/ SessionExpires(s)
        PROVE  [Orders!Next]_(Orders!vars)
    BY <1>1, <1>7 DEF CustomerPays, SessionExpires
  <1>8. CASE Push \/ RealtimeRestarts
    BY <1>1, <1>8 DEF Push, RealtimeRestarts
  <1>9. CASE OrdersRun
    BY <1>9 DEF OrdersRun, Orders!Next
  <1>10. CASE PayRuns
    BY <1>1, <1>10 DEF PayRuns
  <1>11. CASE UNCHANGED vars
    BY <1>1, <1>11 DEF vars
  <1>. QED
    BY <1>3, <1>4, <1>5, <1>6, <1>7, <1>8, <1>9, <1>10, <1>11 DEF Next, Steps

\* And of the payment service.
LEMMA PayStep == Inv /\ [Next]_vars => [Pay!Next]_(Pay!vars)
  <1>. SUFFICES ASSUME Inv, [Next]_vars PROVE [Pay!Next]_(Pay!vars)
    OBVIOUS
  <1>0. OrdersInv /\ PayInv /\ WebTyped /\ FlowSound
    BY DEF Inv
  <1>1. ASSUME UNCHANGED payVars PROVE UNCHANGED Pay!vars
    BY <1>1 DEF payVars, Pay!vars
  <1>2. ASSUME NEW m \in PayMessages, Pay!Arrive(m) PROVE Pay!Next
    BY <1>2 DEF Pay!Next
  <1>3. ASSUME NEW k \in Checkout, NEW p \in Product, Post(k, p)
        PROVE  [Pay!Next]_(Pay!vars)
    BY <1>1, <1>3 DEF Post
  <1>4. ASSUME NEW k \in Checkout, GotOrder(k) \/ ProductMissing(k) \/ GotSession(k) \/ GiveUp(k)
                                   \/ Leave(k) \/ Disconnect(k) \/ Connect(k)
        PROVE  [Pay!Next]_(Pay!vars)
    BY <1>1, <1>4 DEF GotOrder, ProductMissing, GotSession, GiveUp, Leave, Disconnect, Connect
  <1>5. ASSUME NEW k \in Checkout, GotProducts(k) \/ WrittenTwice(k)
        PROVE  [Pay!Next]_(Pay!vars)
    BY <1>0, <1>1, <1>2, <1>5, Asking DEF GotProducts, WrittenTwice, At
  <1>6. ASSUME NEW c \in callbacks, Report(c) \/ ReportFails(c)
        PROVE  [Pay!Next]_(Pay!vars)
    BY <1>6 DEF Report, ReportFails, Pay!Next, Pay!Resolves
  <1>7. ASSUME NEW s \in Session, CustomerPays(s) \/ SessionExpires(s)
        PROVE  [Pay!Next]_(Pay!vars)
    BY <1>7 DEF CustomerPays, SessionExpires, Pay!Next, Pay!Session, Session
  <1>8. CASE Push \/ RealtimeRestarts \/ OrdersRun
    BY <1>1, <1>8 DEF Push, RealtimeRestarts, OrdersRun
  <1>9. CASE PayRuns
    BY <1>9 DEF PayRuns, PollReturns, Pay!Next, Pay!Resolves, Pay!Session, Session
  <1>10. CASE UNCHANGED vars
    BY <1>1, <1>10 DEF vars
  <1>. QED
    BY <1>3, <1>4, <1>5, <1>6, <1>7, <1>8, <1>9, <1>10 DEF Next, Steps, Answered

\* What every step of a purchase keeps.
LEMMA Kept ==
  ASSUME Inv, [Next]_vars
  PROVE  /\ OrdersInv' /\ PayInv'
         /\ Len(events') \in Nat /\ Len(events) <= Len(events')
         /\ Len(orders') \in Nat
         /\ \A o \in 1..Len(orders) :
              /\ o \in 1..Len(orders')
              /\ origin'[o] = origin[o]
              /\ orders'[o].product = orders[o].product
              /\ orders[o].status # "PENDING" => orders'[o] = orders[o]
         /\ Len(sessions') \in Nat
         /\ \A s \in 1..Len(sessions) :
              /\ s \in 1..Len(sessions')
              /\ sessions'[s].order = sessions[s].order
              /\ sessions[s].status # "open" => sessions'[s].status = sessions[s].status
  <1>1. /\ OrdersInv /\ PayInv /\ OrdersInv' /\ PayInv'
        /\ OP!RowsKept /\ OP!OriginKept /\ PP!SessionsKept
        /\ Len(events) <= Len(events')
    BY OrdersStep, PayStep, SameOrders, SamePay, OrdersInvariant, PayInvariant DEF Inv
  <1>2. /\ Len(orders') \in Nat /\ Len(events') \in Nat /\ Len(sessions') \in Nat
    <2>1. OP!TypeOK' /\ PP!TypeOK'
      BY <1>1 DEF OrdersInv, OP!IInv, PayInv, PP!IInv
    <2>2. orders' \in Seq(OP!Order) /\ events' \in Seq(OP!Event)
      BY <2>1 DEF OP!TypeOK
    <2>3. sessions' \in Seq(PP!StripeSession)
      BY <2>1 DEF PP!TypeOK
    <2>. QED
      BY <2>2, <2>3
  <1>3. ASSUME NEW o \in 1..Len(orders)
        PROVE  /\ o \in 1..Len(orders')
               /\ origin'[o] = origin[o]
               /\ orders'[o].product = orders[o].product
               /\ orders[o].status # "PENDING" => orders'[o] = orders[o]
    <2>1. o \in DOMAIN orders /\ o \in DOMAIN origin /\ Len(orders) \in Nat
      BY <1>1, OrdersTypes
    <2>2. orders[o].status \in {"PENDING"} \cup OP!Settled
      <3>1. orders[o] \in OP!Order
        BY <1>1, OrdersTypes
      <3>. QED
        BY <3>1 DEF OP!Order, OP!Status
    <2>. QED
      BY <1>1, <1>2, <2>1, <2>2 DEF OP!RowsKept, OP!OriginKept
  <1>4. ASSUME NEW s \in 1..Len(sessions)
        PROVE  /\ s \in 1..Len(sessions')
               /\ sessions'[s].order = sessions[s].order
               /\ sessions[s].status # "open" => sessions'[s].status = sessions[s].status
    BY <1>1, <1>2, PayTypes DEF PP!SessionsKept
  <1>. QED
    BY <1>1, <1>2, <1>3, <1>4

-----------------------------------------------------------------------------
\* The order of a click goes on being its order.
LEMMA OrderStays ==
  ASSUME Inv, [Next]_vars, NEW k \in Checkout, OrderMade(k),
         flow'[k].order = flow[k].order, flow'[k].product = flow[k].product
  PROVE  OrderMade(k)'
  <1>1. /\ flow[k].order \in 1..Len(orders')
        /\ origin'[flow[k].order] = origin[flow[k].order]
        /\ orders'[flow[k].order].product = orders[flow[k].order].product
    BY Kept DEF OrderMade
  <1>. QED
    BY <1>1 DEF OrderMade, Asked

\* A click that has asked for a session keeps its order, and one that was
\* answered stays where it is.
Stays(j) ==
  /\ MayHaveAsked(j) => /\ MayHaveAsked(j)'
                        /\ flow'[j].order = flow[j].order
                        /\ flow'[j].product = flow[j].product
  /\ At(j, "ok") => At(j, "ok")' /\ flow'[j] = flow[j]

\* Click k moves on, the others do not.
LEMMA OneMoves ==
  ASSUME Inv, [Next]_vars, NEW k \in Checkout, flow[k].step # "none",
         flow[k].step # "ok", NEW step \in Step, NEW o \in 0..MaxOrders,
         Goes(k, step, o),
         step \in {"products", "payment", "ok", "notFound"} => OrderMade(k)',
         MayHaveAsked(k) => step \in {"payment", "ok", "failed"} /\ o = flow[k].order
  PROVE  flow' \in [Checkout -> FlowType] /\ FlowSound' /\ \A j \in Checkout : Stays(j)
  <1>1. /\ flow' \in [Checkout -> FlowType]
        /\ flow'[k].step = step /\ flow'[k].product = flow[k].product /\ flow'[k].order = o
        /\ \A j \in Checkout : j # k => flow'[j] = flow[j]
    BY Going DEF Inv
  <1>2. ASSUME NEW j \in Checkout, j # k, OrderMade(j) PROVE OrderMade(j)'
    BY <1>1, <1>2, OrderStays
  <1>3. FlowSound'
    BY <1>1, <1>2 DEF Inv, FlowSound
  <1>4. ASSUME NEW j \in Checkout PROVE Stays(j)
    BY <1>1 DEF Stays, MayHaveAsked, At
  <1>. QED
    BY <1>1, <1>3, <1>4

\* Every step moves the clicks soundly.
LEMMA FlowStep ==
  ASSUME Inv, [Next]_vars
  PROVE  flow' \in [Checkout -> FlowType] /\ FlowSound' /\ \A j \in Checkout : Stays(j)
  <1>. DEFINE Sound == flow' \in [Checkout -> FlowType] /\ FlowSound' /\ \A j \in Checkout : Stays(j)
  <1>0. WebTyped /\ FlowSound /\ OrdersInv /\ PayInv
    BY DEF Inv
  <1>1. ASSUME UNCHANGED flow PROVE Sound
    BY <1>0, <1>1, OrderStays DEF WebTyped, FlowSound, Stays, MayHaveAsked, At
  <1>2. ASSUME NEW k \in Checkout, NEW p \in Product, Post(k, p) PROVE Sound
    <2>. DEFINE f == [step |-> "order", product |-> p, order |-> 0]
    <2>1. flow' = [flow EXCEPT ![k] = f] /\ flow[k].step = "none"
      BY <1>2 DEF Post, At
    <2>2. f \in FlowType /\ f.step = "order"
      BY SizesAssumption DEF FlowType, Step
    <2>3. /\ flow' \in [Checkout -> FlowType] /\ flow'[k].step = "order"
          /\ \A j \in Checkout : j # k => flow'[j] = flow[j]
      BY <1>0, <2>1, <2>2 DEF WebTyped
    <2>4. ASSUME NEW j \in Checkout, j # k, OrderMade(j) PROVE OrderMade(j)'
      BY <2>3, <2>4, OrderStays
    <2>5. FlowSound'
      BY <1>0, <2>3, <2>4 DEF FlowSound
    <2>6. \A j \in Checkout : Stays(j)
      BY <2>1, <2>3 DEF Stays, MayHaveAsked, At
    <2>. QED
      BY <2>3, <2>5, <2>6
  <1>3. ASSUME NEW k \in Checkout, GotOrder(k) PROVE Sound
    <2>1. flow[k].step = "order" /\ UNCHANGED <<orders, origin>>
      BY <1>3 DEF GotOrder, At, orderVars
    <2>2. PICK r \in replies : /\ r.to = Asked(k).id
                               /\ IF r.ok THEN Goes(k, "products", r.order)
                                  ELSE Goes(k, "failed", 0)
      BY <1>3 DEF GotOrder
    <2>3. CASE r.ok
      <3>1. /\ r.order \in 1..Len(orders)
            /\ origin[r.order] = Asked(k).id
            /\ orders[r.order].product = flow[k].product
        BY <1>0, <2>1, <2>2, <2>3, OrderAnswer
      <3>2. r.order \in 0..MaxOrders
        BY <1>0, <3>1, OrdersTypes, SizesAssumption DEF WebTyped
      <3>3. /\ flow'[k].step = "products" /\ flow'[k].product = flow[k].product
            /\ flow'[k].order = r.order
        BY <1>0, <2>1, <2>2, <2>3, <3>2, Going DEF Step
      <3>4. OrderMade(k)'
        BY <2>1, <3>1, <3>3 DEF OrderMade, Asked
      <3>. QED
        BY <2>1, <2>2, <2>3, <3>2, <3>4, OneMoves DEF Step, MayHaveAsked
    <2>4. CASE ~r.ok
      BY <2>1, <2>2, <2>4, SizesAssumption, OneMoves DEF Step, MayHaveAsked
    <2>. QED
      BY <2>3, <2>4
  \* The steps that keep the order.
  <1>4. ASSUME NEW k \in Checkout, NEW step \in {"payment", "ok", "notFound", "failed"},
               flow[k].step \in {"order", "products", "payment"},
               Goes(k, step, flow[k].order),
               step # "failed" => flow[k].step \in {"products", "payment"},
               step = "notFound" => flow[k].step = "products"
        PROVE  Sound
    <2>1. flow[k].order \in 0..MaxOrders /\ step \in Step
      BY <1>0, <1>4, FlowFields DEF Step
    <2>2. flow'[k].order = flow[k].order /\ flow'[k].product = flow[k].product
      BY <1>0, <1>4, <2>1, Going
    <2>3. step # "failed" => OrderMade(k)'
      BY <1>0, <1>4, <2>2, OrderStays DEF FlowSound
    <2>. QED
      BY <1>4, <2>1, <2>3, OneMoves DEF MayHaveAsked
  <1>5. ASSUME NEW k \in Checkout,
               GotProducts(k) \/ ProductMissing(k) \/ GotSession(k) \/ GiveUp(k)
        PROVE  Sound
    BY <1>4, <1>5 DEF GotProducts, ProductMissing, GotSession, GiveUp, At
  <1>6. ASSUME NEW k \in Checkout, WrittenTwice(k) \/ Leave(k) \/ Disconnect(k) \/ Connect(k)
        PROVE  Sound
    BY <1>1, <1>6 DEF WrittenTwice, Leave, Disconnect, Connect
  <1>7. ASSUME NEW c \in callbacks, Report(c) \/ ReportFails(c) PROVE Sound
    BY <1>1, <1>7 DEF Report, ReportFails, web
  <1>8. ASSUME NEW s \in Session, CustomerPays(s) \/ SessionExpires(s) PROVE Sound
    BY <1>1, <1>8 DEF CustomerPays, SessionExpires, web
  <1>9. CASE Push \/ RealtimeRestarts \/ OrdersRun \/ PayRuns \/ UNCHANGED vars
    BY <1>1, <1>9 DEF Push, RealtimeRestarts, OrdersRun, PayRuns, vars, web
  <1>. QED
    BY <1>2, <1>3, <1>5, <1>6, <1>7, <1>8, <1>9 DEF Next, Steps, Answered

-----------------------------------------------------------------------------
\* Who asked for a session goes on being who asked for it.
LEMMA AskerStays ==
  ASSUME Inv, [Next]_vars, NEW i \in 1..Len(inbox), inbox'[i] = inbox[i]
  PROVE  \E j \in Checkout : /\ MayHaveAsked(j)' /\ OrderMade(j)'
                            /\ inbox'[i] = SessionRequest(j, flow'[j].order)
  <1>1. PICK j \in Checkout : AskedFor(j, inbox[i])
    BY DEF Inv, InboxSound
  <1>2. /\ MayHaveAsked(j)' /\ OrderMade(j)' /\ flow'[j].order = flow[j].order
    BY <1>1, FlowStep, OrderStays DEF AskedFor, Stays
  <1>. QED
    BY <1>1, <1>2 DEF AskedFor

\* Click k asks for a session, the first time or once more.
LEMMA InboxGrows ==
  ASSUME Inv, [Next]_vars, NEW k \in Checkout, NEW m \in PayMessages,
         m = SessionRequest(k, flow[k].order), inbox' = Append(inbox, m),
         MayHaveAsked(k)', OrderMade(k)', flow'[k].order = flow[k].order,
         webFaults' = 0 => webFaults = 0 /\ \A i \in 1..Len(inbox) : inbox[i] # m
  PROVE  InboxSound'
  <1>1. /\ Len(inbox') = Len(inbox) + 1 /\ inbox'[Len(inbox) + 1] = m
        /\ \A i \in 1..Len(inbox) : inbox'[i] = inbox[i]
        /\ \A i \in 1..Len(inbox') : i \in 1..Len(inbox) \/ i = Len(inbox) + 1
    BY PayTypes, AppendProperties DEF Inv
  <1>2. ASSUME NEW i \in 1..Len(inbox')
        PROVE  \E j \in Checkout : /\ MayHaveAsked(j)' /\ OrderMade(j)'
                                  /\ inbox'[i] = SessionRequest(j, flow'[j].order)
    <2>1. CASE i \in 1..Len(inbox)
      BY <1>1, <2>1, AskerStays
    <2>2. CASE i = Len(inbox) + 1
      BY <1>1, <2>2
    <2>. QED
      BY <1>1, <2>1, <2>2
  <1>3. webFaults' = 0 => \A i, j \in 1..Len(inbox') : inbox'[i] = inbox'[j] => i = j
    BY <1>1 DEF Inv, InboxSound
  <1>. QED
    BY <1>2, <1>3 DEF InboxSound, AskedFor

\* A click asks for a session once, unless something fails.
LEMMA InboxStep ==
  ASSUME Inv, [Next]_vars
  PROVE  InboxSound'
  <1>0. /\ WebTyped /\ FlowSound /\ InboxSound /\ OrdersInv /\ PayInv
        /\ webFaults \in Nat /\ webFaults + 1 # 0
    BY DEF Inv, WebTyped
  <1>2. ASSUME UNCHANGED inbox, webFaults' = 0 => webFaults = 0 PROVE InboxSound'
    BY <1>0, <1>2, AskerStays DEF InboxSound, AskedFor
  <1>3. ASSUME NEW k \in Checkout, GotProducts(k) PROVE InboxSound'
    <2>1. /\ flow[k].step = "products" /\ OrderMade(k) /\ UNCHANGED webFaults
          /\ inbox' = Append(inbox, SessionRequest(k, flow[k].order))
          /\ Goes(k, "payment", flow[k].order)
      BY <1>0, <1>3 DEF GotProducts, Pay!Arrive, At, FlowSound
    <2>2. PICK m \in PayMessages : m = SessionRequest(k, flow[k].order)
      BY <1>0, <2>1, Asking
    <2>3. /\ flow'[k].step = "payment" /\ flow'[k].order = flow[k].order
          /\ flow'[k].product = flow[k].product
      BY <1>0, <2>1, FlowFields, Going DEF Step
    <2>4. MayHaveAsked(k)' /\ OrderMade(k)'
      BY <2>1, <2>3, OrderStays DEF MayHaveAsked
    <2>5. ASSUME NEW i \in 1..Len(inbox) PROVE inbox[i] # m
      <3>1. PICK j \in Checkout : AskedFor(j, inbox[i])
        BY <1>0 DEF InboxSound
      <3>2. j # k
        BY <2>1, <3>1 DEF AskedFor, MayHaveAsked
      <3>3. <<j, flow[j].order>> # <<k, flow[k].order>>
        BY <3>2
      <3>4. inbox[i].id = <<j, flow[j].order>> /\ m.id = <<k, flow[k].order>>
        BY <2>2, <3>1 DEF AskedFor, SessionRequest
      <3>. QED
        BY <3>3, <3>4
    <2>. QED
      BY <2>1, <2>2, <2>3, <2>4, <2>5, InboxGrows
  <1>4. ASSUME NEW k \in Checkout, WrittenTwice(k) PROVE InboxSound'
    <2>1. webFaults' # 0
      BY <1>0, <1>4 DEF WrittenTwice, WebFault
    <2>2. CASE UNCHANGED payVars
      BY <1>2, <2>1, <2>2 DEF payVars
    <2>3. CASE At(k, "payment") /\ Pay!Arrive(SessionRequest(k, flow[k].order))
      <3>1. PICK m \in PayMessages :
              /\ m = SessionRequest(k, flow[k].order)
              /\ inbox' = Append(inbox, m)
        BY <1>0, <2>3, Asking DEF Pay!Arrive, At
      <3>2. MayHaveAsked(k) /\ OrderMade(k) /\ UNCHANGED flow
        BY <1>0, <1>4, <2>3 DEF MayHaveAsked, At, FlowSound, WrittenTwice
      <3>3. MayHaveAsked(k)' /\ OrderMade(k)' /\ flow'[k].order = flow[k].order
        BY <3>2, OrderStays DEF MayHaveAsked
      <3>. QED
        BY <2>1, <3>1, <3>3, InboxGrows
    <2>. QED
      BY <1>4, <2>2, <2>3 DEF WrittenTwice
  <1>5. ASSUME NEW k \in Checkout, NEW p \in Product, Post(k, p) PROVE InboxSound'
    BY <1>2, <1>5 DEF Post, payVars
  <1>6. ASSUME NEW k \in Checkout,
               GotOrder(k) \/ ProductMissing(k) \/ GotSession(k) \/ Connect(k)
        PROVE  InboxSound'
    BY <1>2, <1>6 DEF GotOrder, ProductMissing, GotSession, Connect, payVars
  <1>7. ASSUME NEW k \in Checkout, GiveUp(k) \/ Leave(k) \/ Disconnect(k) PROVE InboxSound'
    BY <1>0, <1>2, <1>7 DEF GiveUp, Leave, Disconnect, WebFault, payVars
  <1>8. ASSUME NEW c \in callbacks, Report(c) \/ ReportFails(c) PROVE InboxSound'
    BY <1>2, <1>8 DEF Report, ReportFails, web, Pay!SendUpdate, Pay!SendUpdateFails, Pay!kafka
  <1>9. ASSUME NEW s \in Session, CustomerPays(s) \/ SessionExpires(s) PROVE InboxSound'
    BY <1>2, <1>9 DEF CustomerPays, SessionExpires, web, Pay!Becomes, Pay!kafka
  <1>10. CASE Push \/ OrdersRun \/ UNCHANGED vars
    BY <1>2, <1>10 DEF Push, OrdersRun, vars, payVars, web
  <1>11. CASE RealtimeRestarts
    BY <1>0, <1>2, <1>11 DEF RealtimeRestarts, WebFault, payVars
  <1>12. CASE PayRuns
    <2>1. UNCHANGED inbox
      BY <1>12 DEF PayRuns, PollReturns, Pay!Consumer, Pay!Take, Pay!CreateSession,
         Pay!CreateSessionFails, Pay!Respond, Pay!RespondFails, Pay!RespondError,
         Pay!RespondErrorFails, Pay!Commit, Pay!Crash, Pay!Tick, Pay!SafetyTimeout,
         Pay!PollOpen, Pay!PollFails, Pay!PollEnds, Pay!kafka
    <2>. QED
      BY <1>2, <1>12, <2>1 DEF PayRuns, web
  <1>. QED
    BY <1>3, <1>4, <1>5, <1>6, <1>7, <1>8, <1>9, <1>10, <1>11, <1>12
       DEF Next, Steps, Answered

-----------------------------------------------------------------------------
\* The payment service itself ends no session of Stripe.
LEMMA PayEndsNone ==
  ASSUME Inv, [Next]_vars, PayRuns, NEW s \in 1..Len(sessions'), sessions'[s].status # "open"
  PROVE  s \in 1..Len(sessions) /\ sessions'[s] = sessions[s]
  <1>1. CASE UNCHANGED sessions
    BY <1>1
  <1>2. CASE payTask.stage = "create" /\ Pay!NewSession(payTask.msg)
    <2>1. sessions' = Append(sessions, [order |-> payTask.msg.order, status |-> "open"])
      BY <1>2 DEF Pay!NewSession
    <2>2. /\ Len(sessions') = Len(sessions) + 1
          /\ \A q \in 1..Len(sessions) : sessions'[q] = sessions[q]
          /\ sessions'[Len(sessions) + 1].status = "open"
      <3>1. payTask.stage # "idle" /\ PP!TypeOK
        BY <1>2 DEF Inv, PayInv, PP!IInv
      <3>2. payTask.msg \in PP!Request
        BY <3>1, PP!AtWork, PayRequests, Constants
      <3>3. [order |-> payTask.msg.order, status |-> "open"] \in PP!StripeSession
        BY <3>2 DEF PP!Request, PP!StripeSession
      <3>. QED
        BY <2>1, <3>3, PayTypes, AppendProperties DEF Inv
    <2>3. s \in 1..Len(sessions) \/ s = Len(sessions) + 1
      BY <2>2, PayTypes DEF Inv
    <2>. QED
      BY <2>2, <2>3
  <1>. QED
    BY <1>1, <1>2 DEF PayRuns, PollReturns, Pay!Consumer, Pay!Take, Pay!CreateSession,
       Pay!CreateSessionFails, Pay!Respond, Pay!RespondFails, Pay!RespondError,
       Pay!RespondErrorFails, Pay!Commit, Pay!Crash, Pay!Tick, Pay!SafetyTimeout,
       Pay!PollOpen, Pay!PollFails, Pay!PollEnds

\* Nobody pays on a page that was not handed out.
LEMMA LinksStep ==
  ASSUME Inv, [Next]_vars
  PROVE  LinksSound'
  <1>0. WebTyped /\ FlowSound /\ LinksSound /\ OrdersInv /\ PayInv
    BY DEF Inv
  <1>1. ASSUME NEW k \in Checkout, NEW s, HandedTo(k, s) PROVE HandedTo(k, s)'
    BY <1>1, Kept, FlowStep DEF HandedTo, Stays
  \* The steps that end no session, and perhaps hand one out.
  <1>2. ASSUME links \subseteq links',
               \A s \in links' : s \in links \/ \E k \in Checkout : HandedTo(k, s)',
               \A s \in 1..Len(sessions') :
                 sessions'[s].status = "paid" =>
                   s \in links' \/ (s \in 1..Len(sessions) /\ sessions[s].status = "paid")
        PROVE  LinksSound'
    <2>1. \A s \in links' : \E k \in Checkout : HandedTo(k, s)'
      BY <1>0, <1>1, <1>2 DEF LinksSound
    <2>2. \A s \in 1..Len(sessions') : sessions'[s].status = "paid" => s \in links'
      BY <1>0, <1>2 DEF LinksSound
    <2>. QED
      BY <2>1, <2>2 DEF LinksSound
  <1>3. ASSUME UNCHANGED <<links, sessions>> PROVE LinksSound'
    BY <1>2, <1>3
  <1>4. ASSUME NEW k \in Checkout, GotSession(k) PROVE LinksSound'
    <2>1. /\ flow[k].step = "payment" /\ OrderMade(k) /\ UNCHANGED sessions
      BY <1>0, <1>4 DEF GotSession, At, FlowSound, payVars
    <2>2. PICK r \in payReplies :
            /\ r.to = SessionRequest(k, flow[k].order).id
            /\ IF r.ok THEN Goes(k, "ok", flow[k].order) /\ Shows(k, r.session)
               ELSE Goes(k, "failed", flow[k].order) /\ UNCHANGED <<page, links>>
      BY <1>4 DEF GotSession
    <2>3. CASE r.ok
      <3>1. /\ r.session \in 1..Len(sessions)
            /\ sessions[r.session].order = flow[k].order
        BY <1>0, <2>1, <2>2, <2>3, SessionAnswer
      <3>2. flow'[k].step = "ok" /\ flow'[k].order = flow[k].order
        BY <1>0, <2>1, <2>2, <2>3, FlowFields, Going DEF Step
      <3>3. HandedTo(k, r.session)'
        BY <2>1, <3>1, <3>2 DEF HandedTo, At
      <3>4. links' = links \cup {r.session}
        BY <2>2, <2>3 DEF Shows
      <3>. QED
        BY <1>2, <2>1, <3>3, <3>4
    <2>4. CASE ~r.ok
      BY <1>3, <2>1, <2>2, <2>4
    <2>. QED
      BY <2>3, <2>4
  <1>5. ASSUME NEW s \in Session, CustomerPays(s) \/ SessionExpires(s) PROVE LinksSound'
    <2>1. PICK st \in {"paid", "expired"} :
            Pay!Becomes(s, st) /\ (st = "paid" => s \in links) /\ UNCHANGED links
      BY <1>5 DEF CustomerPays, SessionExpires, web
    <2>2. /\ sessions' = [sessions EXCEPT ![s].status = st]
          /\ s \in 1..Len(sessions)
      BY <1>0, <2>1, PayTypes DEF Pay!Becomes
    <2>3. /\ DOMAIN sessions' = DOMAIN sessions
          /\ \A q \in 1..Len(sessions) : q # s => sessions'[q] = sessions[q]
      BY <1>0, <2>2, PayTypes
    <2>4. sessions'[s].status = st
      <3>1. sessions[s] \in PP!StripeSession
        BY <1>0, <2>2, PayTypes
      <3>. QED
        BY <1>0, <2>2, <3>1, PayTypes DEF PP!StripeSession
    <2>5. 1..Len(sessions') = 1..Len(sessions)
      BY <1>0, <2>3, PayTypes, Kept
    <2>. QED
      BY <1>2, <2>1, <2>3, <2>4, <2>5
  <1>6. CASE PayRuns
    BY <1>2, <1>6, PayEndsNone DEF PayRuns, web
  <1>7. ASSUME NEW k \in Checkout, NEW p \in Product, Post(k, p) PROVE LinksSound'
    BY <1>3, <1>7 DEF Post, payVars
  <1>8. ASSUME NEW k \in Checkout, GotOrder(k) \/ ProductMissing(k) \/ GiveUp(k) \/ Leave(k)
                                   \/ Disconnect(k) \/ Connect(k)
        PROVE  LinksSound'
    BY <1>3, <1>8 DEF GotOrder, ProductMissing, GiveUp, Leave, Disconnect, Connect, payVars
  <1>9. ASSUME NEW k \in Checkout, GotProducts(k) \/ WrittenTwice(k) PROVE LinksSound'
    BY <1>3, <1>9 DEF GotProducts, WrittenTwice, Pay!Arrive, payVars
  <1>10. ASSUME NEW c \in callbacks, Report(c) \/ ReportFails(c) PROVE LinksSound'
    BY <1>3, <1>10 DEF Report, ReportFails, web, Pay!SendUpdate, Pay!SendUpdateFails
  <1>11. CASE Push \/ RealtimeRestarts \/ OrdersRun \/ UNCHANGED vars
    BY <1>3, <1>11 DEF Push, RealtimeRestarts, OrdersRun, vars, payVars, web
  <1>. QED
    BY <1>4, <1>5, <1>6, <1>7, <1>8, <1>9, <1>10, <1>11 DEF Next, Steps, Answered

-----------------------------------------------------------------------------
\* What was said of how a session ended goes on being so.
LEMMA EndedStays ==
  ASSUME Inv, [Next]_vars, NEW o, NEW s, NEW v, EndedAs(o, s, v)
  PROVE  EndedAs(o, s, v)'
  <1>1. PP!Final(v) # "open"
    BY DEF PP!Final
  <1>. QED
    BY <1>1, Kept DEF EndedAs

\* A request that reaches the order service's topic, if it asks for a verdict, asks
\* for the right one.
LEMMA RequestsStep ==
  ASSUME Inv, [Next]_vars
  PROVE  \A i \in 1..Len(requests') :
           requests'[i].uri = "update" =>
             EndedAs(requests'[i].order, requests'[i].session, requests'[i].status)
  <1>. DEFINE Sound == \A i \in 1..Len(requests') :
                         requests'[i].uri = "update" =>
                           EndedAs(requests'[i].order, requests'[i].session, requests'[i].status)
  <1>0. /\ WebTyped /\ FlowSound /\ OrdersInv /\ PayInv
        /\ \A i \in 1..Len(requests) : UpdateSound(requests[i])
    BY DEF Inv, SettledSound
  <1>1. ASSUME UNCHANGED requests PROVE Sound
    BY <1>0, <1>1 DEF UpdateSound
  <1>2. ASSUME NEW m \in OrderMessages, UpdateSound(m), Orders!Arrive(m) PROVE Sound
    <2>1. /\ Len(requests') = Len(requests) + 1 /\ requests'[Len(requests) + 1] = m
          /\ \A i \in 1..Len(requests) : requests'[i] = requests[i]
          /\ \A i \in 1..Len(requests') : i \in 1..Len(requests) \/ i = Len(requests) + 1
      BY <1>0, <1>2, OrdersTypes, AppendProperties DEF Orders!Arrive
    <2>. QED
      BY <1>0, <1>2, <2>1 DEF UpdateSound
  <1>3. \A k, p : UpdateSound(CreateRequest(k, p))
    BY DEF UpdateSound, CreateRequest
  <1>4. ASSUME NEW k \in Checkout, NEW p \in Product, Post(k, p) PROVE Sound
    BY <1>2, <1>3, <1>4 DEF Post, OrderMessages
  <1>5. ASSUME NEW k \in Checkout, WrittenTwice(k) PROVE Sound
    BY <1>0, <1>1, <1>2, <1>3, <1>5, Asking DEF WrittenTwice, Asked, orderVars
  <1>6. ASSUME NEW c \in callbacks, Report(c) \/ ReportFails(c) PROVE Sound
    <2>. DEFINE u == Pay!UpdateOf(c)
                m == StatusRequest(u.order, u.status, c.session, c.n)
    <2>1. c.awaits \in Pay!Verdict /\ (Orders!Arrive(m) \/ UNCHANGED requests)
      BY <1>6 DEF Report, ReportFails, orderVars
    <2>2. m \in OrderMessages /\ UpdateSound(m)
      BY <1>0, <2>1, Reporting
    <2>. QED
      BY <1>1, <1>2, <2>1, <2>2
  <1>7. ASSUME NEW k \in Checkout, Answered(k) \/ GiveUp(k) \/ Leave(k) \/ Disconnect(k)
                                   \/ Connect(k)
        PROVE  Sound
    BY <1>1, <1>7 DEF Answered, GotOrder, GotProducts, ProductMissing, GotSession, GiveUp, Leave,
                      Disconnect, Connect, orderVars
  <1>8. ASSUME NEW s \in Session, CustomerPays(s) \/ SessionExpires(s) PROVE Sound
    BY <1>1, <1>8 DEF CustomerPays, SessionExpires, orderVars
  <1>9. CASE Push \/ RealtimeRestarts \/ PayRuns \/ UNCHANGED vars
    BY <1>1, <1>9 DEF Push, RealtimeRestarts, PayRuns, vars, orderVars
  <1>10. CASE OrdersRun
    <2>1. UNCHANGED requests
      BY <1>10 DEF OrdersRun, Orders!Listener, Orders!Handle, Orders!DropUnparsable,
         Orders!RefuseUnusable, Orders!CreateOrder, Orders!CreateOrderFails,
         Orders!UpdateStatus, Orders!UpdateStatusFails, Orders!RefuseUpdate,
         Orders!ListOrders, Orders!EmitStatusEvent, Orders!EmitStatusEventFails,
         Orders!AskReturns, Orders!AskTimesOut, Orders!AggregateFails, Orders!Respond,
         Orders!RespondFails, Orders!RespondError, Orders!RespondErrorFails,
         Orders!Poll, Orders!Commit, Orders!Rejoin, Orders!Producer, Orders!Flush,
         Orders!FlushFails, Orders!Crash
    <2>. QED
      BY <1>1, <2>1
  <1>. QED
    BY <1>4, <1>5, <1>6, <1>7, <1>8, <1>9, <1>10 DEF Next, Steps

\* What is written of an order is so.
LEMMA SettledStep ==
  ASSUME Inv, [Next]_vars
  PROVE  SettledSound'
  <1>0. SettledSound /\ OrdersInv /\ PayInv
    BY DEF Inv
  <1>1. \A i \in 1..Len(requests') : UpdateSound(requests[i])'
    <2>. SUFFICES ASSUME NEW i \in 1..Len(requests'), requests'[i].uri = "update"
                  PROVE  EndedAs(requests[i].order, requests[i].session, requests[i].status)'
      BY DEF UpdateSound
    <2>1. PICK o, s, v : /\ o = requests'[i].order /\ s = requests'[i].session
                         /\ v = requests'[i].status
      OBVIOUS
    <2>2. EndedAs(o, s, v)
      BY <2>1, RequestsStep
    <2>3. EndedAs(o, s, v)'
      BY <2>2, EndedStays
    <2>. QED
      BY <2>1, <2>3 DEF EndedAs
  <1>2. ASSUME NEW o \in 1..Len(orders'), orders'[o].status # "PENDING"
        PROVE  EndedAs(o, orders[o].session, orders[o].status)'
    <2>1. PICK s, v : s = orders'[o].session /\ v = orders'[o].status
      OBVIOUS
    <2>2. \/ o \in 1..Len(orders) /\ orders'[o] = orders[o]
          \/ \E i \in 1..Len(requests) : OP!Asks(requests[i], o, orders'[o])
      <3>1. OP!TypeOK /\ [OP!Next]_(OP!vars)
        BY <1>0, OrdersStep, SameOrders DEF OrdersInv, OP!IInv
      <3>. QED
        BY <1>2, <3>1, OP!RowsWritten, OrderRequests, Constants
    <2>3. ASSUME o \in 1..Len(orders), orders'[o] = orders[o] PROVE EndedAs(o, s, v)
      BY <1>0, <1>2, <2>1, <2>3 DEF SettledSound
    <2>4. ASSUME NEW i \in 1..Len(requests), OP!Asks(requests[i], o, orders'[o])
          PROVE  EndedAs(o, s, v)
      <3>1. UpdateSound(requests[i])
        BY <1>0 DEF SettledSound
      <3>2. /\ requests[i].order = o /\ requests[i].status = v
            /\ EndedAs(o, requests[i].session, v)
            /\ requests[i].session # 0 => s = requests[i].session
        BY <2>1, <2>4, <3>1 DEF OP!Asks, UpdateSound
      <3>. QED
        BY <3>2 DEF EndedAs
    <2>5. EndedAs(o, s, v)
      BY <2>2, <2>3, <2>4
    <2>6. EndedAs(o, s, v)'
      BY <2>5, EndedStays
    <2>. QED
      BY <2>1, <2>6 DEF EndedAs
  <1>. QED
    BY <1>1, <1>2 DEF SettledSound

-----------------------------------------------------------------------------
\* A page that was handed out stays what it is.
LEMMA PageStays ==
  ASSUME Inv, [Next]_vars, NEW k \in Checkout, PageOf(k, page[k]), page'[k] = page[k],
         page[k] # NoPage
  PROVE  PageOf(k, page[k])'
  <1>1. /\ HandedTo(k, page[k].session) /\ At(k, "ok") /\ OrderMade(k)
        /\ page[k].order = flow[k].order
    BY DEF PageOf, HandedTo, Inv, FlowSound, At
  <1>2. flow'[k] = flow[k] /\ At(k, "ok")'
    BY <1>1, FlowStep DEF Stays
  <1>3. page[k].order \in 1..Len(orders)
    BY <1>1 DEF OrderMade
  <1>4. orders[page[k].order].status # "PENDING"
          => orders'[page[k].order] = orders[page[k].order]
    BY <1>3, Kept
  <1>5. page[k].status \in {"PENDING", orders'[page[k].order].status}
    BY <1>4 DEF PageOf
  <1>6. /\ page[k].session \in 1..Len(sessions')
        /\ flow'[k].order = sessions'[page[k].session].order
    BY <1>1, <1>2, Kept DEF HandedTo
  <1>. QED
    BY <1>1, <1>2, <1>5, <1>6 DEF PageOf, HandedTo

\* After the step too, the pages are pages, and each shows what is its own.
PagesStay == page' \in [Checkout -> Page] /\ PageSound'

\* Every step keeps the pages true.
LEMMA PageStep ==
  ASSUME Inv, [Next]_vars
  PROVE  PagesStay
  <1>0. WebTyped /\ FlowSound /\ LinksSound /\ PageSound /\ OrdersInv /\ PayInv
    BY DEF Inv
  <1>1. ASSUME UNCHANGED page PROVE PagesStay
    BY <1>0, <1>1, PageStays DEF PagesStay, WebTyped, PageSound
  <1>2. ASSUME NEW k \in Checkout, GotSession(k) PROVE PagesStay
    <2>1. /\ flow[k].step = "payment" /\ OrderMade(k) /\ UNCHANGED <<sessions, orders>>
      BY <1>0, <1>2 DEF GotSession, At, FlowSound, orderVars, payVars
    <2>2. PICK r \in payReplies :
            /\ r.to = SessionRequest(k, flow[k].order).id
            /\ IF r.ok THEN Goes(k, "ok", flow[k].order) /\ Shows(k, r.session)
               ELSE Goes(k, "failed", flow[k].order) /\ UNCHANGED <<page, links>>
      BY <1>2 DEF GotSession
    <2>3. CASE r.ok
      <3>. DEFINE p == [order |-> flow[k].order, session |-> r.session, status |-> "PENDING"]
      <3>1. /\ r.session \in 1..Len(sessions) /\ r.session \in Session
            /\ sessions[r.session].order = flow[k].order
        BY <1>0, <2>1, <2>2, <2>3, SessionAnswer
      <3>2. flow'[k].step = "ok" /\ flow'[k].order = flow[k].order
        BY <1>0, <2>1, <2>2, <2>3, FlowFields, Going DEF Step
      <3>3. flow[k].order \in OrderId
        BY <1>0, <2>1, SizesAssumption DEF OrderMade, WebTyped, OrderId
      <3>4. p \in Page
        BY <3>1, <3>3 DEF Page, Orders!Status
      <3>5. /\ page' \in [Checkout -> Page] /\ page'[k] = p
            /\ \A j \in Checkout : j # k => page'[j] = page[j]
        BY <1>0, <2>2, <2>3, <3>4 DEF Shows, WebTyped
      <3>6. PageOf(k, page[k])'
        BY <2>1, <3>1, <3>2, <3>5 DEF PageOf, HandedTo, At
      <3>7. \A j \in Checkout : j # k => (page'[j] # NoPage => PageOf(j, page[j])')
        BY <1>0, <3>5, PageStays DEF PageSound
      <3>. QED
        BY <3>5, <3>6, <3>7 DEF PagesStay, PageSound
    <2>4. CASE ~r.ok
      BY <1>1, <2>2, <2>4
    <2>. QED
      BY <2>3, <2>4
  <1>3. ASSUME NEW k \in Checkout, Leave(k) PROVE PagesStay
    <2>1. /\ page' \in [Checkout -> Page] /\ page'[k] = NoPage
          /\ \A j \in Checkout : j # k => page'[j] = page[j]
      BY <1>0, <1>3 DEF Leave, WebTyped, Page
    <2>. QED
      BY <1>0, <2>1, PageStays DEF PagesStay, PageSound
  <1>4. CASE Push
    <2>. DEFINE e == events[pushed + 1]
    <2>1. /\ page' = [k \in Checkout |->
                       IF k \in online /\ Buyer[k] = e.user THEN Received(page[k], e)
                       ELSE page[k]]
          /\ UNCHANGED <<orders, sessions, flow>>
          /\ pushed + 1 \in 1..Len(events)
      BY <1>0, <1>4, OrdersTypes DEF Push, orderVars, payVars, WebTyped
    <2>2. /\ e \in OP!Event
          /\ e.status = orders[e.order].status
      BY <1>0, <2>1, OrdersTypes DEF OrdersInv, OP!IInv, OP!EventsSound, OP!Truthful
    <2>3. e.order # 0 /\ e.status \in Orders!Status
      BY <2>2 DEF OP!Event, OP!Settled, Orders!Status, Orders!Settled
    <2>4. ASSUME NEW k \in Checkout
          PROVE  /\ page'[k] \in Page
                 /\ page'[k] # NoPage => PageOf(k, page'[k])
      <3>1. page[k] \in Page /\ (page[k] # NoPage => PageOf(k, page[k]))
        BY <1>0 DEF WebTyped, PageSound
      <3>2. CASE page'[k] = page[k]
        BY <3>1, <3>2
      <3>3. CASE page'[k] = Received(page[k], e) /\ page[k].order = e.order
        <4>1. /\ page[k] \in [order: OrderId, session: Session, status: Orders!Status]
              /\ page[k] # NoPage
          BY <2>3, <3>1, <3>3 DEF Page, NoPage
        <4>2. page'[k] = [page[k] EXCEPT !.status = e.status]
          BY <3>3 DEF Received
        <4>3. /\ page'[k].order = page[k].order /\ page'[k].session = page[k].session
              /\ page'[k].status = e.status
              /\ page'[k] \in Page
          BY <2>3, <4>1, <4>2 DEF Page
        <4>. QED
          BY <2>2, <3>1, <3>3, <4>1, <4>3 DEF PageOf
      <3>. QED
        BY <2>1, <3>2, <3>3 DEF Received
    <2>5. page' \in [Checkout -> Page]
      BY <2>1, <2>4
    <2>6. \A k \in Checkout : page'[k] # NoPage => PageOf(k, page[k])'
      BY <2>1, <2>4 DEF PageOf, HandedTo, At
    <2>. QED
      BY <2>5, <2>6 DEF PagesStay, PageSound
  <1>5. ASSUME NEW k \in Checkout, NEW p \in Product, Post(k, p) PROVE PagesStay
    BY <1>1, <1>5 DEF Post
  <1>6. ASSUME NEW k \in Checkout, GotOrder(k) \/ GotProducts(k) \/ ProductMissing(k) \/ GiveUp(k)
                                   \/ WrittenTwice(k) \/ Disconnect(k) \/ Connect(k)
        PROVE  PagesStay
    BY <1>1, <1>6 DEF GotOrder, GotProducts, ProductMissing, GiveUp, WrittenTwice, Disconnect,
                      Connect
  <1>7. ASSUME NEW c \in callbacks, Report(c) \/ ReportFails(c) PROVE PagesStay
    BY <1>1, <1>7 DEF Report, ReportFails, web
  <1>8. ASSUME NEW s \in Session, CustomerPays(s) \/ SessionExpires(s) PROVE PagesStay
    BY <1>1, <1>8 DEF CustomerPays, SessionExpires, web
  <1>9. CASE RealtimeRestarts \/ OrdersRun \/ PayRuns \/ UNCHANGED vars
    BY <1>1, <1>9 DEF RealtimeRestarts, OrdersRun, PayRuns, vars, web
  <1>. QED
    BY <1>2, <1>3, <1>4, <1>5, <1>6, <1>7, <1>8, <1>9 DEF Next, Steps, Answered

-----------------------------------------------------------------------------
\* The service that pushes stays within the topic, and the orders within the
\* bound that Checkout gives them.
LEMMA WebTypedStep ==
  ASSUME Inv, [Next]_vars
  PROVE  WebTyped'
  <1>. DEFINE Rest == /\ links' \subseteq Session /\ online' \subseteq Checkout
                      /\ pushed' \in 0..Len(events') /\ webFaults' \in Nat
                      /\ Len(orders') <= MaxOrders
  <1>0. /\ WebTyped /\ FlowSound /\ OrdersInv /\ PayInv
        /\ webFaults \in Nat /\ webFaults + 1 \in Nat
        /\ Len(events) \in Nat /\ Len(events') \in Nat
        /\ Len(events) <= Len(events')
        /\ 0..Len(events) \subseteq 0..Len(events')
    <2>1. WebTyped /\ FlowSound /\ OrdersInv /\ PayInv
      BY DEF Inv
    <2>2. webFaults \in Nat /\ webFaults + 1 \in Nat
      BY <2>1 DEF WebTyped
    <2>3. Len(events) \in Nat /\ Len(events') \in Nat /\ Len(events) <= Len(events')
      BY <2>1, Kept, OrdersTypes
    <2>. QED
      BY <2>1, <2>2, <2>3
  <1>1. ASSUME UNCHANGED <<links, online, pushed>>,
               UNCHANGED webFaults \/ webFaults' = webFaults + 1,
               UNCHANGED orders
        PROVE  Rest
    BY <1>0, <1>1 DEF WebTyped
  <1>2. ASSUME NEW k \in Checkout, NEW p \in Product, Post(k, p) PROVE Rest
    BY <1>1, <1>2 DEF Post, Orders!Arrive
  <1>3. ASSUME NEW k \in Checkout, GotSession(k) PROVE Rest
    <2>1. /\ flow[k].step = "payment" /\ OrderMade(k)
          /\ UNCHANGED <<online, pushed, webFaults, orders>>
      BY <1>0, <1>3 DEF GotSession, At, FlowSound, orderVars
    <2>2. PICK r \in payReplies :
            /\ r.to = SessionRequest(k, flow[k].order).id
            /\ r.ok => links' = links \cup {r.session}
            /\ ~r.ok => UNCHANGED links
      BY <1>3 DEF GotSession, Shows
    <2>3. r.ok => r.session \in Session
      BY <1>0, <2>1, <2>2, SessionAnswer
    <2>. QED
      BY <1>0, <2>1, <2>2, <2>3 DEF WebTyped
  <1>4. ASSUME NEW k \in Checkout,
               GotOrder(k) \/ GotProducts(k) \/ ProductMissing(k) \/ GiveUp(k) \/ Leave(k)
        PROVE  Rest
    BY <1>1, <1>4 DEF GotOrder, GotProducts, ProductMissing, GiveUp, Leave, WebFault, orderVars
  <1>5. ASSUME NEW k \in Checkout, WrittenTwice(k) PROVE Rest
    BY <1>1, <1>5 DEF WrittenTwice, WebFault, Orders!Arrive, orderVars
  <1>6. ASSUME NEW k \in Checkout, Disconnect(k) \/ Connect(k) PROVE Rest
    BY <1>0, <1>6 DEF Disconnect, Connect, WebFault, WebTyped, orderVars
  <1>7. ASSUME NEW c \in callbacks, Report(c) \/ ReportFails(c) PROVE Rest
    BY <1>1, <1>7 DEF Report, ReportFails, web, Orders!Arrive, orderVars
  <1>8. ASSUME NEW s \in Session, CustomerPays(s) \/ SessionExpires(s) PROVE Rest
    BY <1>1, <1>8 DEF CustomerPays, SessionExpires, web, orderVars
  <1>9. ASSUME Push PROVE Rest
    <2>1. /\ UNCHANGED <<events, orders, links, online, webFaults>>
          /\ pushed' = pushed + 1 /\ pushed < Len(events) /\ pushed \in 0..Len(events)
      BY <1>0, <1>9 DEF Push, WebTyped, orderVars
    <2>2. pushed' \in 0..Len(events')
      BY <1>0, <2>1
    <2>. QED
      BY <1>0, <2>1, <2>2 DEF WebTyped
  <1>10. ASSUME RealtimeRestarts PROVE Rest
    BY <1>0, <1>10 DEF RealtimeRestarts, WebFault, WebTyped, orderVars
  <1>11. ASSUME OrdersRun PROVE Rest
    BY <1>0, <1>11 DEF OrdersRun, WebTyped, web
  <1>12. ASSUME PayRuns \/ UNCHANGED vars PROVE Rest
    <2>1. UNCHANGED <<links, online, pushed, webFaults, orders>>
      BY <1>12 DEF PayRuns, vars, web, orderVars
    <2>. QED
      BY <1>1, <2>1
  <1>13. Rest
    BY <1>2, <1>3, <1>4, <1>5, <1>6, <1>7, <1>8, <1>9, <1>10, <1>11, <1>12
       DEF Next, Steps, Answered
  <1>. QED
    BY <1>13, FlowStep, PageStep DEF WebTyped, PagesStay

\* Nothing has been bought yet.
LEMMA InitInv == Init => Inv
  <1>. SUFFICES ASSUME Init PROVE Inv
    OBVIOUS
  <1>1. OrdersInv /\ PayInv
    BY SameOrders, SamePay, OrdersInvariant, PayInvariant DEF Init
  <1>2. /\ requests = <<>> /\ orders = <<>> /\ events = <<>> /\ inbox = <<>> /\ sessions = <<>>
        /\ Len(requests) = 0 /\ Len(orders) = 0 /\ Len(events) = 0 /\ Len(inbox) = 0
        /\ Len(sessions) = 0
    BY DEF Init, Orders!Init, Pay!Init
  <1>3. WebTyped
    BY <1>2, SizesAssumption DEF Init, WebTyped, FlowType, Page
  <1>4. FlowSound
    BY DEF Init, FlowSound, NoFlow
  <1>5. InboxSound /\ LinksSound /\ SettledSound
    BY <1>2 DEF Init, InboxSound, LinksSound, SettledSound
  <1>6. PageSound
    BY DEF Init, PageSound
  <1>. QED
    BY <1>1, <1>3, <1>4, <1>5, <1>6 DEF Inv

\* Every step keeps the invariant.
LEMMA StepInv == Inv /\ [Next]_vars => Inv'
  <1>. SUFFICES ASSUME Inv, [Next]_vars PROVE Inv'
    OBVIOUS
  <1>. QED
    BY Kept, WebTypedStep, FlowStep, InboxStep, LinksStep, SettledStep, PageStep
       DEF Inv, PagesStay

\* The invariant of a purchase holds throughout, across the gateway, the two
\* services, Stripe and the pages (POST /orders, startPolling, updateStatus,
\* eachMessage).
THEOREM Invariance == Spec => []Inv
  BY InitInv, StepInv, PTL DEF Spec

-----------------------------------------------------------------------------
\* In a purchase the order service does only what it does on its own: whatever
\* is proved of OrderService holds here (OrderController, OrderService.updateStatus).
THEOREM RunsOrders == Spec => Orders!Spec
  <1>1. Init => Orders!Init
    BY DEF Init
  <1>. QED
    BY <1>1, OrdersStep, Invariance, PTL DEF Spec, Orders!Spec

\* And the payment service too (create-session, startPolling).
THEOREM RunsPay == Spec => Pay!Spec
  <1>1. Init => Pay!Init
    BY DEF Init
  <1>. QED
    BY <1>1, PayStep, Invariance, PTL DEF Spec, Pay!Spec

\* What each service, each handler, each page and the pushing service hold has its type.
THEOREM TypeCorrect == Spec => []TypeOK
  <1>1. ASSUME Inv PROVE TypeOK
    <2>1. OP!TypeOK /\ PP!TypeOK /\ WebTyped
      BY <1>1 DEF Inv, OrdersInv, OP!IInv, PayInv, PP!IInv
    <2>2. Orders!TypeOK
      BY <2>1 DEF OP!TypeOK, Orders!TypeOK, OP!Task, Orders!Task, OP!NoTask, Orders!NoTask,
         OP!Stage, Orders!Stage, OP!Reply, Orders!Reply, OP!Order, Orders!Order, OP!Status,
         Orders!Status, OP!Settled, Orders!Settled, OP!Event, Orders!Event, OP!Fault, Orders!Fault
    <2>3. Pay!TypeOK
      BY <2>1 DEF PP!TypeOK, Pay!TypeOK, PP!Task, Pay!Task, PP!NoTask, Pay!NoTask, PP!Reply,
         Pay!Reply, PP!StripeSession, Pay!StripeSession, PP!Callback, Pay!Callback,
         PP!Update, Pay!Update, PP!Verdict, Pay!Verdict, PP!Session, Pay!Session
    <2>. QED
      BY <2>1, <2>2, <2>3 DEF TypeOK, WebTyped, FlowType
  <1>. QED
    BY <1>1, Invariance, PTL

-----------------------------------------------------------------------------
\* Across the three services and Stripe: an order is PAID only if the session in
\* its row was made for it and is paid, and REJECTED only if that session expired;
\* and its buyer was told of every order that is PAID (startPolling,
\* OrderService.updateStatus).
THEOREM SettledTruthfully == Spec => []SettledAsStripeSays
  <1>1. ASSUME Inv PROVE SettledAsStripeSays
    <2>. SUFFICES ASSUME NEW o \in 1..Len(orders), orders[o].status # "PENDING"
                  PROVE  LET s == orders[o].session
                         IN /\ s \in DOMAIN sessions
                            /\ sessions[s].order = o
                            /\ sessions[s].status =
                                 (IF orders[o].status = "PAID" THEN "paid" ELSE "expired")
                            /\ orders[o].status = "PAID" =>
                                 \E k \in Checkout : At(k, "ok") /\ flow[k].order = o
      BY <1>1, OrdersTypes DEF SettledAsStripeSays, Inv
    <2>. DEFINE s == orders[o].session
    <2>1. EndedAs(o, s, orders[o].status)
      BY <1>1 DEF Inv, SettledSound
    <2>2. /\ s \in 1..Len(sessions) /\ s \in DOMAIN sessions /\ sessions[s].order = o
          /\ sessions[s].status = (IF orders[o].status = "PAID" THEN "paid" ELSE "expired")
      BY <1>1, <2>1, PayTypes DEF Inv, EndedAs, PP!Final
    <2>3. ASSUME orders[o].status = "PAID"
          PROVE  \E k \in Checkout : At(k, "ok") /\ flow[k].order = o
      <3>1. s \in links
        BY <1>1, <2>2, <2>3 DEF Inv, LinksSound
      <3>2. PICK k \in Checkout : HandedTo(k, s)
        BY <1>1, <3>1 DEF Inv, LinksSound
      <3>. QED
        BY <2>2, <3>2 DEF HandedTo
    <2>. QED
      BY <2>2, <2>3
  <1>. QED
    BY <1>1, Invariance, PTL

\* A page shows an order made for its click, a session made for that order, and
\* once it no longer says PENDING the status in the order's row: no interleaving,
\* redelivery or restart shows a customer the order of another (POST /orders,
\* setCurrentOrder, eachMessage of the real-time service).
THEOREM PagesTruthful == Spec => []PageTruthful
  <1>1. ASSUME Inv PROVE PageTruthful
    <2>. SUFFICES ASSUME NEW k \in Checkout, page[k] # NoPage
                  PROVE  /\ origin[page[k].order] = Asked(k).id
                         /\ orders[page[k].order].product = flow[k].product
                         /\ sessions[page[k].session].order = page[k].order
                         /\ page[k].status \in {"PENDING", orders[page[k].order].status}
      BY DEF PageTruthful
    <2>1. PageOf(k, page[k])
      BY <1>1 DEF Inv, PageSound
    <2>2. OrderMade(k)
      BY <1>1, <2>1 DEF Inv, FlowSound, PageOf, HandedTo, At
    <2>. QED
      BY <2>1, <2>2 DEF PageOf, HandedTo, OrderMade
  <1>. QED
    BY <1>1, Invariance, PTL

\* Unless a request for a session was written or taken twice, no order has two of
\* them: a customer who has paid is never told that the order is rejected, whatever
\* fails in the order service (create-session, startPolling, updateStatus).
THEOREM PaidKept == Spec => []PaidNotRejected
  <1>1. ASSUME Inv, webFaults = 0 PROVE PP!Apart(inbox)
    <2>. SUFFICES ASSUME NEW i \in 1..Len(inbox), NEW j \in 1..Len(inbox),
                         inbox[i].order = inbox[j].order
                  PROVE  i = j
      BY DEF PP!Apart
    <2>1. PICK k \in Checkout : AskedFor(k, inbox[i])
      BY <1>1 DEF Inv, InboxSound
    <2>2. PICK l \in Checkout : AskedFor(l, inbox[j])
      BY <1>1 DEF Inv, InboxSound
    <2>3. inbox[i].order = flow[k].order /\ inbox[j].order = flow[l].order
      BY <2>1, <2>2 DEF AskedFor, SessionRequest
    <2>4. k = l
      BY <2>1, <2>2, <2>3, OneClick DEF AskedFor
    <2>5. inbox[i] = inbox[j]
      BY <2>1, <2>2, <2>4 DEF AskedFor
    <2>. QED
      BY <1>1, <2>5 DEF Inv, InboxSound
  <1>2. ASSUME Inv, webFaults = 0, payFaults = 0 PROVE PP!Apart(sessions)
    BY <1>1, <1>2 DEF Inv, PayInv, PP!TakenOnce
  <1>3. ASSUME Inv, PP!Apart(sessions), NEW k \in Checkout, page[k] # NoPage,
               sessions[page[k].session].status = "paid"
        PROVE  orders[page[k].order].status # "REJECTED"
    <2>. SUFFICES ASSUME orders[page[k].order].status = "REJECTED" PROVE FALSE
      OBVIOUS
    <2>. DEFINE o == page[k].order
    <2>1. /\ page[k].session \in 1..Len(sessions)
          /\ sessions[page[k].session].order = o
          /\ o \in 1..Len(orders)
      BY <1>3 DEF Inv, PageSound, PageOf, HandedTo, FlowSound, At, OrderMade
    <2>2. EndedAs(o, orders[o].session, "REJECTED")
      BY <1>3, <2>1 DEF Inv, SettledSound
    <2>3. page[k].session = orders[o].session
      BY <1>3, <2>1, <2>2 DEF EndedAs, PP!Apart
    <2>. QED
      BY <1>3, <2>2, <2>3 DEF EndedAs, PP!Final
  <1>4. Inv => PaidNotRejected
    <2>. SUFFICES ASSUME Inv, payFaults + webFaults <= 0 PROVE
                  \A k \in Checkout :
                    page[k] # NoPage /\ sessions[page[k].session].status = "paid"
                      => orders[page[k].order].status # "REJECTED"
      BY PayTypes DEF PaidNotRejected, Inv, WebTyped
    <2>1. payFaults = 0 /\ webFaults = 0
      BY PayTypes DEF Inv, WebTyped
    <2>. QED
      BY <1>2, <1>3, <2>1
  <1>. QED
    BY <1>4, Invariance, PTL

=============================================================================

------------------------------ MODULE Checkout ------------------------------
(***************************************************************************)
(* A purchase, end to end: the storefront's page, POST /orders in the api  *)
(* gateway, the order service, the payment service with Stripe, and the    *)
(* push of the result back to the page by the real-time service.           *)
(*                                                                         *)
(* OrderService and PaymentService run here as they are. The gateway's     *)
(* KafkaClient is reduced to what Rpc promises: an answer given is received*)
(* or the caller gives up, and what it asked for may still happen.         *)
(***************************************************************************)
EXTENDS Sequences, Naturals, FiniteSets

CONSTANTS
  Checkout,        \* the clicks on Buy
  User, Product,
  Buyer,           \* the user of each click
  Catalog,         \* the products that product-service lists
  StrictEnvelope,
  Reachable,       \* the port that pages dial is one the real-time service has;
                   \* FALSE as shipped
  MaxOrders,       \* bound on the rows of the orders table
  MaxRequests,     \* bounds of OrderService and PaymentService
  MaxOrderFaults,
  MaxSessions,
  MaxPolls,
  MaxPayFaults,
  MaxWebFaults,    \* bound on the faults of the gateway, of the real-time
                   \* service and of the sockets, together
  MaxFaults        \* bound on all faults together

ASSUME CheckoutAssumption ==
  /\ Buyer \in [Checkout -> User]
  /\ Catalog \subseteq Product
  /\ StrictEnvelope \in BOOLEAN /\ Reachable \in BOOLEAN
ASSUME SizesAssumption ==
  /\ MaxOrders \in Nat /\ MaxRequests \in Nat /\ MaxSessions \in Nat
  /\ MaxPolls \in Nat \ {0}
ASSUME FaultBoundsAssumption ==
  /\ MaxOrderFaults \in [{"crash", "database", "send", "timeout"} -> Nat]
  /\ MaxPayFaults \in Nat /\ MaxWebFaults \in Nat /\ MaxFaults \in Nat

VARIABLES
  \* OrderService
  requests, position, committed, late, task, orders, origin, unsent, events,
  replies, spent,
  \* PaymentService
  inbox, payPosition, payCommitted, payTask, payReplies, sessions, active,
  intervals, safety, callbacks, updates, stopped, lost, payFaults,
  \* The gateway, the storefront, the real-time service
  flow,      \* where POST /orders is, the product asked for, the order made
  page,      \* the storefront's currentOrder, once the answer came
  links,     \* the sessions whose checkout page a customer was given
  online,    \* the pages whose socket has connected and joined its user's room
  pushed,    \* how many events the real-time service has pushed
  webFaults

OrderId == 1..MaxOrders
Session == 1..MaxSessions

\* The requests. A message id stands for a UUID: one for each call, and callback
\* n of session s makes one call.
CreateRequest(k, p) ==
  [id |-> <<"create", k, p>>, uri |-> "create", headers |-> TRUE, answer |-> TRUE,
   user |-> Buyer[k], product |-> p]
SessionRequest(k, o) ==
  [id |-> <<k, o>>, uri |-> "create-session", order |-> o, answer |-> TRUE]
StatusRequest(o, status, s, n) ==
  [id |-> <<status, o, s, n>>, uri |-> "update", headers |-> TRUE, answer |-> TRUE,
   order |-> o, status |-> status, session |-> s]

OrderMessages ==
  {CreateRequest(k, p) : k \in Checkout, p \in Product}
    \cup {StatusRequest(o, v, s, n) : o \in OrderId, v \in {"PAID", "REJECTED"},
                                      s \in Session, n \in 1..MaxPolls}
PayMessages == {SessionRequest(k, o) : k \in Checkout, o \in OrderId}

OrderIds == {m.id : m \in OrderMessages}
PayIds   == {m.id : m \in PayMessages}

Orders == INSTANCE OrderService WITH
  NoSession <- 0, Messages <- OrderMessages, MessageId <- OrderIds,
  MaxFaults <- MaxOrderFaults

Pay == INSTANCE PaymentService WITH
  Order <- OrderId, Requests <- PayMessages,
  RequestId <- PayIds, MaxFaults <- MaxPayFaults,
  position <- payPosition, committed <- payCommitted, task <- payTask,
  replies <- payReplies, faults <- payFaults

orderVars == <<requests, position, committed, late, task, orders, origin, unsent,
               events, replies, spent>>
payVars == <<inbox, payPosition, payCommitted, payTask, payReplies, sessions,
             active, intervals, safety, callbacks, updates, stopped, lost, payFaults>>
web  == <<flow, page, links, online, pushed, webFaults>>
vars == <<orderVars, payVars, web>>

Step   == {"order", "products", "payment", "ok", "notFound", "failed"}
NoFlow == [step |-> "none"]
NoPage == [order |-> 0, session |-> 0, status |-> "none"]
Page   == {NoPage} \cup [order: OrderId, session: Session, status: Orders!Status]

TypeOK ==
  /\ Orders!TypeOK
  /\ Pay!TypeOK
  /\ flow \in [Checkout -> {NoFlow} \cup [step: Step, product: Product, order: 0..MaxOrders]]
  /\ page \in [Checkout -> Page]
  /\ links \subseteq Session
  /\ online \subseteq Checkout
  /\ pushed \in 0..Len(events)
  /\ webFaults \in Nat

Init ==
  /\ Orders!Init
  /\ Pay!Init
  /\ flow = [k \in Checkout |-> NoFlow]
  /\ page = [k \in Checkout |-> NoPage]
  /\ links = {}
  /\ online = {}
  /\ pushed = 0
  /\ webFaults = 0

-----------------------------------------------------------------------------
WebFault == webFaults < MaxWebFaults /\ webFaults' = webFaults + 1

At(k, step) == flow[k].step = step
Goes(k, step, o) == flow' = [flow EXCEPT ![k].step = step, ![k].order = o]

\* The request that POST /orders made first.
Asked(k) == CreateRequest(k, flow[k].product)

\* POST /orders, as far as the first sendRequest.
Post(k, p) ==
  /\ At(k, "none")
  /\ Orders!Arrive(CreateRequest(k, p))
  /\ flow' = [flow EXCEPT ![k] = [step |-> "order", product |-> p, order |-> 0]]
  /\ UNCHANGED <<payVars, page, links, online, pushed, webFaults>>

\* The first answer to the create request: KafkaClient drops a second one.
GotOrder(k) ==
  /\ At(k, "order")
  /\ \E r \in replies :
       /\ r.to = Asked(k).id
       /\ IF r.ok THEN Goes(k, "products", r.order) ELSE Goes(k, "failed", 0)
  /\ UNCHANGED <<orderVars, payVars, page, links, online, pushed, webFaults>>

\* The product is listed, and the session asked for.
GotProducts(k) ==
  /\ At(k, "products")
  /\ flow[k].product \in Catalog
  /\ Pay!Arrive(SessionRequest(k, flow[k].order))
  /\ Goes(k, "payment", flow[k].order)
  /\ UNCHANGED <<orderVars, page, links, online, pushed, webFaults>>

\* 404 Product not found: the order that was made stays.
ProductMissing(k) ==
  /\ At(k, "products")
  /\ flow[k].product \notin Catalog
  /\ Goes(k, "notFound", flow[k].order)
  /\ UNCHANGED <<orderVars, payVars, page, links, online, pushed, webFaults>>

\* Mutant: the page trusts Stripe's redirect to its success_url.
ShowsPaid(k, s) ==
  /\ page' = [page EXCEPT ![k] = [order |-> flow[k].order, session |-> s,
                                  status |-> "PAID"]]
  /\ links' = links \cup {s}

\* setCurrentOrder and window.open.
Shows(k, s) ==
  /\ page' = [page EXCEPT ![k] = [order |-> flow[k].order, session |-> s,
                                  status |-> "PENDING"]]
  /\ links' = links \cup {s}

GotSession(k) ==
  /\ At(k, "payment")
  /\ \E r \in payReplies :
       /\ r.to = SessionRequest(k, flow[k].order).id
       /\ IF r.ok THEN Goes(k, "ok", flow[k].order) /\ Shows(k, r.session)
          ELSE Goes(k, "failed", flow[k].order) /\ UNCHANGED <<page, links>>
  /\ UNCHANGED <<orderVars, payVars, online, pushed, webFaults>>

\* Mutant: a slow call is made again, under the same message id.
AskAgain(k) ==
  /\ At(k, "payment")
  /\ Pay!Arrive(SessionRequest(k, flow[k].order))
  /\ UNCHANGED <<orderVars, flow, page, links, online, pushed, webFaults>>

\* A call times out or fails, or the gateway dies: the handler ends with a 500,
\* and what it asked for may still be done.
GiveUp(k) ==
  /\ flow[k].step \in {"order", "products", "payment"}
  /\ WebFault
  /\ Goes(k, "failed", flow[k].order)
  /\ UNCHANGED <<orderVars, payVars, page, links, online, pushed>>

\* kafkajs' producer is not idempotent: a send that it retries is written twice.
WrittenTwice(k) ==
  /\ WebFault
  /\ \/ /\ At(k, "order")
        /\ Orders!Arrive(Asked(k))
        /\ UNCHANGED payVars
     \/ /\ At(k, "payment")
        /\ Pay!Arrive(SessionRequest(k, flow[k].order))
        /\ UNCHANGED orderVars
  /\ UNCHANGED <<flow, page, links, online, pushed>>

\* The customer leaves the order page; Stripe's page stays open.
Leave(k) ==
  /\ page[k] # NoPage
  /\ WebFault
  /\ page' = [page EXCEPT ![k] = NoPage]
  /\ UNCHANGED <<orderVars, payVars, flow, links, online, pushed>>

-----------------------------------------------------------------------------
\* The payment service reports a verdict, with its own KafkaClient.
Report(c) ==
  /\ c.awaits \in Pay!Verdict
  /\ LET u == Pay!UpdateOf(c)
     IN Orders!Arrive(StatusRequest(u.order, u.status, c.session, c.n))
  /\ Pay!SendUpdate(c)
  /\ UNCHANGED web

\* It fails to, or does not know that it did.
ReportFails(c) ==
  /\ c.awaits \in Pay!Verdict
  /\ Pay!SendUpdateFails(c)
  /\ LET u == Pay!UpdateOf(c)
     IN \/ u \in updates' /\ Orders!Arrive(StatusRequest(u.order, u.status, c.session, c.n))
        \/ updates' = updates /\ UNCHANGED orderVars
  /\ UNCHANGED web

\* The customer pays on a page that was handed out.
CustomerPays(s) ==
  /\ s \in links
  /\ Pay!Becomes(s, "paid")
  /\ UNCHANGED <<orderVars, web>>

SessionExpires(s) ==
  /\ Pay!Becomes(s, "expired")
  /\ UNCHANGED <<orderVars, web>>

-----------------------------------------------------------------------------
\* A page that receives event e.
Received(p, e) == IF p.order = e.order THEN [p EXCEPT !.status = e.status] ELSE p

\* Mutant: the next offset is taken from the high watermark, which is one too far.
PushAhead ==
  /\ pushed < Len(events)
  /\ pushed' = Len(events) + 1
  /\ UNCHANGED <<orderVars, payVars, flow, page, links, online, webFaults>>

\* eachMessage: the rooms of the event's user, whose connected pages all join it,
\* and of its order.
Push ==
  /\ pushed < Len(events)
  /\ LET e == events[pushed + 1]
     IN page' = [k \in Checkout |->
                   IF k \in online /\ Buyer[k] = e.user THEN Received(page[k], e)
                   ELSE page[k]]
  /\ pushed' = pushed + 1
  /\ UNCHANGED <<orderVars, payVars, flow, links, online, webFaults>>

\* The socket of a page that is signed in connects, when it does, and joins; and so
\* it does again after it dropped. What was pushed before is gone.
Connect(k) ==
  /\ Reachable
  /\ k \notin online
  /\ online' = online \cup {k}
  /\ UNCHANGED <<orderVars, payVars, flow, page, links, pushed, webFaults>>

Disconnect(k) ==
  /\ k \in online
  /\ WebFault
  /\ online' = online \ {k}
  /\ UNCHANGED <<orderVars, payVars, flow, page, links, pushed>>

\* The real-time service restarts: every socket drops, and it reads again from
\* an offset that it had committed.
RealtimeRestarts ==
  /\ WebFault
  /\ online' = {}
  /\ pushed' \in 0..pushed
  /\ UNCHANGED <<orderVars, payVars, flow, page, links>>

-----------------------------------------------------------------------------
OrdersRun ==
  /\ Orders!Listener \/ Orders!Poll \/ Orders!Producer \/ Orders!Crash
  /\ Len(orders') <= MaxOrders
  /\ UNCHANGED <<payVars, web>>

PollReturns(c) == Pay!PollOpen(c) \/ Pay!PollFails(c) \/ \E v \in Pay!Verdict : Pay!PollEnds(c, v)

PayRuns ==
  /\ \/ Pay!Consumer \/ Pay!Commit \/ Pay!Crash
     \/ \E s \in Session : Pay!Tick(s) \/ Pay!SafetyTimeout(s)
     \/ \E c \in callbacks : PollReturns(c)
  /\ UNCHANGED <<orderVars, web>>

Answered(k) == GotOrder(k) \/ GotProducts(k) \/ ProductMissing(k) \/ GotSession(k)

\* The faults so far, everywhere: processes that died, calls that failed, records
\* that were written twice.
Faults == spent["crash"] + spent["database"] + spent["send"] + spent["timeout"]
            + payFaults + webFaults
Faulty == Faults > 0

Steps ==
  \/ \E k \in Checkout :
       \/ \E p \in Product : Post(k, p)
       \/ Answered(k) \/ GiveUp(k) \/ WrittenTwice(k)
       \/ Leave(k) \/ Connect(k) \/ Disconnect(k)
  \/ \E c \in callbacks : Report(c) \/ ReportFails(c)
  \/ \E s \in Session : CustomerPays(s) \/ SessionExpires(s)
  \/ Push \/ RealtimeRestarts
  \/ OrdersRun
  \/ PayRuns

Next == Steps /\ Faults' <= MaxFaults

Spec == Init /\ [][Next]_vars

\* Every process keeps running; Stripe is as in PaymentService. Nothing is
\* assumed of the customer, of Stripe's sessions or of the timers.
Fairness ==
  /\ WF_vars(Orders!Listener /\ UNCHANGED <<payVars, web>>)
  /\ WF_vars(Orders!Poll /\ UNCHANGED <<payVars, web>>)
  /\ WF_vars(Orders!Producer /\ UNCHANGED <<payVars, web>>)
  /\ WF_vars(Push)
  /\ \A k \in Checkout : WF_vars(Answered(k))
  /\ \A s \in Session :
       /\ WF_vars(Pay!Tick(s) /\ UNCHANGED <<orderVars, web>>)
       /\ WF_vars(\E c \in callbacks :
                    /\ c.session = s
                    /\ \/ PollReturns(c) /\ UNCHANGED <<orderVars, web>>
                       \/ Report(c) \/ ReportFails(c))
       /\ SF_vars(\E c \in callbacks, v \in Pay!Verdict :
                    /\ c.session = s
                    /\ Pay!PollEnds(c, v)
                    /\ UNCHANGED <<orderVars, web>>)

FairSpec == Spec /\ Fairness

-----------------------------------------------------------------------------
\* An order is PAID only if the session stored in its row was made for it and is
\* paid, and REJECTED only if that session expired: the three services and
\* Stripe agree (startPolling, OrderService.updateStatus). And it is never an
\* order that a POST /orders without an answer left behind, for a product that is
\* not listed or by a call that failed, or one that a redelivery made: the buyer
\* was told of every order that is PAID.
SettledAsStripeSays ==
  \A o \in DOMAIN orders :
    orders[o].status # "PENDING" =>
      LET s == orders[o].session
      IN /\ s \in DOMAIN sessions
         /\ sessions[s].order = o
         /\ sessions[s].status = (IF orders[o].status = "PAID" THEN "paid" ELSE "expired")
         /\ orders[o].status = "PAID" => \E k \in Checkout : At(k, "ok") /\ flow[k].order = o

\* What a page shows is its own: an order made for its click, a session made for
\* that order, and once it no longer says PENDING the status in the order's row
\* (POST /orders, setCurrentOrder, eachMessage of the real-time service).
PageTruthful ==
  \A k \in Checkout :
    LET p == page[k]
    IN p # NoPage =>
         /\ origin[p.order] = Asked(k).id
         /\ orders[p.order].product = flow[k].product
         /\ sessions[p.session].order = p.order
         /\ p.status \in {"PENDING", orders[p.order].status}

\* A customer who has paid is never told that the order is rejected, unless a
\* request for a session was written twice or taken twice: then two sessions share
\* one order, and the one nobody sees may expire first (create-session). What
\* fails in the order service is no excuse.
PaidNotRejected ==
  payFaults + webFaults > 0 \/ \A k \in Checkout :
    page[k] # NoPage /\ sessions[page[k].session].status = "paid"
      => orders[page[k].order].status # "REJECTED"

\* A page with a paid session, that has joined before the event of its order is
\* pushed.
Awaits(k) ==
  /\ page[k] # NoPage /\ sessions[page[k].session].status = "paid"
  /\ k \in online
  /\ \A i \in 1..pushed : events[i].order # page[k].order

\* It comes to say PAID, unless something failed or the half hour of polling
\* passed: no interleaving of the services alone loses a payment (startPolling,
\* updateStatus, emitStatusEvent, eachMessage). A page that had not joined yet is
\* not spoken of: it misses its push, and nothing makes up for that.
PaymentShown ==
  \A k \in Checkout :
    Awaits(k) ~> (page[k].status = "PAID" \/ Faulty \/ stopped # {})

\* "This page will update automatically when Stripe confirms your payment" (of a
\* page that can: it has joined, and has missed nothing).
PageUpdatesWhenPaid == \A k \in Checkout : Awaits(k) ~> (page[k].status = "PAID")

\* POST /orders: "Create order": the order is made.
PostCreatesOrder ==
  \A k \in Checkout :
    At(k, "order") ~> (\E o \in DOMAIN origin : origin[o] = Asked(k).id)
=============================================================================

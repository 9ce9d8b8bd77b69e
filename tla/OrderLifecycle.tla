--------------------------- MODULE OrderLifecycle ---------------------------
(***************************************************************************)
(* What the order service promises to the rest of the system, without its  *)
(* topics, its listener thread or its failures: an order is placed PENDING,*)
(* settles at most once, to PAID or REJECTED, and is announced on the      *)
(* real-time topic at most once, after it settled and as it settled.       *)
(***************************************************************************)
EXTENDS Sequences, Naturals

CONSTANTS
  User,       \* customers who place orders
  Product,    \* products they order
  Session,    \* Stripe checkout sessions
  NoSession   \* the null stripeSessionId of an order

VARIABLES
  orders,     \* the orders table: the order with id o is orders[o]
  events      \* the order-status-updates topic

vars == <<orders, events>>

Settled == {"PAID", "REJECTED"}
Status  == {"PENDING"} \cup Settled

\* A row of the table, and a real-time event.
Order == [user: User, product: Product, status: Status,
          session: Session \cup {NoSession}]
Event == [order: Nat \ {0}, user: User, product: Product, status: Settled]

NewOrder(u, p) ==
  [user |-> u, product |-> p, status |-> "PENDING", session |-> NoSession]

EventOf(o) ==
  [order |-> o, user |-> orders[o].user, product |-> orders[o].product,
   status |-> orders[o].status]

Announced(o) == \E i \in DOMAIN events : events[i].order = o

Init == orders = <<>> /\ events = <<>>

Place(u, p) ==
  /\ orders' = Append(orders, NewOrder(u, p))
  /\ UNCHANGED events

\* The guard is canTransitionTo: only PENDING settles.
Settle(o, status, session) ==
  /\ orders[o].status = "PENDING"
  /\ orders' = [orders EXCEPT ![o].status = status, ![o].session = session]
  /\ UNCHANGED events

Announce(o) ==
  /\ orders[o].status \in Settled
  /\ ~Announced(o)
  /\ events' = Append(events, EventOf(o))
  /\ UNCHANGED orders

Next ==
  \/ \E u \in User, p \in Product : Place(u, p)
  \/ \E o \in DOMAIN orders :
       \/ \E st \in Settled, s \in Session \cup {NoSession} : Settle(o, st, s)
       \/ Announce(o)

Spec == Init /\ [][Next]_vars

-----------------------------------------------------------------------------
\* At most one real-time event for an order: the storefront and the admin see
\* each order settle once, whatever was retried (OrderService.updateStatus).
AnnouncedOnce ==
  \A i, j \in DOMAIN events : events[i].order = events[j].order => i = j

\* Every event on the topic names an order that exists, and carries what that
\* order's row says now, its final status included (OrderService.emitStatusEvent).
AnnouncedTruthfully ==
  \A i \in DOMAIN events :
    /\ events[i].order \in DOMAIN orders
    /\ events[i] = EventOf(events[i].order)
=============================================================================

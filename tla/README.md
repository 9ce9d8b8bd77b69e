# A verification project for car-painting

car-painting is a small shop made of services that talk over Kafka: a customer
orders a product in the storefront, pays it on Stripe, and sees the order's
status change. These modules model the parts where that can go wrong between
two steps of two processes, check them with TLC on small instances, and prove
the most important results with TLAPS for every size.

## 1. The system

| part | source | state it keeps | operations |
| --- | --- | --- | --- |
| API gateway, checkout | `src/api-gateway/index.js` 407-444 | the calls it awaits | `POST /orders`: create the order, list the products, create a Stripe session |
| API gateway, routes | same, 97-402 and 447-469 | `routes` table, `dynamicRoutes`, router | CRUD, seed, reload on a Kafka event |
| Order service | `src/order-service` | `orders` table, consumer offsets, producer buffer | `/orders/create`, `/orders/update-status`, `/orders` |
| Payment service | `src/payment-service/index.js` | `activeSessions`, intervals, timers | `/payments/create-session`, polling of Stripe |
| Real-time service | `src/realtime-service/index.js` | socket rooms | pushes `order-status-updates` to the browsers |
| Storefront | `src/storefront/src/App.jsx` | `currentOrder`, its socket, its token, `localStorage` | sign in, register, sign out, buy, show the order's status |
| Product service | `src/product-service` | products (read only) | `/products` |
| User service | `src/user-service` | users | list, register events, a seed at start |
| Identity provider | `src/idp-service/index.js` | credentials, codes and tokens in Redis | register, token, refresh, one-time codes, reset, revoke |
| Authorization service | `src/authz-service/index.js` | none | evaluate a role's rule for a method and path |
| Export service | `src/export-service` | none of its own | asks for the orders, writes and uploads a file |
| common-js | `src/common-js` | `pendingRequests` and its timers | `sendRequest`, `sendResponse`, `handleResponse` |
| common-java | `src/common-java` | futures of pending requests | the same, and `RequestHandler.dispatch` |
| common-golang | `src/common-golang` | pending map, semaphore, offsets | the same, with concurrent handlers |
| Admin frontend | `src/frontend` | its token, `localStorage`, the lists it shows | sign in, sign out, fetch the orders, export them |

Every service has one request topic of one partition (`order-service-topic`,
`payment-service-topic`, ...) and, if it asks others, one response topic. A
request carries a random message id and the response topic of its sender; the
answer carries the same id. One purchase runs through

    storefront -> gateway -> order service       (create, PENDING)
                          -> product service     (list)
                          -> payment service     (Stripe session, polling starts)
    customer   -> Stripe
    payment service -> order service             (update-status: PAID or REJECTED)
    order service -> order-status-updates -> real-time service -> storefront

What is hard in it: Kafka delivers at least once; each service commits after it
handled; the order service writes its table, a reply and an event in three
steps that nothing ties together; the payment service keeps its timers in
memory and its callbacks overlap; the gateway's handler has three awaits; a
browser's socket drops; a page's handlers run beside each other around their
fetches, and the tabs of a browser share `localStorage`. The file
`PROJECT.json` lists each hazard at its line.

What makes each part correct:

- *order service*: an order settles once; what was answered OK stays true; no
  offset is committed past unanswered work; every readable request is answered;
  an order is announced at most once, as it settled.
- *request/response over Kafka*: a call settles once, with an answer given to
  it or by giving up; no entry or timer is left behind; every call settles.
- *payment service*: a verdict is what Stripe says; polling stops; a checkout
  page that was handed out is watched, or it is known why not.
- *checkout*: the order's row, Stripe and the page agree.
- *routes*: one event of the last change makes a gateway's router the table's;
  a router does not go back; a start ends, and overwrites nothing.
- *export service and Go messaging*: what may be lost of requests that goroutines
  handle out of order is bounded; a goroutine's request gets its own answer or an
  error; the producer that sends is open; every other request is answered.
- *frontends*: what a page shows is of who is signed in at it; a session that no
  page holds is revoked; who signs out is signed out.
- *identity provider and user service*: what was used up, replaced or revoked is
  refused; what was handed out works; ids are not shared; an account that was
  confirmed gets its profile.

## 2. The modules

| module | what it is |
| --- | --- |
| `OrderLifecycle` | abstract: orders are placed, settle once, are announced once |
| `OrderService` | the order service with its listener thread, topic, producer and faults; implements `OrderLifecycle` |
| `OrderServiceProofs` | its theorems |
| `Rpc` | abstract: what a caller may expect of a request over Kafka |
| `KafkaClient` | common-js' client in the processes of one consumer group; implements `Rpc` |
| `KafkaClientProofs` | its theorems, and what `Rpc` then says to a caller |
| `PaymentService` | the consumer, `create-session` and the polling of Stripe |
| `PaymentServiceProofs` | its theorems |
| `Checkout` | `POST /orders`, the page, the push; instantiates `OrderService` and `PaymentService` as they are |
| `CheckoutProofs` | its theorems, on those of the two services |
| `GatewayRoutes` | the routes table, the gateways that change, announce and read it |
| `GatewayRoutesProofs` | its theorems |
| `GoProducer` | common-golang's `Producer`: sends, health checks, reconnects, `Close` |
| `ExportService` | the export service on common-golang: `ConsumeClaim`, `dispatch`, the handler, `SendRequest`; instantiates `GoProducer`, implements `Rpc` |
| `ExportServiceProofs` | its theorems, that of its `GoProducer` among them |
| `Idp` | the identity provider, the gateway's check of tokens, the user service |
| `IdpProofs` | its theorems |
| `Frontends` | the tabs of the two frontends, the gateway's `authenticateToken` and `checkAccess`, the authorization service's rules, the identity provider's sessions |
| `FrontendsProofs` | its theorems |
| `MC*` | the instances for TLC |

### OrderService

The listener thread handles one record at a time. `task` says between which two
outside effects it is; an action runs to the next one. So `updateStatus` is
`UpdateStatus` (look up, check, save), `EmitStatusEvent` (the send, which only
buffers) and `Respond` (which waits for the broker), and a crash, which may come
in between, loses `task` and the buffer `unsent` and rewinds `position` to
`committed`. The look-up, the check and the save are one step because nothing
else writes the table: there is one listener thread and one instance. Failures
of the database and of sends happen before or after their effect. The `/orders`
handler asks two services, blocking the thread for up to 180 s each: two such
timeouts in a poll exceed `max.poll.interval.ms` and `Rejoin` follows. `origin`
is a history variable: the request each order was created for.

`StrictEnvelope` stands for Jackson's `FAIL_ON_UNKNOWN_PROPERTIES`, which is on
as shipped; `common-java`'s `Message` has no `headers` field and every
JavaScript client sends one. Everything about those clients' requests is
checked with requests the service can read (without the field in
`MCOrderService`, with the check off in `MCCheckout`): it is what the code does
once the two sides agree on the envelope. What it does as shipped is the run
`envelope`.

### KafkaClient

`stage` is where `sendRequest` is; `Register` is all that runs between
`await this.connect()` and `await producer.send`: the timer is armed, the entry
stored and the send started. A record may be in the topic before `send`
resolves, and although it rejects. The processes share one response topic and one
consumer group, as gateways do; `Rebalance` and `Crash` read again from the
committed offset.

### PaymentService

`Tick` starts an interval callback whether or not the one before came back, so
that up to `MaxPolls` of a session overlap; a callback decides on what Stripe
answered and then awaits the send of its verdict. Stripe may answer with the
session as it was (`Views`). Memory is lost by `Crash`. `stopped` and `lost`
are history variables: why a session is no longer watched.

### Checkout

Both services run as they are, their modules instantiated; the `update-status`
requests of the one are the arrivals of the other. The gateway's handler is
`flow`: one action per awaited call, and `GiveUp` for each exception. Its
KafkaClient is reduced to what `Rpc` promises, which `KafkaClient` is proved to
keep: an answer that was given is received, or the caller gives up and what it
asked for may still be done. `page` is the storefront's `currentOrder`. `online` is
the pages whose socket has connected and joined its user's room, which at the start
is none: `Connect` is that, at any time after the sign-in or never, `Disconnect` and
`RealtimeRestarts` undo it. A push reaches the pages in `online` of the event's user;
the page takes it if it is of its order. `Reachable` says whether `Connect` can happen
at all. As shipped it cannot: the real-time service listens on 3003 (`index.js:5`),
compose publishes `3004:3004` (`docker-compose.yml:167-168`) and the page dials
`localhost:3003` (`App.jsx:5`), so no page ever joins and no push reaches one. `checkout` and
`checkout_lost_payment` are checked with `Reachable = TRUE`, which is what the code
does once the ports agree; `envelope` with `FALSE`. The product service is the constant `Catalog`. The id of a request is
made of who sends it and what it says, so that a click's requests and a session's
verdicts, one per callback, are told apart; a row past `MaxOrders` is not inserted,
which bounds the instance.

### GatewayRoutes

`loadRoutesFromDB` is two steps, the database's snapshot and its installation as
the router, and a gateway may have two loads under way: the start's
(`startLoad`) and that of an event (`eventLoad`), since the consumer runs before
the start has loaded. `change` is a management call between its query and its
event. `SetPosition` is where a new consumer group finds its offset, which
nothing in the start waits for. `version` counts the changes of the table:
a snapshot's version says how old it is. A crash may come between any two steps.
`failedLoads` and `upAt` are history variables. What a route does with a request
(authentication, authorization, the permissions it forwards) is in `Frontends`.

### GoProducer and ExportService

`GoProducer` is the producer behind its atomic value: `inner` is the sarama producer
that is stored, `open` those not closed, `using` what each goroutine took for its
send. `reconnect` walks through the steps of `reconnect()`, which the
compare-and-swap lets one goroutine take; `Close` is two steps beside it. What
sarama does with a message sent through a producer that is being closed (an error,
or a panic) is external.

In `ExportService` a *task* is the goroutine that a session of the consumer group
started for a record. `Read` is the loop's look at the next record, up to the
semaphore; `Start` is the goroutine's start, its `dispatch` and its request, up to
where it waits for an answer: nothing before that blocks or is seen by others,
except the send, which is either written or fails (`RequestFails`), and so a send in
flight is one that waits. The client's own producer appears as that choice only; the
answers' producer is the instance of `GoProducer`. `Finish` marks the record and
gives its slot back. A session that ended (`Rebalance`, `End`) leaves its goroutines
running, unless the process is gone, and their marks count for nothing. `session`
counts over processes: there is one at a time, since the group has one member and
the topic one partition. A record that is `skipped` is unparsable or older than
`TimeDiffIgnore`. What the upload writes is left out.

### Idp

A call is an entry of `script`, and `stage` says which await it is at; an action is
what it does between two of them, with a step each for a query to PostgreSQL and a
command to Redis, so that calls overlap anywhere. Passwords, tokens and codes are
named by the call that issued them, and a call that presents one names that call
(`of`), which must have answered: wrong codes change nothing and are left out. The
`INSERT` of a registration is two steps, the snapshot with its `MAX` (`NextId`) and
the insertion with the table's constraints (`InsertAccount`), for nothing locks the
table between them. `key` says until when a key is in Redis, or 0 when it is not; `now` counts ticks, the
lifetimes being 1 h, 30 d, 5 min and 15 min in the code. Redis itself may drop a key
before that, any key and at any step (`EvictKey`, `EvictCode`): it runs with
`--maxmemory 64mb --maxmemory-policy allkeys-lru` and without a volume
(`docker-compose.yml:58`), and a Redis that starts empty is several such steps.
`evicted` remembers which keys went so. `initDB` runs beside the
first calls; `Fresh` scripts start with it. The gateway's `authenticateToken` is
`Verify` and `GetBlacklisted`. The user service is its seed (`CountProfiles`,
`SaveSample`) beside its listener (`CreateUser`): `events` is a set, for an event may
be taken again, and the order in which two users are saved does not matter. `spent`,
`stale`, `issued`, `evicted` and `dropped` are history variables: the requests that an answer
made void, the calls that began with one, when a call issued what it issues, the keys
that Redis dropped, and the users whose event `dispatch` gave up.

### Frontends

A handler of a page runs up to its `fetch`, which is an element of `calls`, and goes
on when the call is answered (`Handle`): `SignIn`, `Verify`, `SignUp`, `Ask` and
`SignOut` start one, `SignedIn`, `SignedUp`, `Got` and `LoggedOut` are what follows
the `await`. A call carries what its handler had in its closure when it began, the
`token` of that render above all, so an answer may come to a page whose session has
changed. `Got` includes the `handleLogout` that a 401 or 403 leads to. `stored` is
`localStorage`, per frontend, which a page reads when it is loaded (`Reload`) and
when it signs out. On the other side, `Authenticated` is `authenticateToken`,
`EvaluateRules` and `Permissions` are the authorization service's `/evaluate` and
what `checkAccess` and `createRouteHandler` make of it, `Answers` adds the export
service's own check, and `Grant`, `GrantMfa`, `Revoke` are the identity provider's
calls in one step each (`Idp` has their steps, and the lives of refresh tokens).
`Lose` is a fetch that fails while the server may still do what it asked for;
`Revoke` may also fail between the two tokens. `crossed` and `interrupted` are
history variables: the tabs whose session changed under a call in flight, and those
that were reloaded with one.

## 3. What is checked

| run | shows |
| --- | --- |
| `order_service` | under one crash, one database failure, one failed send and two timed-out calls: `RepliesTruthful`, `CommittedAnswered`, `OrdersPerDelivery`, the refinement of `OrderLifecycle`; every readable request is answered (`EveryRequestAnswered`), and only a crash, the database or a send loses an event (`OnlyFaultsLoseEvents`) |
| `order_lost_event` | **violated**: a settled order need not be announced |
| `rpc` | two calls of two processes: `PendingIffWaiting`, `EveryCallSettles`, and the refinement of `Rpc` |
| `rpc_scaled` | **violated**: an answer that was handled has reached its caller |
| `payment` | `UpdatesTruthful`, `PollingBounded`, `HandedOutIsWatched`, `PaymentReported` |
| `checkout` | with sockets that join when they do, and one fault anywhere: `SettledAsStripeSays`, `PageTruthful`, `PaidNotRejected`; without a fault, a page that has joined shows its payment (`PaymentShown`) |
| `checkout_lost_payment` | **violated**: a page that has joined updates when Stripe confirms |
| `routes` | two gateways, two failures, a crash: `RouterTracksTable`, `NothingGoesBack`, `StartEnds`, `EventGetsServed` |
| `export_service` | goroutines that mark out of order, one failure, one rebalance, shutdown or crash: `SkipsBounded`, `ProducerUsable`, `RequestAnswered`, and the refinement of `Rpc` |
| `idp` | overlapping calls, a start beside them, one failure, one key that Redis drops: `SpentRefused`, `HandedOutIsKept`, `AccountsOwned`, `AccountGetsProfile` |
| `frontends` | two tabs of the storefront, or the admin frontend's, with one failing call: `ShownIsOwn`, `SessionsEnd`, `SignOutCompletes` |
| `envelope` | **violated**: `POST /orders` creates an order |

The four violated runs are disagreements of the code with what it says of itself:

1. *Lost event* (`OrderService.java:54-57` "Emits a Kafka event for real-time
   updates"). The process dies after the save; the redelivered update is
   refused, for the order is settled; no event is ever sent.
2. *Scaled gateways* (`api-gateway/index.js:274` "other gateway instances if
   scaled"). The answers are consumed by a fixed group, the promises are kept
   per process.
3. *Late payment* (`storefront/src/App.jsx:359` "This page will update
   automatically when Stripe confirms your payment"). Polling ends after half an
   hour, Stripe's page is open for longer. The run has a page whose socket has joined
   in time, and no fault.
4. *Envelope* (`api-gateway/index.js:406` "Create order"). `headers`, above.

Behaviour worth knowing that no document contradicts: a redelivered create makes
a second order (`OrdersPerDelivery` bounds how many); a missing product or a
failed call leaves an order PENDING (`ProductMissing`, `GiveUp`); an OK reply
whose send throws is followed by an error reply to the same request
(`RespondFails`); a session created twice for one order, after a redelivery, can
reject an order that is paid (`PaidNotRejected` excludes the faults of the payment
service and of the gateway for that reason, and no fault of the order service);
a page that missed a push, because its socket had not joined yet or had dropped, stays
as it is, for nothing reads the order again (`PaymentShown` is about pages that had
joined), and as shipped every page misses every push (`Reachable`, above); a change of the routes whose event was
lost, and the routes a start seeds, reach the other routers with the next event
only; a load that the start began early may undo what an event's load installed,
and the first event's load what the start's did (the run `routes` says from
when on neither happens); a default route that was deleted comes back with the next
start of any gateway.

In Go: `RequestTimeout` ("default 180s", `config.go:14`) is never applied, and
`dispatch` hands its handlers a context without a deadline (`handler.go:103`); a
request that the order service drops therefore holds its slot of the semaphore for
ever, and `MaxConcurrency` of them stop the service (`RequestAnswered` says so).
Records that were marked past a running one are not read again after a crash
(`SkipsBounded` bounds how many below each marked one, in each session; a crash may meet
the running records of two sessions, and those whose goroutine panicked are passed
like the others). A `Close` beside a reconnect may leave the
producer it just made unclosed (`ProducerUsable` is about the time before). Two
exports of the same second write one file.

In the identity provider: a registration whose send fails answers 500 and leaves an
account without a profile, and a second try is answered 409 (`SendEventFails`); a
refresh that fails after its `DEL` has lost the session; two calls with one token or
code that overlap may both be answered (`SpentRefused` is about calls that begin
after the answer); a reset that is under way deletes a newer code
(`HandedOutIsKept` names it); a registration that comes before the seed takes the id
of a sample user, whose profile the user service's seed may put in its place
(`AccountGetsProfile` leaves those ids out, `AccountsOwned` names them), and the
samples are then never inserted. When Redis is short of memory, or starts again, a
refresh token or a code that was handed out is refused before its time, and an access
token that was revoked passes the gateway again, for as long as it would have been
good, once its blacklist entry is gone (`HandedOutIsKept` and `SpentRefused` name the
dropped key, and show that nothing else is lost with it, nor a used token, code or
password accepted again).

In the frontends: a purchase that is answered after a sign-out, or a second sign-in,
puts one user's order on the page under the next one's session (`ShownIsOwn` says
that it happens in no other way). A sign-out that ends late, a reload
meanwhile, or a second tab's sign-in drops tokens that stay good (`SessionsEnd`
names them). A sign-out whose access token has expired is refused at the gateway,
and its refresh token lives on; Redis failing counts as a bad token there, and signs
the customer out. No page ever uses a refresh token. The admin frontend's sign-in
sends no client credentials, which the identity provider answers with 401
`invalid_client`: the rest of that page is reached only with a token that is in
`localStorage` already, and its sign-out sends no refresh token. A caller without
`orders:read` would be answered 200 by the export service with an error in place
of the file; the gateway's rules never let one through (`ShownIsOwn`).

### Bounds

- `order_service`: any two records, or three of a create and its two outcomes; the
  two are chosen from those, an update back to PENDING, a list, an unknown uri
  without a response destination and a request with headers. A create, one outcome
  and a duplicate or the other outcome are the longest dependent chain of an order;
  the faults allow a redelivery of each. 131 000 states.
- `rpc`: two calls, two processes, two answers, two faults: a call settled in two
  ways, a repeated answer, and an answer to another's call. 200 000 states.
- `payment`: a session, three callbacks (one deciding, one stale, one late), two
  faults. A second session adds none: sessions share no state.
- `checkout`: one click, two products of which one is not listed, four requests to
  the order service, three rows (a create that is taken again, and once more), two
  sessions (the second after a redelivery), one fault in
  total, anywhere. A session has one callback at a time (`MaxPolls = 1`): that callbacks
  overlap is for the run `payment`. With one click and one user, the pages of two
  orders are not told apart here: that, any number of callbacks and of clicks are for
  the theorems. 170 000 states.
- `routes`: two gateways, one default route, a second change besides its seed, two
  failures of queries or sends (so that a start with two attempts gives up), one
  crash: a lost event followed by another, a load overtaken, a restart. 168 000
  states.
- `export_service`: two topics of three records, two slots, one failure and one end of a
  session: a slow record below a marked one and a third that waits for the semaphore,
  a rebalance with goroutines of two sessions. 209 000 states.
- `idp`: eleven scripts of two to four calls that race for one token, one code, one
  account or one id, three with services that start; one failure; a clock of three
  ticks with lives of 1 to 3, so that each key may expire before, between and after
  the calls. The clock does not tick in the scripts with a start, which use nothing
  that expires. One key is dropped, any of those there are: a token, a code or a blacklist
  entry. 125 000 states.
- `frontends`: two tabs of the storefront with a customer who has a one-time code and
  an administrator, or one tab of the admin frontend (they share no storage); two
  sessions, so that one follows or replaces another; four clicks, two of them in
  flight; one failing call, in runs of one storefront tab. 429 000 states.
- `MaxRequests`, `MaxSessions`, `MaxPolls`, `MaxAnswers` and the fault bounds are
  guards of the actions that would grow something without end. The theorems hold
  for all their values.

Deadlock is not checked: within these bounds the clients, and so the system, may
stop.

### Fairness

- `OrderService`: the listener thread, its container and the producer's thread
  are weakly fair: they are threads that run while the process does.
- `KafkaClient`: `producer.connect` resolves or rejects and an armed timer
  fires. Nothing is assumed of brokers or of the service asked.
- `PaymentService`: the interval fires, and calls resolve or reject. Strong
  fairness of `PollEnds` says that Stripe's answers are not stale for ever. Nothing
  is assumed of the half-hour timer.
- `GatewayRoutes`: a start and a consumer go on while the process lives. Publishing
  is not assumed to end, nor a gateway to be started again.
- `ExportService`: the claim's loop, a shutdown that began, and each goroutine with the
  answers it waits for: the order service answers what it does not ignore. Commits
  and reconnects are not assumed to happen.
- `Idp`: the user service handles each event once, and that is all. Redis need never
  drop a key.
- `Frontends`: each fetch is answered and its handler goes on. Users, faults and the
  clock are free.
- `Checkout`: that of its two services, the gateway's continuations and the push. Customers,
  session expiry, the half-hour timer and faults are never assumed to happen.
  Nor is a socket assumed to connect: `PaymentShown` speaks of a page from when it has
  joined, if its order's event is still to be pushed. It says nothing of behaviours
  with a fault: its fault-free ones are its subject, and they are in the same run.

## 4. What is proved

`tlapm` checks all of it, to the last leaf.

- `OrderServiceProofs`. The invariant is
  `IInv == TypeOK /\ EmitSound /\ EventsSound`. That an event is written once is
  not inductive: one has to know that the event being emitted, those buffered and
  those written are of distinct orders, all settled. The one being emitted is
  distinct because `UpdateStatus` needs a PENDING order, and events exist of
  settled ones only. From it: `Refinement` (`Spec => Lifecycle!Spec`),
  `NeverAnnouncedTwice`, `AnnouncementsTruthful`. `NothingSkipped` adds that the
  request being handled is the last one taken and not committed, and that all
  others taken are answered. `AnswersTruthful` rests on two action lemmas: a settled
  row never changes (`RowsStep`), and an order's request never does (`OriginStep`).
  `OrdersForDeliveries` bounds the orders of a request. The bound of `OrdersPerDelivery`
  is not inductive, for the listener may be anywhere in its log: `DeliveryInv` says
  that a request has at most one order for each copy taken since the listener last
  went back (`Times(requests, position, m)`), and one for each copy each time before
  (`Repeats`). A rejoin costs two timeouts, of which up to two are still pending
  (`late`): hence the halves.
- `KafkaClientProofs`. `IInv` adds to `TypeOK` how `owner`, `stage`, `promise`
  and `sent` agree, and `PendingIffWaiting` itself, which with these is inductive.
  `Refinement` is `Spec => Promises!Spec`, and `OutcomesTruthful` says what follows
  for a caller: what it is told was answered, to its own request.
  `OneInstanceSettles` proves, for a group of one process, what the run `rpc_scaled` refutes for two.
- `PaymentServiceProofs`. `IInv` says of each entry, callback and update what
  Stripe's session is: a callback that decided PAID has a paid session, which stays
  paid because Stripe's verdicts are final. From it: `VerdictsTruthful`,
  `PollingIsBounded`, and, with a lemma on what each step does to the sessions
  handed out, `NothingHandedOutIsDropped`. `AnswersMadeForTheirOrder` and
  `OneSessionForEach` are what `CheckoutProofs` needs of its answers: a session is
  made for the order of the request it answers, and without a fault each session
  comes from a request of its own (`TakenOnce`).
- `CheckoutProofs`. The proof is composed: `OP` and `PP` are the modules of the two
  services' theorems with `Checkout`'s constants and variables, whose assumptions are
  proved of the requests a purchase makes (`OrderRequests`, `PayRequests`). Each step
  of a purchase is a step of the order service or leaves it alone, and the same of the
  payment service; so their invariants are invariants here, and `RunsOrders` and
  `RunsPay` say that all of what they promise holds. What is left to add to `Inv` is
  what joins them: a request for a session is of the click whose order it names
  (`InboxSound`); a session that was handed out is of the order of that click, and
  only such are paid (`LinksSound`); an update that was asked for, and a settled row,
  say of their session what Stripe says (`SettledSound`, from the payment service's
  verdicts); a page shows what its click was given (`PageSound`). The row may change under a
  page, but a settled one no more (`RowsWritten` of the order service). From `Inv`: `TypeCorrect`,
  `SettledTruthfully`, `PagesTruthful`; and with `OneSessionForEach`, `PaidKept`: if
  no request for a session was written or taken twice, an order has one session, which
  is paid, and so did not expire. For any number of clicks, sessions and faults.
- `GatewayRoutesProofs`. `IInv` says that snapshots are of tables that were
  (`SnapshotsTrue`), events of changes that were made, and that the read for an event
  is as new as its change (`EventLoadsNew`). The last needs the first two: the
  event follows the change, the read follows the event. From it: `FollowsEvents` and
  `Current`, which make `TracksTable`, and `GoesForwardKeepsRows`.
- `ExportServiceProofs`. `IInv == ClaimTyped /\ InOrder /\ ReadTaken /\ RoomBelow`: a
  session starts its tasks in the order of the topic, everything read was taken or
  skipped, and at most `MaxConcurrency` of a session's tasks run, fewer below one
  that is done. From it: `CommitsCovered` and `LossBounded`, together `Skips`. `Refinement` is `Spec =>
  Promises!Spec` with `Rpc`, like the JavaScript client's, from the agreement of
  `task`, `promise`, `box` and `sent`. `AnswersProducerUsable` is about the
  instance of `GoProducer`, of which each step takes a step or leaves it alone: while
  `Close` has not been called, the stored producer is open and a reconnect leaves no
  other one open but the one it is about to close. It needs that one reconnect runs at
  a time, and holds for any set of goroutines.
- `IdpProofs`. `AccountsOwned` needs two facts more to be inductive: an account keeps
  its id (rows are inserted under names and ids that no row has, and never change
  either), and a registration that is about to send its event has the account it
  names, under the id it read (`Numbered`). From them: `OwnersKept`.
  `TypeCorrect` is more than a matter of types: a registration takes `MAX(id) + 1`, and
  ids stay within `Id` because none is above the samples' by more than there are rows
  (`IdsBounded`, a count of rows). `VoidIsRefused` has `SpentInv`: for each kind of
  request, what in the stores makes it void for ever (`Void`: a key that is gone, an
  access token that is listed for as long as it would be good, a code or a password
  that is not the stored one and is never stored again), what a call that is about to
  make something void has done already (`UnderWay`), and that a call which began with
  a void request can only be refused. Redis may drop any key meanwhile: what is void
  because a key is gone, or a code is not the stored one, stays so, and a listed token is
  listed or its entry was `evicted` (`Listed`). `HandedOutKept` has `HandedInv`: a token that
  was handed out is in Redis for its life, or was dropped by it, or a call that uses it
  has begun, for no other call deletes its key; the same of a code, which another's `forgot` or `reset` of the
  same user replaces.
- `FrontendsProofs`. `ShownIsOwn` is inductive with two facts about the calls in
  flight: whom a call is of, and what may be answered to it (`CallSound`), and that
  a call in flight still fits its tab, unless the tab was crossed (`Fits`). Sessions
  only grow and stay their user's (`Grow`). From them: `TypeCorrect`, `OwnIsShown`.
  `SessionsAreEnded` has `SessionInv`: the two frontends' sessions are apart, and what
  the storefront stores is of one session (`AppsApart`); until a call fails, crosses
  another or loses its page, a sign-out names both tokens of its tab's session, and
  finds the access token over when it is answered (`EndsSession`), and a good session
  is some page's, or on its way to one in an answer (`Held`, in `BothTokens`). What no page and no
  call holds was therefore signed out.

Assumptions: the named `ASSUME`s of the modules (message ids are distinct, bounds
are naturals, there is a process; in `Idp`, that a request for a token presents one), which
TLC evaluates in the runs. Every invariant and action property of the passing runs is
proved, and both refinements of `Rpc` and that of `OrderLifecycle`. Only model-checked is
liveness, all of it, for the prover has no `ENABLED` and no fairness:
`EveryRequestAnswered`, `OnlyFaultsLoseEvents`, `EveryCallSettles`, `PaymentReported`,
`PaymentShown`, `StartEnds`, `EventGetsServed`, `RequestAnswered`,
`AccountGetsProfile`, `SignOutCompletes`; and what the violated runs refute.

## 5. What is not modelled

- Several instances of the order service, or more than one partition.
- The first start of a consumer group: every group has a committed offset. A kafkajs
  group without one starts at the end of the topic (`fromBeginning: false`).
- `timeDiffIgnoreMs`, which drops stale requests: 0, and so off, in every service.
- A Redis that starts again from an older snapshot, which could bring back a token
  that was used: it has no volume, but its container may be restarted in place. One that
  starts empty is in `Idp`. The memory of Redis is bounded in `Idp` only: in `Frontends` a
  blacklist entry lasts as long as the token it lists.
- Events of the routes that are published before a gateway's group has its first
  position: they are not read (`SetPosition`), and `RouterTracksTable` speaks of those
  from then on.
- HTTP, the formats of messages beyond the `headers` field, prices, logging.
- `RequestHandler.js` of common-js, which no service uses; the copy of common-java
  under `common-golang`.
- In the frontends: the forms for a forgotten password (`Idp` has their requests),
  the list of products, tables and styles; the expiry of a refresh token (30 days,
  in `Idp`), and a refresh grant, which no page asks for.
- In `common-golang`, `middleware.go`, which no service uses.

## 6. Plan

Done: order service, request/response, payment service, checkout, in this order:
they are the path of a customer's money; then the gateway's routes, the export
service with the Go library, the identity provider with the user service, and the
two frontends with the authorization service.

1. `common-java`'s pending futures as a second implementation of `Rpc`.
2. Several sessions per order in `Checkout`: what a redelivered `create-session` does
   to `PaidNotRejected`, under the faults it now excludes.
3. Proofs: `KafkaClient`'s promises inside `Checkout`, so that what the gateway takes
   from `Rpc` is taken by a theorem.

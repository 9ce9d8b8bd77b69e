--------------------------- MODULE PaymentService ---------------------------
(***************************************************************************)
(* The payment service: its one Kafka consumer, the create-session handler,*)
(* and the polling of Stripe, an asynchronous interval callback for each   *)
(* session, kept in memory only. Stripe and the customer are the           *)
(* environment. An action is what the process runs between two awaits.     *)
(***************************************************************************)
EXTENDS Sequences, Naturals, FiniteSets

CONSTANTS
  Order,        \* the orders checkouts are created for
  RequestId,    \* the random UUIDs of requests
  Requests,     \* the requests the gateway may send
  MaxRequests,  \* bound on the length of payment-service-topic
  MaxSessions,  \* bound on the Stripe sessions created
  MaxPolls,     \* bound on the callbacks of one session that overlap
  MaxFaults     \* bound on crashes, failed sends and failed Stripe calls, together

\* A request with a uri that has no handler is "other".
Request == [id: RequestId, uri: {"create-session", "other"}, order: Order,
            answer: BOOLEAN]

ASSUME RequestsAssumption ==
  /\ Requests \subseteq Request
  /\ \A m, n \in Requests : m.id = n.id => m = n
ASSUME BoundsAssumption ==
  /\ MaxRequests \in Nat /\ MaxSessions \in Nat /\ MaxFaults \in Nat
  /\ MaxPolls \in Nat \ {0}

VARIABLES
  inbox,      \* payment-service-topic
  position,   \* how many of its records eachMessage has taken
  committed,  \* the group's committed offset: it has one, it is not its first start
  task,       \* the request eachMessage is in the middle of
  replies,    \* answers written to the gateway's response topic
  sessions,   \* Stripe's sessions: the one with id s is sessions[s]
  active,     \* the keys of activeSessions
  intervals,  \* the sessions whose interval runs
  safety,     \* the sessions whose 30-minute timer is armed
  callbacks,  \* the interval callbacks that are awaiting something
  updates,    \* the update-status requests written to order-service-topic
  stopped,    \* history: the sessions that the 30-minute timer gave up
  lost,       \* history: the sessions a crash or a failed update left behind
  faults

vars == <<inbox, position, committed, task, replies, sessions, active, intervals,
          safety, callbacks, updates, stopped, lost, faults>>

Session   == 1..MaxSessions
Verdict   == {"PAID", "REJECTED"}
NoTask    == [stage |-> "idle"]
Task      == {NoTask} \cup [stage: {"create", "respond", "refuse"},
                            msg: Requests, session: 0..MaxSessions]
Reply     == [to: RequestId, ok: BOOLEAN, session: 0..MaxSessions]

StripeSession == [order: Order, status: {"open", "paid", "expired"}]

\* A callback awaits Stripe ("retrieve"), or the send of its update.
Callback  == [session: Session, n: 1..MaxPolls,
              awaits: {"retrieve", "PAID", "REJECTED"}]
Update    == [order: Order, status: Verdict, session: Session]

TypeOK ==
  /\ inbox \in Seq(Requests)
  /\ position \in 0..Len(inbox)
  /\ committed \in 0..position
  /\ task \in Task
  /\ replies \subseteq Reply
  /\ sessions \in Seq(StripeSession)
  /\ Len(sessions) <= MaxSessions
  /\ active \subseteq Session
  /\ intervals \subseteq Session
  /\ safety \subseteq Session
  /\ callbacks \subseteq Callback
  /\ updates \subseteq Update
  /\ stopped \subseteq Session
  /\ lost \subseteq Session
  /\ faults \in Nat

Init ==
  /\ inbox = <<>>
  /\ position = 0
  /\ committed = 0
  /\ task = NoTask
  /\ replies = {}
  /\ sessions = <<>>
  /\ active = {}
  /\ intervals = {}
  /\ safety = {}
  /\ callbacks = {}
  /\ updates = {}
  /\ stopped = {}
  /\ lost = {}
  /\ faults = 0

-----------------------------------------------------------------------------
Fault == faults < MaxFaults /\ faults' = faults + 1

Working(stage, m, s) == [stage |-> stage, msg |-> m, session |-> s]

kafka  == <<inbox, position, committed>>
stripe == <<sessions>>
polls  == <<active, intervals, safety, callbacks, updates, stopped, lost>>

\* The gateway: a request reaches the topic, twice if its producer retries.
Arrive(m) ==
  /\ Len(inbox) < MaxRequests
  /\ inbox' = Append(inbox, m)
  /\ UNCHANGED <<position, committed, task, replies, sessions, polls, faults>>

\* eachMessage looks up the handler, and starts it.
Take ==
  /\ task = NoTask
  /\ position < Len(inbox)
  /\ position' = position + 1
  /\ LET m == inbox[position + 1]
     IN task' = IF m.uri = "create-session" THEN Working("create", m, 0)
                ELSE Working("refuse", m, 0)
  /\ UNCHANGED <<inbox, committed, replies, sessions, polls, faults>>

\* startPolling: the interval, the entry and the timer, in one callback.
StartPolling(s) ==
  /\ intervals' = intervals \cup {s}
  /\ active' = active \cup {s}
  /\ safety' = safety \cup {s}
  /\ UNCHANGED <<callbacks, updates, stopped, lost>>

NewSession(m) ==
  /\ Len(sessions) < MaxSessions
  /\ sessions' = Append(sessions, [order |-> m.order, status |-> "open"])

\* stripe.checkout.sessions.create resolves.
CreateSession ==
  /\ task.stage = "create"
  /\ NewSession(task.msg)
  /\ StartPolling(Len(sessions) + 1)
  /\ task' = Working("respond", task.msg, Len(sessions) + 1)
  /\ UNCHANGED <<kafka, replies, faults>>

\* It rejects, though Stripe may have created the session: nobody polls that one.
CreateSessionFails ==
  /\ task.stage = "create"
  /\ Fault
  /\ NewSession(task.msg) \/ UNCHANGED sessions
  /\ task' = Working("refuse", task.msg, 0)
  /\ UNCHANGED <<kafka, replies, polls>>

\* sendResponse writes nothing for a request that names no destination.
Answer(ok, s) ==
  IF task.msg.answer
  THEN replies \cup {[to |-> task.msg.id, ok |-> ok, session |-> s]}
  ELSE replies

Respond ==
  /\ task.stage = "respond"
  /\ replies' = Answer(TRUE, task.session)
  /\ task' = NoTask
  /\ UNCHANGED <<kafka, sessions, polls, faults>>

\* The send rejects, though the broker may have the answer: the inner catch
\* block answers with an error, and the session goes on being polled.
RespondFails ==
  /\ task.stage = "respond"
  /\ Fault
  /\ replies' \in {replies, Answer(TRUE, task.session)}
  /\ task' = Working("refuse", task.msg, 0)
  /\ UNCHANGED <<kafka, sessions, polls>>

RespondError ==
  /\ task.stage = "refuse"
  /\ replies' = Answer(FALSE, 0)
  /\ task' = NoTask
  /\ UNCHANGED <<kafka, sessions, polls, faults>>

\* The outer catch block logs, and the message is over.
RespondErrorFails ==
  /\ task.stage = "refuse"
  /\ Fault
  /\ replies' \in {replies, Answer(FALSE, 0)}
  /\ task' = NoTask
  /\ UNCHANGED <<kafka, sessions, polls>>

\* Mutant: the offset of the record after the last one handled.
CommitOneAhead ==
  /\ task = NoTask
  /\ committed < position
  /\ committed' = position + 1
  /\ UNCHANGED <<inbox, position, task, replies, sessions, polls, faults>>

\* kafkajs commits what eachMessage has resolved.
Commit ==
  /\ task = NoTask
  /\ committed < position
  /\ committed' = position
  /\ UNCHANGED <<inbox, position, task, replies, sessions, polls, faults>>

-----------------------------------------------------------------------------
\* Mutant: setTimeout for setInterval, and the entry deleted when it fires.
TickOnce(s) ==
  /\ s \in intervals
  /\ intervals' = intervals \ {s}
  /\ active' = active \ {s}
  /\ callbacks' = callbacks \cup {[session |-> s, n |-> 1, awaits |-> "retrieve"]}
  /\ UNCHANGED <<kafka, task, replies, sessions, safety, updates, stopped, lost, faults>>

\* The interval fires every five seconds, whether or not the callback before
\* has come back from Stripe.
Tick(s) ==
  /\ s \in intervals
  /\ \E n \in 1..MaxPolls :
       /\ \A c \in callbacks : ~(c.session = s /\ c.n = n)
       /\ \A k \in 1..(n - 1) : \E c \in callbacks : c.session = s /\ c.n = k
       /\ callbacks' = callbacks \cup {[session |-> s, n |-> n, awaits |-> "retrieve"]}
  /\ UNCHANGED <<kafka, task, replies, sessions, active, intervals, safety, updates,
                 stopped, lost, faults>>

\* What Stripe's answer may say: the session as it is, or as it was before.
Views(s) == {sessions[s].status, "open"}

\* retrieve resolves: the session is still open.
PollOpen(c) ==
  /\ c.awaits = "retrieve"
  /\ "open" \in Views(c.session)
  /\ callbacks' = callbacks \ {c}
  /\ UNCHANGED <<kafka, task, replies, sessions, active, intervals, safety, updates,
                 stopped, lost, faults>>

\* Mutant: the entry is dropped and the interval left running.
StopPollingHalf(s) == active' = active \ {s} /\ UNCHANGED intervals

\* clearInterval and activeSessions.delete.
StopPolling(s) ==
  /\ active' = active \ {s}
  /\ intervals' = intervals \ {s}

\* Mutant: a session that is not paid is taken for one that expired.
PollRejects(c, verdict) ==
  verdict = IF "paid" \in Views(c.session) THEN "PAID" ELSE "REJECTED"

\* The branch a callback takes on Stripe's answer.
PollDecides(c, verdict) ==
  \/ verdict = "PAID" /\ "paid" \in Views(c.session)
  \/ verdict = "REJECTED" /\ "expired" \in Views(c.session)

\* It is paid, or it expired: polling stops first, then the update is sent.
PollEnds(c, verdict) ==
  /\ c.awaits = "retrieve"
  /\ PollDecides(c, verdict)
  /\ StopPolling(c.session)
  /\ callbacks' = (callbacks \ {c}) \cup {[c EXCEPT !.awaits = verdict]}
  /\ UNCHANGED <<kafka, task, replies, sessions, safety, updates, stopped, lost,
                 faults>>

\* Mutant: an error of Stripe ends the polling.
PollFailsForGood(c) ==
  /\ c.awaits = "retrieve"
  /\ Fault
  /\ StopPolling(c.session)
  /\ callbacks' = callbacks \ {c}
  /\ UNCHANGED <<kafka, task, replies, sessions, safety, updates, stopped, lost>>

\* retrieve rejects: logged, and the interval goes on.
PollFails(c) ==
  /\ c.awaits = "retrieve"
  /\ Fault
  /\ callbacks' = callbacks \ {c}
  /\ UNCHANGED <<kafka, task, replies, sessions, active, intervals, safety, updates,
                 stopped, lost>>

UpdateOf(c) ==
  [order |-> sessions[c.session].order, status |-> c.awaits, session |-> c.session]

\* sendRequest writes the update. Nothing depends on the answer to it: an error
\* or a timeout is logged by the catch block, and the update is not sent again.
SendUpdate(c) ==
  /\ c.awaits \in Verdict
  /\ callbacks' = callbacks \ {c}
  /\ updates' = updates \cup {UpdateOf(c)}
  /\ UNCHANGED <<kafka, task, replies, sessions, active, intervals, safety, stopped,
                 lost, faults>>

\* It rejects at once, though the broker may have the update.
SendUpdateFails(c) ==
  /\ c.awaits \in Verdict
  /\ Fault
  /\ callbacks' = callbacks \ {c}
  /\ updates' \in {updates, updates \cup {UpdateOf(c)}}
  /\ lost' = lost \cup {c.session}
  /\ UNCHANGED <<kafka, task, replies, sessions, active, intervals, safety, stopped>>

\* The 30-minute timer.
SafetyTimeout(s) ==
  /\ s \in safety
  /\ safety' = safety \ {s}
  /\ IF s \in active
     THEN StopPolling(s) /\ stopped' = stopped \cup {s}
     ELSE UNCHANGED <<active, intervals, stopped>>
  /\ UNCHANGED <<kafka, task, replies, sessions, callbacks, updates, lost, faults>>

\* The process dies and starts again: every timer and entry is lost.
Crash ==
  /\ Fault
  /\ position' = committed
  /\ task' = NoTask
  /\ lost' = lost \cup intervals \cup {c.session : c \in callbacks}
  /\ active' = {} /\ intervals' = {} /\ safety' = {} /\ callbacks' = {}
  /\ UNCHANGED <<inbox, committed, replies, sessions, updates, stopped>>

-----------------------------------------------------------------------------
\* Stripe: the customer pays, or the session expires. Either is final.
Becomes(s, status) ==
  /\ s \in DOMAIN sessions
  /\ sessions[s].status = "open"
  /\ sessions' = [sessions EXCEPT ![s].status = status]
  /\ UNCHANGED <<kafka, task, replies, polls, faults>>

Consumer ==
  \/ Take
  \/ CreateSession \/ CreateSessionFails
  \/ Respond \/ RespondFails \/ RespondError \/ RespondErrorFails

Resolves(c) ==
  \/ PollOpen(c) \/ PollFails(c)
  \/ \E v \in Verdict : PollEnds(c, v)
  \/ SendUpdate(c) \/ SendUpdateFails(c)

Next ==
  \/ \E m \in Requests : Arrive(m)
  \/ Consumer
  \/ Commit
  \/ \E s \in Session : Tick(s) \/ SafetyTimeout(s)
  \/ \E c \in callbacks : Resolves(c)
  \/ Crash
  \/ \E s \in Session : Becomes(s, "paid") \/ Becomes(s, "expired")

Spec == Init /\ [][Next]_vars

\* The interval fires again and again, and calls to Stripe and sends resolve or
\* reject. Stripe's answers are not stale for ever: a session that stays paid, and
\* is asked about again and again, is in the end seen to be paid.
Fairness ==
  \A s \in Session :
    /\ WF_vars(Tick(s))
    /\ WF_vars(\E c \in callbacks : c.session = s /\ Resolves(c))
    /\ SF_vars(\E c \in callbacks, v \in Verdict : c.session = s /\ PollEnds(c, v))

FairSpec == Spec /\ Fairness

-----------------------------------------------------------------------------
Reported(s, status) ==
  \E u \in updates : u.session = s /\ u.status = status

\* The order service is told of a session only what Stripe says of it, and of
\* the order it was created for: never PAID and REJECTED both, however the
\* callbacks overlap (startPolling).
UpdatesTruthful ==
  \A u \in updates :
    /\ u.session \in DOMAIN sessions
    /\ u.order = sessions[u.session].order
    /\ u.status = "PAID" <=> sessions[u.session].status = "paid"
    /\ u.status = "REJECTED" <=> sessions[u.session].status = "expired"

\* An interval runs exactly as long as its entry is in activeSessions, and has
\* a 30-minute timer that will stop it (startPolling).
PollingBounded == active = intervals /\ intervals \subseteq safety

\* A checkout page handed to a customer is watched until its session is over or
\* its half hour has passed, unless the process died meanwhile or the one attempt
\* to send the verdict failed (create-session, startPolling).
HandedOutIsWatched ==
  \A r \in replies :
    r.ok => \/ r.session \in intervals
            \/ \E c \in callbacks : c.session = r.session /\ c.awaits \in Verdict
            \/ \E v \in Verdict : Reported(r.session, v)
            \/ r.session \in stopped \cup lost

\* A payment is reported to the order service, unless the half hour passed first,
\* the process died or the one attempt to report it failed (startPolling).
PaymentReported ==
  \A s \in Session :
    (s \in intervals /\ sessions[s].status = "paid")
      ~> (Reported(s, "PAID") \/ s \in stopped \cup lost)
=============================================================================

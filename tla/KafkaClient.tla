----------------------------- MODULE KafkaClient -----------------------------
(***************************************************************************)
(* common-js KafkaClient in the processes that share one node id, and so   *)
(* one response topic and one consumer group: sendRequest with its pending *)
(* map, its timer and its producer.send, and handleResponse.               *)
(*                                                                         *)
(* Node runs one callback at a time: an action is what runs between two    *)
(* awaits.                                                                 *)
(***************************************************************************)
EXTENDS Sequences, Naturals

CONSTANTS
  Request,       \* calls of sendRequest: one random message id each
  Instance,      \* the processes that run the client
  NoInstance,
  MaxAnswers,    \* bound on the length of the response topic
  MaxFaults      \* bound on crashes, rebalances and failures to send, together

ASSUME InstanceAssumption == NoInstance \notin Instance /\ Instance # {}
ASSUME BoundsAssumption == MaxAnswers \in Nat /\ MaxFaults \in Nat

VARIABLES
  owner,      \* the process that made each call
  stage,      \* what the body of sendRequest is awaiting
  promise,    \* what the caller of sendRequest sees
  pending,    \* each process's pendingRequests, by message id
  timers,     \* the calls whose timeout is armed
  connected,  \* the processes whose _isConnected is set
  sent,       \* the requests that are in the topic of the service asked
  responses,  \* the shared response topic, a log
  assigned,   \* the process its one partition is assigned to
  position,   \* how many of its records were handled
  committed,  \* the group's committed offset: it has one, it is not its first start
  faults

vars == <<owner, stage, promise, pending, timers, connected, sent, responses,
          assigned, position, committed, faults>>

Outcome == {"ok", "error", "timeout", "failed", "gone"}
Answer  == [to: Request, ok: BOOLEAN]

TypeOK ==
  /\ owner \in [Request -> Instance \cup {NoInstance}]
  /\ stage \in [Request -> {"idle", "connecting", "sending", "done"}]
  /\ promise \in [Request -> {"none", "pending"} \cup Outcome]
  /\ pending \in [Instance -> SUBSET Request]
  /\ timers \subseteq Request
  /\ connected \subseteq Instance
  /\ sent \subseteq Request
  /\ responses \in Seq(Answer)
  /\ assigned \in Instance
  /\ position \in 0..Len(responses)
  /\ committed \in 0..position
  /\ faults \in Nat

Init ==
  /\ owner = [r \in Request |-> NoInstance]
  /\ stage = [r \in Request |-> "idle"]
  /\ promise = [r \in Request |-> "none"]
  /\ pending = [i \in Instance |-> {}]
  /\ timers = {}
  /\ connected = {}
  /\ sent = {}
  /\ responses = <<>>
  /\ assigned \in Instance
  /\ position = 0
  /\ committed = 0
  /\ faults = 0

-----------------------------------------------------------------------------
Fault == faults < MaxFaults /\ faults' = faults + 1

\* resolve and reject: a promise that is settled stays as it is.
Settle(r, outcome) ==
  promise' = IF promise[r] = "pending" THEN [promise EXCEPT ![r] = outcome]
             ELSE promise

\* clearTimeout and pendingRequests.delete.
Forget(r) ==
  /\ timers' = timers \ {r}
  /\ pending' = [pending EXCEPT ![owner[r]] = @ \ {r}]

\* sendRequest as far as "await this.connect()".
Call(i, r) ==
  /\ promise[r] = "none"
  /\ owner' = [owner EXCEPT ![r] = i]
  /\ stage' = [stage EXCEPT ![r] = "connecting"]
  /\ promise' = [promise EXCEPT ![r] = "pending"]
  /\ UNCHANGED <<pending, timers, connected, sent, responses, assigned, position,
                 committed, faults>>

\* The producer is connected: the timer is armed, the entry stored, and
\* producer.send started, all in one callback.
Register(r) ==
  /\ stage[r] = "connecting"
  /\ connected' = connected \cup {owner[r]}
  /\ timers' = timers \cup {r}
  /\ pending' = [pending EXCEPT ![owner[r]] = @ \cup {r}]
  /\ stage' = [stage EXCEPT ![r] = "sending"]
  /\ UNCHANGED <<owner, promise, sent, responses, assigned, position, committed,
                 faults>>

\* producer.connect rejects: so does sendRequest, before it stores anything.
ConnectFails(r) ==
  /\ stage[r] = "connecting"
  /\ owner[r] \notin connected
  /\ Fault
  /\ stage' = [stage EXCEPT ![r] = "done"]
  /\ Settle(r, "failed")
  /\ UNCHANGED <<owner, pending, timers, connected, sent, responses, assigned,
                 position, committed>>

\* The broker appends the record; the producer does not know yet.
BrokerAppends(r) ==
  /\ stage[r] = "sending"
  /\ r \notin sent
  /\ sent' = sent \cup {r}
  /\ UNCHANGED <<owner, stage, promise, pending, timers, connected, responses,
                 assigned, position, committed, faults>>

\* producer.send resolves.
SendResolves(r) ==
  /\ stage[r] = "sending"
  /\ r \in sent
  /\ stage' = [stage EXCEPT ![r] = "done"]
  /\ UNCHANGED <<owner, promise, pending, timers, connected, sent, responses,
                 assigned, position, committed, faults>>

\* Mutant: the catch block rejects, and leaves the entry and the timer.
SendRejectsOnly(r) ==
  /\ stage[r] = "sending"
  /\ Fault
  /\ stage' = [stage EXCEPT ![r] = "done"]
  /\ Settle(r, "failed")
  /\ UNCHANGED <<owner, pending, timers, connected, sent, responses, assigned,
                 position, committed>>

\* producer.send rejects, though the record may be in the topic: the catch block.
SendRejects(r) ==
  /\ stage[r] = "sending"
  /\ Fault
  /\ stage' = [stage EXCEPT ![r] = "done"]
  /\ Forget(r)
  /\ Settle(r, "failed")
  /\ UNCHANGED <<owner, connected, sent, responses, assigned, position, committed>>

\* Mutant: the callback of the timer deletes the entry and forgets the promise.
TimeoutUnreported(r) ==
  /\ r \in timers
  /\ Forget(r)
  /\ UNCHANGED <<owner, stage, promise, connected, sent, responses, assigned,
                 position, committed, faults>>

\* The callback of the timer.
Timeout(r) ==
  /\ r \in timers
  /\ Forget(r)
  /\ Settle(r, "timeout")
  /\ UNCHANGED <<owner, stage, connected, sent, responses, assigned, position,
                 committed, faults>>

\* The service asked: it answers a request that it has. One that takes the
\* request twice answers twice, perhaps differently.
Serve(a) ==
  /\ Len(responses) < MaxAnswers
  /\ a.to \in sent
  /\ responses' = Append(responses, a)
  /\ UNCHANGED <<owner, stage, promise, pending, timers, connected, sent, assigned,
                 position, committed, faults>>

\* Mutant: an error response fulfils the promise.
NotUnwrapped(a) == "ok"

\* _unwrapResponse: a response with a status code is the other side's error.
Unwrapped(a) == IF a.ok THEN "ok" ELSE "error"

\* eachMessage with handleResponse, in the process that has the partition.
HandleResponse ==
  /\ position < Len(responses)
  /\ LET a == responses[position + 1]
     IN IF a.to \in pending[assigned]
        THEN Forget(a.to) /\ Settle(a.to, Unwrapped(a))
        ELSE UNCHANGED <<pending, timers, promise>>
  /\ position' = position + 1
  /\ UNCHANGED <<owner, stage, connected, sent, responses, assigned, committed,
                 faults>>

\* Mutant: the offset of the record after the last one handled.
CommitOneAhead ==
  /\ committed < position
  /\ committed' = position + 1
  /\ UNCHANGED <<owner, stage, promise, pending, timers, connected, sent, responses,
                 assigned, position, faults>>

\* kafkajs commits the offsets of the records that eachMessage has handled.
Commit ==
  /\ committed < position
  /\ committed' = position
  /\ UNCHANGED <<owner, stage, promise, pending, timers, connected, sent, responses,
                 assigned, position, faults>>

\* The group moves the partition, and reads again from the committed offset.
Rebalance(i) ==
  /\ Fault
  /\ assigned' = i
  /\ position' = committed
  /\ UNCHANGED <<owner, stage, promise, pending, timers, connected, sent, responses,
                 committed>>

\* A process dies: its map, its timers and its callers' connections with it. The
\* group gives the partition to a process that runs, this one once restarted.
Crash(i) ==
  /\ Fault
  /\ LET mine == {r \in Request : owner[r] = i}
     IN /\ stage' = [r \in Request |-> IF r \in mine THEN "done" ELSE stage[r]]
        /\ promise' = [r \in Request |-> IF r \in mine /\ promise[r] = "pending"
                                         THEN "gone" ELSE promise[r]]
        /\ timers' = timers \ mine
  /\ pending' = [pending EXCEPT ![i] = {}]
  /\ connected' = connected \ {i}
  /\ IF assigned = i THEN assigned' \in Instance /\ position' = committed
     ELSE UNCHANGED <<assigned, position>>
  /\ UNCHANGED <<owner, sent, responses, committed>>

-----------------------------------------------------------------------------
Sending(r) ==
  \/ Register(r) \/ ConnectFails(r)
  \/ BrokerAppends(r) \/ SendResolves(r) \/ SendRejects(r)

Next ==
  \/ \E r \in Request :
       \/ \E i \in Instance : Call(i, r)
       \/ Sending(r)
       \/ Timeout(r)
  \/ \E a \in Answer : Serve(a)
  \/ HandleResponse
  \/ Commit
  \/ \E i \in Instance : Rebalance(i) \/ Crash(i)

Spec == Init /\ [][Next]_vars

\* producer.connect resolves or rejects, and an armed timer fires: nothing is
\* assumed of the broker, of the service asked or of the consumer.
Fairness ==
  \A r \in Request :
    /\ WF_vars(Register(r) \/ ConnectFails(r))
    /\ WF_vars(Timeout(r))

FairSpec == Spec /\ Fairness

-----------------------------------------------------------------------------
\* The answers in the response topic.
Given == {responses[k] : k \in DOMAIN responses}

\* What it promises its callers.
Promises == INSTANCE Rpc WITH answers <- Given
ImplementsRpc == Promises!Spec

\* A call that was started and is not settled has its entry and its timer, in
\* its own process, and nothing else has: no entry leaks, and no call waits
\* without a timer (sendRequest, handleResponse).
PendingIffWaiting ==
  \A r \in Request :
    /\ promise[r] = "pending" /\ stage[r] # "connecting"
         <=> \E i \in Instance : r \in pending[i]
    /\ r \in timers <=> \E i \in Instance : r \in pending[i]
    /\ \A i \in Instance : r \in pending[i] => owner[r] = i

\* When the record of an answer has been handled, its caller no longer waits.
\* Not so in a group of several processes: the one that has the partition
\* drops the answers to the others (handleResponse).
HandledMeansSettled ==
  \A k \in 1..position : promise[responses[k].to] # "pending"

\* Every call settles, whatever the broker and the other side do
\* (KafkaConfig.requestTimeoutMs).
EveryCallSettles ==
  \A r \in Request : (promise[r] = "pending") ~> (promise[r] \in Outcome)
=============================================================================

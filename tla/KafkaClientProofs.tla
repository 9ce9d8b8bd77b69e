-------------------------- MODULE KafkaClientProofs --------------------------
(***************************************************************************)
(* Proofs about KafkaClient, for any calls, any processes and any bounds.  *)
(***************************************************************************)
EXTENDS KafkaClient, SequenceTheorems, TLAPS

\* A call has an owner once it was started, and is not awaiting the connection
\* once it is settled.
CallsSound ==
  \A r \in Request :
    /\ promise[r] = "none" <=> stage[r] = "idle"
    /\ owner[r] = NoInstance <=> stage[r] = "idle"
    /\ stage[r] = "connecting" => promise[r] = "pending"

\* A request in the topic was registered before.
SentSound == \A r \in sent : stage[r] \in {"sending", "done"}

IInv == TypeOK /\ CallsSound /\ SentSound /\ PendingIffWaiting

-----------------------------------------------------------------------------
\* PendingIffWaiting, said of the process that made the call.
LEMMA PendingOfOwner ==
  ASSUME IInv, NEW r \in Request
  PROVE  /\ stage[r] # "idle" => owner[r] \in Instance
         /\ r \in timers <=> (promise[r] = "pending" /\ stage[r] # "connecting")
         /\ \A i \in Instance : r \in pending[i] <=> (r \in timers /\ i = owner[r])
  BY DEF IInv, TypeOK, CallsSound, PendingIffWaiting

\* The other direction: the shape of PendingOfOwner gives PendingIffWaiting.
LEMMA OwnerGivesPending ==
  ASSUME \A r \in Request :
           /\ r \in timers => owner[r] \in Instance
           /\ r \in timers <=> (promise[r] = "pending" /\ stage[r] # "connecting")
           /\ \A i \in Instance : r \in pending[i] <=> (r \in timers /\ i = owner[r])
  PROVE  PendingIffWaiting
  BY DEF PendingIffWaiting

\* Clearing a call's timer and entry clears nothing else.
LEMMA ForgetEffect ==
  ASSUME IInv, NEW r \in Request, stage[r] # "idle", Forget(r)
  PROVE  /\ timers' \subseteq Request
         /\ pending' \in [Instance -> SUBSET Request]
         /\ \A q \in Request :
              /\ q \in timers' <=> (q \in timers /\ q # r)
              /\ \A i \in Instance : q \in pending'[i] <=> (q \in timers' /\ i = owner[q])
  <1>1. owner[r] \in Instance
    BY PendingOfOwner
  <1>. QED
    BY <1>1, PendingOfOwner DEF Forget, IInv, TypeOK

\* Settling a call settles that call, and no other.
LEMMA SettleEffect ==
  ASSUME IInv, NEW r \in Request, NEW o \in Outcome, Settle(r, o)
  PROVE  /\ promise' \in [Request -> {"none", "pending"} \cup Outcome]
         /\ \A q \in Request : q # r => promise'[q] = promise[q]
         /\ promise'[r] # "pending"
         /\ promise'[r] = "none" <=> promise[r] = "none"
         /\ promise[r] # "pending" => promise' = promise
         /\ promise[r] = "pending" => promise'[r] = o
  BY DEF Settle, IInv, TypeOK, Outcome

\* The next record of the response topic is an answer to a call.
LEMMA NextAnswer ==
  ASSUME TypeOK, position < Len(responses)
  PROVE  /\ responses[position + 1] \in Answer
         /\ responses[position + 1].to \in Request
         /\ Unwrapped(responses[position + 1]) \in Outcome
  <1>1. position + 1 \in 1..Len(responses)
    BY DEF TypeOK
  <1>2. responses[position + 1] \in Answer
    BY <1>1 DEF TypeOK
  <1>. QED
    BY <1>2 DEF Answer, Unwrapped, Outcome

\* The invariant holds at the start.
LEMMA InitInv == Init => IInv
  BY DEF Init, IInv, TypeOK, CallsSound, SentSound, PendingIffWaiting

\* Every step preserves the invariant.
LEMMA StepInv == IInv /\ [Next]_vars => IInv'
  <1>. SUFFICES ASSUME IInv, [Next]_vars PROVE IInv'
    OBVIOUS
  <1>0. TypeOK /\ CallsSound /\ SentSound /\ PendingIffWaiting
    BY DEF IInv
  <1>1. ASSUME NEW i \in Instance, NEW r \in Request, Call(i, r) PROVE IInv'
    <2>1. TypeOK'
      BY <1>0, <1>1 DEF Call, TypeOK
    <2>2. CallsSound' /\ SentSound'
      BY <1>0, <1>1, InstanceAssumption DEF Call, TypeOK, CallsSound, SentSound
    <2>3. stage[r] = "idle" /\ promise[r] = "none"
      BY <1>0, <1>1 DEF Call, CallsSound
    <2>4. PendingIffWaiting'
      BY <1>0, <1>1, <2>3, PendingOfOwner DEF Call, TypeOK, PendingIffWaiting
    <2>. QED
      BY <2>1, <2>2, <2>4 DEF IInv
  <1>2. ASSUME NEW r \in Request, Register(r) PROVE IInv'
    <2>1. owner[r] \in Instance /\ promise[r] = "pending"
      BY <1>0, <1>2, PendingOfOwner DEF Register, CallsSound
    <2>2. TypeOK'
      BY <1>0, <1>2, <2>1 DEF Register, TypeOK
    <2>3. CallsSound' /\ SentSound'
      BY <1>0, <1>2 DEF Register, TypeOK, CallsSound, SentSound
    <2>4. \A q \in Request, i \in Instance :
            q \in pending'[i] <=> (q \in timers' /\ i = owner'[q])
      BY <1>0, <1>2, <2>1, PendingOfOwner DEF Register, TypeOK
    <2>5. \A q \in Request :
            q \in timers' <=> (promise'[q] = "pending" /\ stage'[q] # "connecting")
      BY <1>0, <1>2, <2>1, PendingOfOwner DEF Register, TypeOK
    <2>6. \A q \in Request : q \in timers' => owner'[q] \in Instance
      BY <1>0, <1>2, <2>1, PendingOfOwner DEF Register, TypeOK, CallsSound
    <2>7. PendingIffWaiting'
      BY <2>4, <2>5, <2>6 DEF PendingIffWaiting
    <2>. QED
      BY <2>2, <2>3, <2>7 DEF IInv
  <1>3. ASSUME NEW r \in Request, ConnectFails(r) PROVE IInv'
    <2>1. /\ promise[r] = "pending" /\ r \notin timers
          /\ promise' = [promise EXCEPT ![r] = "failed"]
          /\ faults' \in Nat
      BY <1>0, <1>3, PendingOfOwner DEF ConnectFails, CallsSound, Settle, Fault, TypeOK
    <2>2. TypeOK'
      BY <1>0, <1>3, <2>1 DEF ConnectFails, TypeOK, Outcome
    <2>3. CallsSound' /\ SentSound'
      BY <1>0, <1>3, <2>1 DEF ConnectFails, TypeOK, CallsSound, SentSound
    <2>4. PendingIffWaiting'
      BY <1>0, <1>3, <2>1, PendingOfOwner DEF ConnectFails, TypeOK, PendingIffWaiting
    <2>. QED
      BY <2>2, <2>3, <2>4 DEF IInv
  <1>4. ASSUME NEW r \in Request, BrokerAppends(r) PROVE IInv'
    BY <1>0, <1>4 DEF BrokerAppends, IInv, TypeOK, CallsSound, SentSound, PendingIffWaiting
  <1>5. ASSUME NEW r \in Request, SendResolves(r) PROVE IInv'
    <2>1. TypeOK' /\ CallsSound' /\ SentSound'
      BY <1>0, <1>5 DEF SendResolves, TypeOK, CallsSound, SentSound
    <2>2. PendingIffWaiting'
      BY <1>0, <1>5 DEF SendResolves, TypeOK, PendingIffWaiting
    <2>. QED
      BY <2>1, <2>2 DEF IInv
  <1>6. ASSUME NEW r \in Request, SendRejects(r) PROVE IInv'
    <2>1. /\ stage[r] = "sending" /\ stage' = [stage EXCEPT ![r] = "done"]
          /\ Forget(r) /\ Settle(r, "failed") /\ faults' \in Nat
          /\ UNCHANGED <<owner, connected, sent, responses, assigned, position, committed>>
      BY <1>0, <1>6 DEF SendRejects, Fault, TypeOK
    <2>2. TypeOK'
      BY <1>0, <2>1, ForgetEffect, SettleEffect DEF TypeOK, Outcome
    <2>3. CallsSound' /\ SentSound'
      BY <1>0, <2>1, SettleEffect DEF TypeOK, CallsSound, SentSound, Outcome
    <2>4. PendingIffWaiting'
      BY <1>0, <2>1, ForgetEffect, SettleEffect, PendingOfOwner
         DEF TypeOK, PendingIffWaiting, Outcome
    <2>. QED
      BY <2>2, <2>3, <2>4 DEF IInv
  <1>7. ASSUME NEW r \in Request, Timeout(r) PROVE IInv'
    <2>1. /\ stage[r] \notin {"idle", "connecting"}
          /\ Forget(r) /\ Settle(r, "timeout")
          /\ UNCHANGED <<owner, stage, connected, sent, responses, assigned, position,
                         committed, faults>>
      BY <1>0, <1>7, PendingOfOwner DEF Timeout, CallsSound
    <2>2. TypeOK'
      BY <1>0, <2>1, ForgetEffect, SettleEffect DEF TypeOK, Outcome
    <2>3. CallsSound' /\ SentSound'
      BY <1>0, <2>1, SettleEffect DEF CallsSound, SentSound, Outcome
    <2>4. PendingIffWaiting'
      BY <1>0, <2>1, ForgetEffect, SettleEffect, PendingOfOwner DEF PendingIffWaiting, Outcome
    <2>. QED
      BY <2>2, <2>3, <2>4 DEF IInv
  <1>8. ASSUME NEW a \in Answer, Serve(a) PROVE IInv'
    <2>1. responses' \in Seq(Answer) /\ Len(responses') = Len(responses) + 1
      BY <1>0, <1>8, AppendProperties DEF Serve, TypeOK
    <2>. QED
      BY <1>0, <1>8, <2>1 DEF Serve, IInv, TypeOK, CallsSound, SentSound, PendingIffWaiting
  <1>9. CASE HandleResponse
    <2> DEFINE a == responses[position + 1]
    <2>1. a \in Answer /\ a.to \in Request /\ Unwrapped(a) \in Outcome
      BY <1>0, <1>9, NextAnswer DEF HandleResponse
    <2>2. CASE a.to \notin pending[assigned]
      BY <1>0, <1>9, <2>2
         DEF HandleResponse, IInv, TypeOK, CallsSound, SentSound, PendingIffWaiting
    <2>3. CASE a.to \in pending[assigned]
      <3>1. PICK r \in Request : r = a.to
        BY <2>1
      <3>2. PICK o \in Outcome : o = Unwrapped(a)
        BY <2>1
      <3>3. /\ stage[r] \notin {"idle", "connecting"}
            /\ Forget(r) /\ Settle(r, o)
            /\ position' = position + 1 /\ position < Len(responses)
            /\ UNCHANGED <<owner, stage, connected, sent, responses, assigned, committed,
                           faults>>
        BY <1>0, <1>9, <2>3, <3>1, <3>2, PendingOfOwner
           DEF HandleResponse, TypeOK, CallsSound
      <3>4. TypeOK'
        BY <1>0, <3>3, ForgetEffect, SettleEffect DEF TypeOK
      <3>5. CallsSound' /\ SentSound'
        BY <1>0, <3>3, SettleEffect DEF CallsSound, SentSound
      <3>6. PendingIffWaiting'
        BY <1>0, <3>3, ForgetEffect, SettleEffect, PendingOfOwner DEF PendingIffWaiting
      <3>. QED
        BY <3>4, <3>5, <3>6 DEF IInv
    <2>. QED
      BY <2>2, <2>3
  <1>10. CASE Commit
    BY <1>0, <1>10 DEF Commit, IInv, TypeOK, CallsSound, SentSound, PendingIffWaiting
  <1>11. ASSUME NEW i \in Instance, Rebalance(i) PROVE IInv'
    BY <1>0, <1>11
       DEF Rebalance, Fault, IInv, TypeOK, CallsSound, SentSound, PendingIffWaiting
  <1>12. ASSUME NEW i \in Instance, Crash(i) PROVE IInv'
    <2>1. TypeOK'
      BY <1>0, <1>12 DEF Crash, Fault, TypeOK, Outcome
    <2>2. /\ \A r \in Request : owner[r] = i => stage'[r] = "done" /\ promise'[r] # "pending"
          /\ \A r \in Request : owner[r] = i => (promise'[r] = "none" <=> promise[r] = "none")
          /\ \A r \in Request : owner[r] # i => stage'[r] = stage[r] /\ promise'[r] = promise[r]
          /\ \A r \in Request : r \in timers' <=> (r \in timers /\ owner[r] # i)
          /\ pending' = [pending EXCEPT ![i] = {}]
          /\ UNCHANGED <<owner, sent>>
      BY <1>0, <1>12 DEF Crash, TypeOK
    <2>3. CallsSound' /\ SentSound'
      BY <1>0, <2>2, InstanceAssumption DEF TypeOK, CallsSound, SentSound
    <2>4. PendingIffWaiting'
      BY <1>0, <2>2, PendingOfOwner DEF TypeOK, PendingIffWaiting
    <2>. QED
      BY <2>1, <2>3, <2>4 DEF IInv
  <1>13. CASE UNCHANGED vars
    BY <1>0, <1>13 DEF vars, IInv, TypeOK, CallsSound, SentSound, PendingIffWaiting
  <1>. QED
    BY <1>1, <1>2, <1>3, <1>4, <1>5, <1>6, <1>7, <1>8, <1>9, <1>10, <1>11, <1>12, <1>13
       DEF Next, Sending

\* The inductive invariant holds of every state of the clients.
THEOREM Invariance == Spec => []IInv
  BY InitInv, StepInv, PTL DEF Spec

\* Every state of the clients is well-typed.
THEOREM TypeCorrect == Spec => []TypeOK
  <1>. IInv => TypeOK
    BY DEF IInv
  <1>. QED
    BY Invariance, PTL

\* Entries, timers and waiting callers always agree: nothing leaks, and nobody
\* waits without a timer, in any number of processes.
THEOREM NothingLeaks == Spec => []PendingIffWaiting
  <1>. IInv => PendingIffWaiting
    BY DEF IInv
  <1>. QED
    BY Invariance, PTL

-----------------------------------------------------------------------------
\* Giving up one call.
LEMMA GivesUpOne ==
  ASSUME IInv, NEW r \in Request, NEW o \in {"timeout", "failed"},
         Settle(r, o), UNCHANGED <<sent, responses>>
  PROVE  [Promises!Next]_(Promises!vars)
  <1>1. CASE promise[r] # "pending"
    BY <1>1 DEF Settle, Given, Promises!vars
  <1>2. CASE promise[r] = "pending"
    <2>1. promise' = [q \in Request |-> IF q \in {r} THEN o ELSE promise[q]]
      BY <1>2 DEF Settle, IInv, TypeOK
    <2>2. /\ o \in Promises!Outcome
          /\ promise \in [Request -> {"none", "pending"} \cup Promises!Outcome]
      BY DEF Promises!Outcome, Outcome, IInv, TypeOK
    <2>3. Promises!GiveUp(o)
      BY <1>2, <2>1, <2>2 DEF Given, Promises!GiveUp
    <2>. QED
      BY <2>3 DEF Promises!Next
  <1>. QED
    BY <1>1, <1>2

\* Steps that change nothing a caller or the other side can see.
LEMMA Unseen ==
  ASSUME UNCHANGED <<promise, sent, responses>>
  PROVE  [Promises!Next]_(Promises!vars)
  BY DEF Given, Promises!vars

\* Every step of the clients is a step of Rpc, or leaves it alone.
LEMMA RpcStep == IInv /\ [Next]_vars => [Promises!Next]_(Promises!vars)
  <1>. SUFFICES ASSUME IInv, [Next]_vars PROVE [Promises!Next]_(Promises!vars)
    OBVIOUS
  <1>0. TypeOK /\ CallsSound /\ SentSound /\ PendingIffWaiting
    BY DEF IInv
  <1>1. ASSUME NEW i \in Instance, NEW r \in Request, Call(i, r)
        PROVE  [Promises!Next]_(Promises!vars)
    <2>1. Promises!Call(r)
      BY <1>1 DEF Call, Given, Promises!Call
    <2>. QED
      BY <2>1 DEF Promises!Next
  <1>2. ASSUME NEW r \in Request, Register(r) PROVE [Promises!Next]_(Promises!vars)
    BY <1>2, Unseen DEF Register
  <1>3. ASSUME NEW r \in Request, ConnectFails(r) PROVE [Promises!Next]_(Promises!vars)
    BY <1>3, GivesUpOne DEF ConnectFails
  <1>4. ASSUME NEW r \in Request, BrokerAppends(r) PROVE [Promises!Next]_(Promises!vars)
    <2>1. Promises!Write(r)
      BY <1>0, <1>4 DEF BrokerAppends, CallsSound, Given, Promises!Write
    <2>. QED
      BY <2>1 DEF Promises!Next
  <1>5. ASSUME NEW r \in Request, SendResolves(r) PROVE [Promises!Next]_(Promises!vars)
    BY <1>5, Unseen DEF SendResolves
  <1>6. ASSUME NEW r \in Request, SendRejects(r) PROVE [Promises!Next]_(Promises!vars)
    BY <1>6, GivesUpOne DEF SendRejects
  <1>7. ASSUME NEW r \in Request, Timeout(r) PROVE [Promises!Next]_(Promises!vars)
    BY <1>0, <1>7, GivesUpOne DEF Timeout, TypeOK
  <1>8. ASSUME NEW a \in Answer, Serve(a) PROVE [Promises!Next]_(Promises!vars)
    <2>1. /\ Len(responses') = Len(responses) + 1
          /\ \A k \in 1..Len(responses) : responses'[k] = responses[k]
          /\ responses'[Len(responses) + 1] = a
          /\ DOMAIN responses' = 1..(Len(responses) + 1)
          /\ DOMAIN responses = 1..Len(responses)
          /\ Len(responses) \in Nat
      BY <1>0, <1>8, AppendProperties DEF Serve, TypeOK
    <2>2. Given' = Given \cup {a}
      <3>1. ASSUME NEW b \in Given' PROVE b \in Given \cup {a}
        <4>1. PICK k \in 1..(Len(responses) + 1) : b = responses'[k]
          BY <2>1, <3>1 DEF Given
        <4>2. k \in 1..Len(responses) \/ k = Len(responses) + 1
          BY <2>1
        <4>. QED
          BY <2>1, <4>1, <4>2 DEF Given
      <3>2. ASSUME NEW b \in Given \cup {a} PROVE b \in Given'
        <4>1. CASE b = a
          <5>1. Len(responses) + 1 \in DOMAIN responses'
            BY <2>1
          <5>. QED
            BY <2>1, <4>1, <5>1 DEF Given
        <4>2. CASE b \in Given
          <5>1. PICK k \in 1..Len(responses) : b = responses[k]
            BY <2>1, <4>2 DEF Given
          <5>2. k \in DOMAIN responses' /\ b = responses'[k]
            BY <2>1, <5>1
          <5>. QED
            BY <5>2 DEF Given
        <4>. QED
          BY <3>2, <4>1, <4>2
      <3>. QED
        BY <3>1, <3>2
    <2>3. Promises!Serve(a)
      BY <1>8, <2>2 DEF Serve, Given, Promises!Serve
    <2>4. a \in Promises!Answer
      BY DEF Answer, Promises!Answer
    <2>. QED
      BY <2>3, <2>4 DEF Promises!Next
  <1>9. CASE HandleResponse
    <2> DEFINE a == responses[position + 1]
    <2>1. CASE a.to \in pending[assigned]
      <3>1. /\ a \in Answer /\ a.to \in Request
            /\ promise[a.to] = "pending"
            /\ Settle(a.to, Unwrapped(a))
            /\ UNCHANGED <<sent, responses>>
        BY <1>0, <1>9, <2>1, NextAnswer, PendingOfOwner DEF HandleResponse, TypeOK
      <3>2. a \in Given
        <4>1. position + 1 \in DOMAIN responses
          BY <1>0, <1>9 DEF HandleResponse, TypeOK
        <4>. QED
          BY <4>1 DEF Given
      <3>3. Promises!Receive(a)
        BY <3>1, <3>2 DEF Settle, Unwrapped, Given, Promises!Receive
      <3>4. a \in Promises!Answer
        BY <3>1 DEF Answer, Promises!Answer
      <3>. QED
        BY <3>3, <3>4 DEF Promises!Next
    <2>2. CASE a.to \notin pending[assigned]
      BY <1>9, <2>2, Unseen DEF HandleResponse
    <2>. QED
      BY <2>1, <2>2
  <1>10. CASE Commit
    BY <1>10, Unseen DEF Commit
  <1>11. ASSUME NEW i \in Instance, Rebalance(i) PROVE [Promises!Next]_(Promises!vars)
    BY <1>11, Unseen DEF Rebalance
  <1>12. ASSUME NEW i \in Instance, Crash(i) PROVE [Promises!Next]_(Promises!vars)
    <2> DEFINE gone == {r \in Request : owner[r] = i /\ promise[r] = "pending"}
    <2>1. promise' = [r \in Request |-> IF r \in gone THEN "gone" ELSE promise[r]]
      BY <1>12 DEF Crash
    <2>2. promise \in [Request -> {"none", "pending"} \cup Promises!Outcome]
      BY <1>0 DEF Promises!Outcome, Outcome, TypeOK
    <2>3. Promises!GiveUp("gone")
      BY <1>12, <2>1, <2>2 DEF Crash, Given, Promises!GiveUp, Promises!Outcome
    <2>. QED
      BY <2>3 DEF Promises!Next
  <1>13. CASE UNCHANGED vars
    BY <1>13, Unseen DEF vars
  <1>. QED
    BY <1>1, <1>2, <1>3, <1>4, <1>5, <1>6, <1>7, <1>8, <1>9, <1>10, <1>11, <1>12, <1>13
       DEF Next, Sending

\* The clients keep the promise of Rpc: a call settles once, and with an answer
\* only if the service asked gave that answer to a request it had.
THEOREM Refinement == Spec => ImplementsRpc
  <1>1. Init => Promises!Init
    BY DEF Init, Given, Promises!Init
  <1>. QED
    BY <1>1, RpcStep, Invariance, PTL DEF Spec, ImplementsRpc, Promises!Spec

\* What Rpc's invariant rests on: answers are only given to requests that were sent.
PromisesInv ==
  /\ Promises!TypeOK
  /\ \A a \in Given : a.to \in sent
  /\ Promises!OutcomeTruthful

\* Every step of Rpc preserves it.
LEMMA PromisesStep == PromisesInv /\ [Promises!Next]_(Promises!vars) => PromisesInv'
  <1>. SUFFICES ASSUME PromisesInv, [Promises!Next]_(Promises!vars) PROVE PromisesInv'
    OBVIOUS
  <1>. USE DEF PromisesInv, Promises!TypeOK, Promises!OutcomeTruthful
  <1>1. ASSUME NEW r \in Request, Promises!Call(r) PROVE PromisesInv'
    BY <1>1 DEF Promises!Call
  <1>2. ASSUME NEW r \in Request, Promises!Write(r) PROVE PromisesInv'
    BY <1>2 DEF Promises!Write
  <1>3. ASSUME NEW a \in Promises!Answer, Promises!Serve(a) PROVE PromisesInv'
    BY <1>3 DEF Promises!Serve
  <1>4. ASSUME NEW a \in Promises!Answer, Promises!Receive(a) PROVE PromisesInv'
    <2>1. /\ a.to \in Request /\ a.to \in sent /\ a \in Given
          /\ a = [to |-> a.to, ok |-> a.ok] /\ a.ok \in BOOLEAN
      BY <1>4 DEF Promises!Receive, Promises!Answer
    <2>2. PICK r \in Request : r = a.to
      BY <2>1
    <2>3. CASE a.ok
      <3>1. a = [to |-> r, ok |-> TRUE]
        BY <2>1, <2>2, <2>3
      <3>2. promise' = [promise EXCEPT ![r] = "ok"] /\ UNCHANGED <<sent, Given>>
        BY <1>4, <2>2, <2>3 DEF Promises!Receive
      <3>. QED
        BY <2>1, <2>2, <3>1, <3>2 DEF Promises!Outcome
    <2>4. CASE ~a.ok
      <3>1. a = [to |-> r, ok |-> FALSE]
        BY <2>1, <2>2, <2>4
      <3>2. promise' = [promise EXCEPT ![r] = "error"] /\ UNCHANGED <<sent, Given>>
        BY <1>4, <2>2, <2>4 DEF Promises!Receive
      <3>. QED
        BY <2>1, <2>2, <3>1, <3>2 DEF Promises!Outcome
    <2>. QED
      BY <2>3, <2>4
  <1>5. ASSUME NEW o \in {"timeout", "failed", "gone"}, Promises!GiveUp(o)
        PROVE  PromisesInv'
    BY <1>5 DEF Promises!GiveUp, Promises!Outcome
  <1>6. CASE UNCHANGED Promises!vars
    BY <1>6 DEF Promises!vars
  <1>. QED
    BY <1>1, <1>2, <1>3, <1>4, <1>5, <1>6 DEF Promises!Next

\* What a caller of sendRequest is told, a result or an error, is what the service
\* it asked said, about a request that the service had.
THEOREM OutcomesTruthful == Spec => []Promises!OutcomeTruthful
  <1>1. Promises!Init => PromisesInv
    BY DEF Promises!Init, PromisesInv, Promises!TypeOK, Promises!OutcomeTruthful
  <1>2. PromisesInv => Promises!OutcomeTruthful
    BY DEF PromisesInv
  <1>. QED
    BY <1>1, <1>2, PromisesStep, Refinement, PTL DEF ImplementsRpc, Promises!Spec

-----------------------------------------------------------------------------
\* Answers are to requests that were sent, and the ones handled have settled.
AnswersSound ==
  /\ \A k \in 1..Len(responses) : responses[k].to \in sent
  /\ HandledMeansSettled

\* With one process, handling an answer settles its call: nobody else has it.
LEMMA AnswersStep ==
  ASSUME \A i, j \in Instance : i = j,
         IInv, AnswersSound, [Next]_vars
  PROVE  AnswersSound'
  <1>0. TypeOK /\ CallsSound /\ SentSound /\ PendingIffWaiting
    BY DEF IInv
  <1>1. \A k \in 1..Len(responses) : responses[k] \in Answer /\ responses[k].to \in Request
    <2>1. \A k \in 1..Len(responses) : responses[k] \in Answer
      BY <1>0 DEF TypeOK
    <2>2. \A b \in Answer : b.to \in Request
      BY DEF Answer
    <2>. QED
      BY <2>1, <2>2
  <1>2. Len(responses) \in Nat /\ position \in 0..Len(responses) /\ committed \in 0..position
    BY <1>0 DEF TypeOK
  \* A call with an answer was registered, so it is not started any more.
  <1>3. \A k \in 1..Len(responses) :
          stage[responses[k].to] \in {"sending", "done"} /\ promise[responses[k].to] # "none"
    BY <1>0, <1>1 DEF AnswersSound, SentSound, CallsSound
  <1>4. ASSUME UNCHANGED responses, sent \subseteq sent', position' \in 0..position,
               \A r \in Request : promise[r] \notin {"none", "pending"}
                                  => promise'[r] # "pending"
        PROVE  AnswersSound'
    <2>1. \A k \in 1..position : promise'[responses[k].to] # "pending"
      BY <1>1, <1>2, <1>3, <1>4 DEF AnswersSound, HandledMeansSettled
    <2>. QED
      BY <1>2, <1>4, <2>1 DEF AnswersSound, HandledMeansSettled
  <1>5. ASSUME NEW i \in Instance, NEW r \in Request, Call(i, r) PROVE AnswersSound'
    BY <1>0, <1>2, <1>4, <1>5 DEF Call, TypeOK
  <1>6. ASSUME NEW r \in Request, Register(r) PROVE AnswersSound'
    BY <1>2, <1>4, <1>6 DEF Register
  <1>7. ASSUME NEW r \in Request, ConnectFails(r) PROVE AnswersSound'
    <2>1. \A q \in Request : promise[q] \notin {"none", "pending"} => promise'[q] # "pending"
      BY <1>0, <1>7, SettleEffect DEF ConnectFails, Outcome
    <2>. QED
      BY <1>2, <1>4, <1>7, <2>1 DEF ConnectFails
  <1>8. ASSUME NEW r \in Request, BrokerAppends(r) PROVE AnswersSound'
    BY <1>2, <1>4, <1>8 DEF BrokerAppends
  <1>9. ASSUME NEW r \in Request, SendResolves(r) PROVE AnswersSound'
    BY <1>2, <1>4, <1>9 DEF SendResolves
  <1>10. ASSUME NEW r \in Request, SendRejects(r) PROVE AnswersSound'
    <2>1. \A q \in Request : promise[q] \notin {"none", "pending"} => promise'[q] # "pending"
      BY <1>0, <1>10, SettleEffect DEF SendRejects, Outcome
    <2>. QED
      BY <1>2, <1>4, <1>10, <2>1 DEF SendRejects
  <1>11. ASSUME NEW r \in Request, Timeout(r) PROVE AnswersSound'
    <2>1. \A q \in Request : promise[q] \notin {"none", "pending"} => promise'[q] # "pending"
      BY <1>0, <1>11, SettleEffect DEF Timeout, Outcome
    <2>. QED
      BY <1>2, <1>4, <1>11, <2>1 DEF Timeout
  <1>12. ASSUME NEW a \in Answer, Serve(a) PROVE AnswersSound'
    <2>1. /\ Len(responses') = Len(responses) + 1
          /\ \A k \in 1..Len(responses) : responses'[k] = responses[k]
          /\ responses'[Len(responses) + 1] = a
      BY <1>0, <1>12, AppendProperties DEF Serve, TypeOK
    <2>2. a.to \in sent /\ UNCHANGED <<sent, promise, position>>
      BY <1>12 DEF Serve
    <2>3. \A k \in 1..Len(responses') : k \in 1..Len(responses) \/ k = Len(responses) + 1
      BY <1>2, <2>1
    <2>. QED
      BY <1>2, <2>1, <2>2, <2>3 DEF AnswersSound, HandledMeansSettled
  <1>13. CASE HandleResponse
    <2>1. PICK a \in Answer : a = responses[position + 1]
      BY <1>0, <1>13, NextAnswer DEF HandleResponse
    <2>2. position + 1 \in 1..Len(responses) /\ a.to \in Request
      BY <1>2, <1>13, <2>1 DEF HandleResponse, Answer
    <2>3. promise[a.to] = "pending" => a.to \in pending[assigned]
      BY <1>0, <1>3, <2>1, <2>2, PendingOfOwner DEF TypeOK
    <2>4. /\ promise'[a.to] # "pending"
          /\ \A q \in Request : promise[q] \notin {"none", "pending"} => promise'[q] # "pending"
      BY <1>0, <1>13, <2>1, <2>2, <2>3, NextAnswer, SettleEffect DEF HandleResponse, Outcome
    <2>5. position' = position + 1 /\ UNCHANGED <<responses, sent>>
      BY <1>13 DEF HandleResponse
    <2>6. \A k \in 1..position' : k \in 1..position \/ k = position + 1
      BY <1>2, <2>5
    <2>7. \A k \in 1..position : promise'[responses[k].to] # "pending"
      BY <1>1, <1>2, <1>3, <2>4 DEF AnswersSound, HandledMeansSettled
    <2>. QED
      BY <1>2, <2>1, <2>4, <2>5, <2>6, <2>7 DEF AnswersSound, HandledMeansSettled
  <1>14. CASE Commit
    BY <1>2, <1>4, <1>14 DEF Commit
  <1>15. ASSUME NEW i \in Instance, Rebalance(i) PROVE AnswersSound'
    BY <1>2, <1>4, <1>15 DEF Rebalance
  <1>16. ASSUME NEW i \in Instance, Crash(i) PROVE AnswersSound'
    <2>1. \A q \in Request : promise[q] \notin {"none", "pending"} => promise'[q] # "pending"
      BY <1>0, <1>16 DEF Crash, TypeOK
    <2>2. position' \in 0..position
      BY <1>2, <1>16 DEF Crash
    <2>. QED
      BY <1>2, <1>4, <1>16, <2>1, <2>2 DEF Crash
  <1>17. CASE UNCHANGED vars
    BY <1>2, <1>4, <1>17 DEF vars
  <1>. QED
    BY <1>5, <1>6, <1>7, <1>8, <1>9, <1>10, <1>11, <1>12, <1>13, <1>14, <1>15, <1>16, <1>17
       DEF Next, Sending

\* In a group of one process, as docker-compose runs them, no answer is lost:
\* when its record has been handled, its caller does not wait any more.
THEOREM OneInstanceSettles ==
  ASSUME \A i, j \in Instance : i = j
  PROVE  Spec => []HandledMeansSettled
  <1>1. Init => AnswersSound
    BY DEF Init, AnswersSound, HandledMeansSettled
  <1>2. IInv /\ AnswersSound /\ [Next]_vars => AnswersSound'
    BY AnswersStep
  <1>3. AnswersSound => HandledMeansSettled
    BY DEF AnswersSound
  <1>. QED
    BY <1>1, <1>2, <1>3, Invariance, PTL DEF Spec
=============================================================================

------------------------ MODULE PaymentServiceProofs ------------------------
(***************************************************************************)
(* Proofs about PaymentService, for any requests, any orders and any bounds.*)
(***************************************************************************)
EXTENDS PaymentService, SequenceTheorems, TLAPS

\* What Stripe calls a session whose verdict is v.
Final(v) == IF v = "PAID" THEN "paid" ELSE "expired"

\* A session is polled only after Stripe created it, and a callback that is about
\* to report a verdict has seen that verdict, which is final.
PollsSound ==
  /\ \A s \in intervals : s \in 1..Len(sessions)
  /\ \A c \in callbacks :
       /\ c.session \in 1..Len(sessions)
       /\ c.awaits \in Verdict => sessions[c.session].status = Final(c.awaits)

\* An update says what was final when it was sent.
UpdatesSound ==
  \A u \in updates :
    /\ u.session \in 1..Len(sessions)
    /\ u.order = sessions[u.session].order
    /\ sessions[u.session].status = Final(u.status)

IInv == TypeOK /\ PollsSound /\ UpdatesSound /\ PollingBounded

\* Stripe keeps its sessions, what they are for, and how they ended.
SessionsKept ==
  /\ Len(sessions) <= Len(sessions')
  /\ \A s \in 1..Len(sessions) :
       /\ sessions'[s].order = sessions[s].order
       /\ sessions[s].status # "open" => sessions'[s].status = sessions[s].status

-----------------------------------------------------------------------------
\* The task of the handler, while it is at work.
LEMMA AtWork ==
  ASSUME TypeOK, task.stage # "idle"
  PROVE  /\ task.stage \in {"create", "respond", "refuse"}
         /\ task.msg \in Requests /\ task.msg \in Request
         /\ task.session \in 0..MaxSessions
  BY RequestsAssumption DEF TypeOK, Task, NoTask

\* A handler's next task is a task.
LEMMA TaskType ==
  ASSUME NEW stage \in {"create", "respond", "refuse"}, NEW m \in Requests,
         NEW s \in 0..MaxSessions
  PROVE  /\ Working(stage, m, s) \in Task
         /\ Working(stage, m, s).stage = stage
         /\ Working(stage, m, s).msg = m
         /\ Working(stage, m, s).session = s
  BY DEF Working, Task

\* What is answered are answers.
LEMMA AnswerType ==
  ASSUME TypeOK, task.stage # "idle", NEW ok \in BOOLEAN, NEW s \in 0..MaxSessions
  PROVE  Answer(ok, s) \subseteq Reply
  BY AtWork DEF TypeOK, Answer, Reply, Request

\* A new session of Stripe is open, and the old ones are as they were.
LEMMA SessionCreated ==
  ASSUME TypeOK, NEW m \in Requests, NewSession(m)
  PROVE  /\ sessions' \in Seq(StripeSession)
         /\ Len(sessions') = Len(sessions) + 1
         /\ Len(sessions) + 1 \in Session
         /\ Len(sessions') <= MaxSessions
         /\ \A s \in 1..Len(sessions) : sessions'[s] = sessions[s]
  <1>1. [order |-> m.order, status |-> "open"] \in StripeSession
    BY RequestsAssumption DEF Request, StripeSession
  <1>. QED
    BY <1>1, AppendProperties, BoundsAssumption DEF NewSession, TypeOK, Session

\* A session that ends is the only one that changes.
LEMMA SessionEnds ==
  ASSUME TypeOK, NEW s \in Session, NEW st \in {"paid", "expired"}, Becomes(s, st)
  PROVE  /\ sessions' \in Seq(StripeSession)
         /\ Len(sessions') = Len(sessions)
         /\ SessionsKept
  <1>1. s \in 1..Len(sessions) /\ sessions[s].status = "open"
    BY DEF TypeOK, Becomes
  <1>2. sessions[s] \in StripeSession
    BY <1>1 DEF TypeOK
  <1>3. sessions' = [sessions EXCEPT ![s] = [sessions[s] EXCEPT !.status = st]]
    BY DEF Becomes
  <1>4. [sessions[s] EXCEPT !.status = st] \in StripeSession
    BY <1>2 DEF StripeSession
  <1>5. [sessions[s] EXCEPT !.status = st].order = sessions[s].order
    BY <1>2 DEF StripeSession
  <1>6. /\ sessions' \in Seq(StripeSession)
        /\ Len(sessions') = Len(sessions)
        /\ \A q \in 1..Len(sessions) : q # s => sessions'[q] = sessions[q]
        /\ sessions'[s] = [sessions[s] EXCEPT !.status = st]
    BY <1>1, <1>3, <1>4, ExceptSeq DEF TypeOK
  <1>7. Len(sessions) \in Nat
    BY DEF TypeOK
  <1>8. ASSUME NEW q \in 1..Len(sessions)
        PROVE  /\ sessions'[q].order = sessions[q].order
               /\ sessions[q].status # "open" => sessions'[q].status = sessions[q].status
    <2>1. CASE q = s
      BY <1>1, <1>5, <1>6, <2>1
    <2>2. CASE q # s
      BY <1>6, <2>2
    <2>. QED
      BY <2>1, <2>2
  <1>. QED
    BY <1>6, <1>7, <1>8 DEF SessionsKept

\* Stripe never goes back on a session.
LEMMA SessionsStep == TypeOK /\ [Next]_vars => SessionsKept
  <1>. SUFFICES ASSUME TypeOK, [Next]_vars PROVE SessionsKept
    OBVIOUS
  <1>1. ASSUME UNCHANGED sessions PROVE SessionsKept
    BY <1>1 DEF SessionsKept, TypeOK
  <1>2. CASE CreateSession
    BY <1>2, AtWork, SessionCreated DEF CreateSession, SessionsKept, TypeOK
  <1>3. CASE CreateSessionFails
    <2>1. CASE NewSession(task.msg)
      BY <1>3, <2>1, AtWork, SessionCreated DEF CreateSessionFails, SessionsKept, TypeOK
    <2>. QED
      BY <1>1, <1>3, <2>1 DEF CreateSessionFails
  <1>4. ASSUME NEW s \in Session, Becomes(s, "paid") \/ Becomes(s, "expired")
        PROVE  SessionsKept
    BY <1>4, SessionEnds
  <1>5. ASSUME NEW m \in Requests, Arrive(m) PROVE SessionsKept
    BY <1>1, <1>5 DEF Arrive
  <1>6. CASE Take \/ Respond \/ RespondFails \/ RespondError \/ RespondErrorFails \/ Commit
    BY <1>1, <1>6 DEF Take, Respond, RespondFails, RespondError, RespondErrorFails, Commit
  <1>7. ASSUME NEW s \in Session, Tick(s) \/ SafetyTimeout(s) PROVE SessionsKept
    BY <1>1, <1>7 DEF Tick, SafetyTimeout
  <1>8. ASSUME NEW c \in callbacks, Resolves(c) PROVE SessionsKept
    BY <1>1, <1>8 DEF Resolves, PollOpen, PollFails, PollEnds, SendUpdate, SendUpdateFails
  <1>9. CASE Crash
    BY <1>1, <1>9 DEF Crash
  <1>10. CASE UNCHANGED vars
    BY <1>1, <1>10 DEF vars
  <1>. QED
    BY <1>2, <1>3, <1>4, <1>5, <1>6, <1>7, <1>8, <1>9, <1>10 DEF Next, Consumer

-----------------------------------------------------------------------------
\* A callback's verdict makes an update of its session's order.
LEMMA UpdateType ==
  ASSUME TypeOK, PollsSound, NEW c \in callbacks, c.awaits \in Verdict
  PROVE  /\ UpdateOf(c) \in Update
         /\ UpdateOf(c).session = c.session
         /\ UpdateOf(c).status = c.awaits
         /\ UpdateOf(c).order = sessions[c.session].order
  <1>1. c.session \in 1..Len(sessions) /\ c.session \in Session
    BY DEF PollsSound, TypeOK, Callback
  <1>2. sessions[c.session] \in StripeSession
    BY <1>1 DEF TypeOK
  <1>. QED
    BY <1>1, <1>2 DEF UpdateOf, Update, StripeSession

\* A callback's fields, and those of the callback it becomes.
LEMMA CallbackType ==
  ASSUME TypeOK, NEW c \in callbacks, NEW v \in Verdict
  PROVE  /\ c.session \in Session
         /\ [c EXCEPT !.awaits = v] \in Callback
         /\ [c EXCEPT !.awaits = v].session = c.session
         /\ [c EXCEPT !.awaits = v].awaits = v
  BY DEF TypeOK, Callback, Verdict

\* Type correctness is preserved by every step.
LEMMA TypeStep == IInv /\ [Next]_vars => TypeOK'
  <1>. SUFFICES ASSUME IInv, [Next]_vars PROVE TypeOK'
    OBVIOUS
  <1>0. TypeOK /\ PollsSound /\ PollingBounded
    BY DEF IInv
  <1>1. ASSUME NEW m \in Requests, Arrive(m) PROVE TypeOK'
    <2>1. inbox' \in Seq(Requests) /\ Len(inbox') = Len(inbox) + 1
      BY <1>0, <1>1, AppendProperties DEF Arrive, TypeOK
    <2>. QED
      BY <1>0, <1>1, <2>1 DEF Arrive, TypeOK, polls
  <1>2. CASE Take
    <2>1. inbox[position + 1] \in Requests
      BY <1>0, <1>2 DEF Take, TypeOK
    <2>2. task' \in Task
      BY <1>2, <2>1, BoundsAssumption, TaskType DEF Take
    <2>. QED
      BY <1>0, <1>2, <2>2 DEF Take, TypeOK, polls
  <1>3. CASE CreateSession
    <2>1. task.msg \in Requests
      BY <1>0, <1>3, AtWork DEF CreateSession
    <2>2. /\ sessions' \in Seq(StripeSession) /\ Len(sessions') <= MaxSessions
          /\ Len(sessions) + 1 \in Session
      BY <1>0, <1>3, <2>1, SessionCreated DEF CreateSession
    <2>3. task' \in Task
      BY <1>3, <2>1, <2>2, TaskType DEF CreateSession, Session
    <2>. QED
      BY <1>0, <1>3, <2>2, <2>3 DEF CreateSession, StartPolling, TypeOK, kafka
  <1>4. CASE CreateSessionFails
    <2>1. task.msg \in Requests
      BY <1>0, <1>4, AtWork DEF CreateSessionFails
    <2>2. sessions' \in Seq(StripeSession) /\ Len(sessions') <= MaxSessions
      BY <1>0, <1>4, <2>1, SessionCreated DEF CreateSessionFails, TypeOK
    <2>3. task' \in Task
      BY <1>4, <2>1, BoundsAssumption, TaskType DEF CreateSessionFails
    <2>. QED
      BY <1>0, <1>4, <2>2, <2>3 DEF CreateSessionFails, TypeOK, kafka, polls, Fault
  <1>5. CASE Respond
    BY <1>0, <1>5, AtWork, AnswerType DEF Respond, TypeOK, Task, kafka, polls
  <1>6. CASE RespondFails
    <2>1. /\ task.stage # "idle" /\ task.msg \in Requests
          /\ task.session \in 0..MaxSessions /\ 0 \in 0..MaxSessions
      BY <1>0, <1>6, AtWork, BoundsAssumption DEF RespondFails
    <2>2. Answer(TRUE, task.session) \subseteq Reply
      BY <1>0, <2>1, AnswerType
    <2>3. replies' \subseteq Reply
      BY <1>0, <1>6, <2>2 DEF RespondFails, TypeOK
    <2>4. task' \in Task
      BY <1>6, <2>1, TaskType DEF RespondFails
    <2>. QED
      BY <1>0, <1>6, <2>3, <2>4 DEF RespondFails, TypeOK, kafka, polls, Fault
  <1>7. CASE RespondError
    <2>1. task.stage # "idle" /\ 0 \in 0..MaxSessions
      BY <1>7, BoundsAssumption DEF RespondError
    <2>2. Answer(FALSE, 0) \subseteq Reply
      BY <1>0, <2>1, AnswerType
    <2>3. replies' \subseteq Reply
      BY <1>0, <1>7, <2>2 DEF RespondError, TypeOK
    <2>4. task' \in Task
      BY <1>7 DEF RespondError, Task
    <2>. QED
      BY <1>0, <1>7, <2>3, <2>4 DEF RespondError, TypeOK, kafka, polls
  <1>8. CASE RespondErrorFails
    <2>1. task.stage # "idle" /\ 0 \in 0..MaxSessions
      BY <1>8, BoundsAssumption DEF RespondErrorFails
    <2>2. Answer(FALSE, 0) \subseteq Reply
      BY <1>0, <2>1, AnswerType
    <2>3. replies' \subseteq Reply
      BY <1>0, <1>8, <2>2 DEF RespondErrorFails, TypeOK
    <2>4. task' \in Task
      BY <1>8 DEF RespondErrorFails, Task
    <2>. QED
      BY <1>0, <1>8, <2>3, <2>4 DEF RespondErrorFails, TypeOK, kafka, polls, Fault
  <1>9. CASE Commit
    BY <1>0, <1>9 DEF Commit, TypeOK, polls
  <1>10. ASSUME NEW s \in Session, Tick(s) PROVE TypeOK'
    <2>1. \A n \in 1..MaxPolls : [session |-> s, n |-> n, awaits |-> "retrieve"] \in Callback
      BY DEF Callback
    <2>2. callbacks' \subseteq Callback
      BY <1>0, <1>10, <2>1 DEF Tick, TypeOK
    <2>. QED
      BY <1>0, <1>10, <2>2 DEF Tick, TypeOK, kafka
  <1>11. ASSUME NEW s \in Session, SafetyTimeout(s) PROVE TypeOK'
    BY <1>0, <1>11 DEF SafetyTimeout, StopPolling, TypeOK, kafka
  <1>12. ASSUME NEW c \in callbacks, PollOpen(c) PROVE TypeOK'
    BY <1>0, <1>12 DEF PollOpen, TypeOK, kafka
  <1>13. ASSUME NEW c \in callbacks, PollFails(c) PROVE TypeOK'
    BY <1>0, <1>13 DEF PollFails, TypeOK, kafka, Fault
  <1>14. ASSUME NEW c \in callbacks, NEW v \in Verdict, PollEnds(c, v) PROVE TypeOK'
    <2>1. callbacks' \subseteq Callback
      BY <1>0, <1>14, CallbackType DEF PollEnds, TypeOK
    <2>. QED
      BY <1>0, <1>14, <2>1 DEF PollEnds, StopPolling, TypeOK, kafka
  <1>15. ASSUME NEW c \in callbacks, SendUpdate(c) PROVE TypeOK'
    BY <1>0, <1>15, UpdateType DEF SendUpdate, TypeOK, kafka
  <1>16. ASSUME NEW c \in callbacks, SendUpdateFails(c) PROVE TypeOK'
    <2>1. c.session \in Session
      BY <1>0 DEF TypeOK, Callback
    <2>2. updates' \subseteq Update
      BY <1>0, <1>16, UpdateType DEF SendUpdateFails, TypeOK
    <2>. QED
      BY <1>0, <1>16, <2>1, <2>2 DEF SendUpdateFails, TypeOK, kafka, Fault
  <1>17. CASE Crash
    <2>1. \A c \in callbacks : c.session \in Session
      BY <1>0 DEF TypeOK, Callback
    <2>. QED
      BY <1>0, <1>17, <2>1 DEF Crash, TypeOK, Task, Fault
  <1>18. ASSUME NEW s \in Session, Becomes(s, "paid") \/ Becomes(s, "expired") PROVE TypeOK'
    <2>1. sessions' \in Seq(StripeSession) /\ Len(sessions') = Len(sessions)
      BY <1>0, <1>18, SessionEnds
    <2>. QED
      BY <1>0, <1>18, <2>1 DEF Becomes, TypeOK, kafka, polls
  <1>19. CASE UNCHANGED vars
    BY <1>0, <1>19 DEF vars, TypeOK
  <1>. QED
    BY <1>1, <1>2, <1>3, <1>4, <1>5, <1>6, <1>7, <1>8, <1>9, <1>10, <1>11, <1>12, <1>13,
       <1>14, <1>15, <1>16, <1>17, <1>18, <1>19 DEF Next, Consumer, Resolves

-----------------------------------------------------------------------------
\* The callbacks know only what is final, the updates say it, and an interval,
\* its entry and its 30-minute timer come and go together.
LEMMA PollsStep ==
  IInv /\ [Next]_vars => PollsSound' /\ UpdatesSound' /\ PollingBounded'
  <1>. SUFFICES ASSUME IInv, [Next]_vars
                PROVE  PollsSound' /\ UpdatesSound' /\ PollingBounded'
    OBVIOUS
  <1>0. TypeOK /\ PollsSound /\ UpdatesSound /\ PollingBounded
    BY DEF IInv
  <1>1. SessionsKept /\ Len(sessions) \in Nat /\ Len(sessions') \in Nat
    BY <1>0, SessionsStep, TypeStep DEF IInv, TypeOK
  <1>2. \A s \in 1..Len(sessions) : s \in 1..Len(sessions')
    BY <1>1 DEF SessionsKept
  <1>3. \A v : Final(v) # "open"
    BY DEF Final
  \* What was said of a session goes on being true.
  <1>4. \A s \in 1..Len(sessions) : \A v : sessions[s].status = Final(v)
                                         => sessions'[s].status = Final(v)
    BY <1>1, <1>3 DEF SessionsKept
  <1>5. ASSUME updates' \subseteq updates PROVE UpdatesSound'
    BY <1>0, <1>1, <1>2, <1>4, <1>5 DEF UpdatesSound, SessionsKept
  <1>6. ASSUME callbacks' \subseteq callbacks, intervals' \subseteq intervals
        PROVE  PollsSound'
    BY <1>0, <1>2, <1>4, <1>6 DEF PollsSound
  <1>7. ASSUME UNCHANGED <<active, intervals, safety>> PROVE PollingBounded'
    BY <1>0, <1>7 DEF PollingBounded
  <1>8. ASSUME UNCHANGED <<active, intervals, safety, callbacks, updates>>
        PROVE  PollsSound' /\ UpdatesSound' /\ PollingBounded'
    BY <1>5, <1>6, <1>7, <1>8
  <1>9. ASSUME NEW m \in Requests, Arrive(m)
        PROVE  PollsSound' /\ UpdatesSound' /\ PollingBounded'
    BY <1>8, <1>9 DEF Arrive, polls
  <1>10. CASE Take
    BY <1>8, <1>10 DEF Take, polls
  <1>11. CASE CreateSession
    <2>1. Len(sessions') = Len(sessions) + 1
      BY <1>0, <1>11, AtWork, SessionCreated DEF CreateSession
    <2>2. PollsSound'
      BY <1>0, <1>1, <1>2, <1>4, <1>11, <2>1 DEF CreateSession, StartPolling, PollsSound
    <2>3. PollingBounded'
      BY <1>0, <1>11 DEF CreateSession, StartPolling, PollingBounded
    <2>. QED
      BY <1>5, <1>11, <2>2, <2>3 DEF CreateSession, StartPolling
  <1>12. CASE CreateSessionFails
    BY <1>8, <1>12 DEF CreateSessionFails, polls
  <1>13. CASE Respond
    BY <1>8, <1>13 DEF Respond, polls
  <1>14. CASE RespondFails
    BY <1>8, <1>14 DEF RespondFails, polls
  <1>15. CASE RespondError
    BY <1>8, <1>15 DEF RespondError, polls
  <1>16. CASE RespondErrorFails
    BY <1>8, <1>16 DEF RespondErrorFails, polls
  <1>17. CASE Commit
    BY <1>8, <1>17 DEF Commit, polls
  <1>18. ASSUME NEW s \in Session, Tick(s)
         PROVE  PollsSound' /\ UpdatesSound' /\ PollingBounded'
    <2>1. PICK n \in 1..MaxPolls :
            callbacks' = callbacks \cup {[session |-> s, n |-> n, awaits |-> "retrieve"]}
      BY <1>18 DEF Tick
    <2>2. /\ s \in 1..Len(sessions)
          /\ UNCHANGED <<active, intervals, safety, updates>>
      BY <1>0, <1>18 DEF Tick, PollsSound
    <2>3. PollsSound'
      BY <1>0, <1>2, <1>4, <2>1, <2>2 DEF PollsSound, Verdict
    <2>. QED
      BY <1>5, <1>7, <2>2, <2>3
  <1>19. ASSUME NEW s \in Session, SafetyTimeout(s)
         PROVE  PollsSound' /\ UpdatesSound' /\ PollingBounded'
    <2>1. PollingBounded'
      BY <1>0, <1>19 DEF SafetyTimeout, StopPolling, PollingBounded
    <2>2. intervals' \subseteq intervals /\ UNCHANGED <<callbacks, updates>>
      BY <1>19 DEF SafetyTimeout, StopPolling
    <2>. QED
      BY <1>5, <1>6, <2>1, <2>2
  <1>20. ASSUME NEW c \in callbacks, PollOpen(c)
         PROVE  PollsSound' /\ UpdatesSound' /\ PollingBounded'
    BY <1>5, <1>6, <1>7, <1>20 DEF PollOpen
  <1>21. ASSUME NEW c \in callbacks, PollFails(c)
         PROVE  PollsSound' /\ UpdatesSound' /\ PollingBounded'
    BY <1>5, <1>6, <1>7, <1>21 DEF PollFails
  <1>22. ASSUME NEW c \in callbacks, NEW v \in Verdict, PollEnds(c, v)
         PROVE  PollsSound' /\ UpdatesSound' /\ PollingBounded'
    <2>1. PollingBounded'
      BY <1>0, <1>22 DEF PollEnds, StopPolling, PollingBounded
    <2>2. /\ intervals' \subseteq intervals
          /\ callbacks' = (callbacks \ {c}) \cup {[c EXCEPT !.awaits = v]}
          /\ UNCHANGED <<sessions, updates>>
      BY <1>22 DEF PollEnds, StopPolling
    <2>3. c.session \in 1..Len(sessions) /\ sessions[c.session].status = Final(v)
      BY <1>0, <1>22 DEF PollEnds, PollDecides, Views, Final, PollsSound
    <2>4. ASSUME NEW d \in callbacks'
          PROVE  /\ d.session \in 1..Len(sessions)
                 /\ d.awaits \in Verdict => sessions[d.session].status = Final(d.awaits)
      <3>1. CASE d \in callbacks
        BY <1>0, <3>1 DEF PollsSound
      <3>2. CASE d = [c EXCEPT !.awaits = v]
        BY <1>0, <2>3, <3>2, CallbackType
      <3>. QED
        BY <2>2, <2>4, <3>1, <3>2
    <2>5. PollsSound'
      BY <1>0, <2>2, <2>4 DEF PollsSound
    <2>. QED
      BY <1>5, <2>1, <2>2, <2>5
  <1>23. ASSUME NEW c \in callbacks, SendUpdate(c) \/ SendUpdateFails(c)
         PROVE  PollsSound' /\ UpdatesSound' /\ PollingBounded'
    <2>1. /\ c.awaits \in Verdict
          /\ callbacks' \subseteq callbacks
          /\ updates' \subseteq updates \cup {UpdateOf(c)}
          /\ UNCHANGED <<sessions, active, intervals, safety>>
      BY <1>23 DEF SendUpdate, SendUpdateFails
    <2>2. c.session \in 1..Len(sessions) /\ sessions[c.session].status = Final(c.awaits)
      BY <1>0, <2>1 DEF PollsSound
    <2>3. UpdatesSound'
      BY <1>0, <2>1, <2>2, UpdateType DEF UpdatesSound
    <2>. QED
      BY <1>6, <1>7, <2>1, <2>3
  <1>24. CASE Crash
    BY <1>0, <1>5, <1>24 DEF Crash, PollsSound, PollingBounded
  <1>25. ASSUME NEW s \in Session, Becomes(s, "paid") \/ Becomes(s, "expired")
         PROVE  PollsSound' /\ UpdatesSound' /\ PollingBounded'
    BY <1>8, <1>25 DEF Becomes, polls
  <1>26. CASE UNCHANGED vars
    BY <1>8, <1>26 DEF vars
  <1>. QED
    BY <1>9, <1>10, <1>11, <1>12, <1>13, <1>14, <1>15, <1>16, <1>17, <1>18, <1>19, <1>20,
       <1>21, <1>22, <1>23, <1>24, <1>25, <1>26 DEF Next, Consumer, Resolves

\* The invariant holds at the start.
LEMMA InitInv == Init => IInv
  <1>1. Init => TypeOK
    BY BoundsAssumption DEF Init, TypeOK, Task, NoTask
  <1>. QED
    BY <1>1 DEF Init, IInv, PollsSound, UpdatesSound, PollingBounded

\* Every step preserves the invariant.
LEMMA StepInv == IInv /\ [Next]_vars => IInv'
  BY TypeStep, PollsStep DEF IInv

\* The inductive invariant holds of every state of the service.
THEOREM Invariance == Spec => []IInv
  BY InitInv, StepInv, PTL DEF Spec

\* Every state of the service is well-typed.
THEOREM TypeCorrect == Spec => []TypeOK
  <1>. IInv => TypeOK
    BY DEF IInv
  <1>. QED
    BY Invariance, PTL

\* However the polls of a session overlap, the order service is told only what
\* Stripe says, and never both verdicts.
THEOREM VerdictsTruthful == Spec => []UpdatesTruthful
  <1>1. IInv => UpdatesTruthful
    <2>. SUFFICES ASSUME IInv, NEW u \in updates
                  PROVE  /\ u.session \in DOMAIN sessions
                         /\ u.order = sessions[u.session].order
                         /\ u.status = "PAID" <=> sessions[u.session].status = "paid"
                         /\ u.status = "REJECTED" <=> sessions[u.session].status = "expired"
      BY DEF UpdatesTruthful
    <2>1. u.status \in Verdict /\ DOMAIN sessions = 1..Len(sessions)
      BY DEF IInv, TypeOK, Update
    <2>. QED
      BY <2>1 DEF IInv, UpdatesSound, Final, Verdict
  <1>. QED
    BY <1>1, Invariance, PTL

\* No interval runs without its entry and its 30-minute timer.
THEOREM PollingIsBounded == Spec => []PollingBounded
  <1>. IInv => PollingBounded
    BY DEF IInv
  <1>. QED
    BY Invariance, PTL

-----------------------------------------------------------------------------
\* A session is watched, has been reported, or was given up or left behind.
Watched(s) ==
  \/ s \in intervals
  \/ \E c \in callbacks : c.session = s /\ c.awaits \in Verdict
  \/ \E v \in Verdict : Reported(s, v)
  \/ s \in stopped \cup lost

\* The sessions handed out, and the one about to be, are watched.
WatchSound ==
  /\ \A r \in replies : r.ok => Watched(r.session)
  /\ task.stage = "respond" => Watched(task.session)

\* No step loses sight of a session silently.
LEMMA WatchKept ==
  ASSUME IInv, [Next]_vars, NEW s, Watched(s)
  PROVE  Watched(s)'
  <1>0. TypeOK /\ PollsSound
    BY DEF IInv
  <1>1. ASSUME intervals \subseteq intervals', updates \subseteq updates',
               stopped \subseteq stopped', lost \subseteq lost',
               \A c \in callbacks : c.awaits \in Verdict => c \in callbacks'
        PROVE  Watched(s)'
    BY <1>1 DEF Watched, Reported
  <1>2. ASSUME NEW m \in Requests, Arrive(m) PROVE Watched(s)'
    BY <1>1, <1>2 DEF Arrive, polls
  <1>3. CASE Take
    BY <1>1, <1>3 DEF Take, polls
  <1>4. CASE CreateSession
    BY <1>1, <1>4 DEF CreateSession, StartPolling
  <1>5. CASE CreateSessionFails
    BY <1>1, <1>5 DEF CreateSessionFails, polls
  <1>6. CASE Respond
    BY <1>1, <1>6 DEF Respond, polls
  <1>7. CASE RespondFails
    BY <1>1, <1>7 DEF RespondFails, polls
  <1>8. CASE RespondError
    BY <1>1, <1>8 DEF RespondError, polls
  <1>9. CASE RespondErrorFails
    BY <1>1, <1>9 DEF RespondErrorFails, polls
  <1>10. CASE Commit
    BY <1>1, <1>10 DEF Commit, polls
  <1>11. ASSUME NEW q \in Session, Tick(q) PROVE Watched(s)'
    BY <1>1, <1>11 DEF Tick
  <1>12. ASSUME NEW q \in Session, SafetyTimeout(q) PROVE Watched(s)'
    BY <1>0, <1>12 DEF SafetyTimeout, StopPolling, Watched, Reported, IInv, PollingBounded
  <1>13. ASSUME NEW c \in callbacks, PollOpen(c) PROVE Watched(s)'
    <2>1. c.awaits \notin Verdict
      BY <1>13 DEF PollOpen, Verdict
    <2>. QED
      BY <1>1, <1>13, <2>1 DEF PollOpen
  <1>14. ASSUME NEW c \in callbacks, PollFails(c) PROVE Watched(s)'
    <2>1. c.awaits \notin Verdict
      BY <1>14 DEF PollFails, Verdict
    <2>. QED
      BY <1>1, <1>14, <2>1 DEF PollFails
  <1>15. ASSUME NEW c \in callbacks, NEW v \in Verdict, PollEnds(c, v) PROVE Watched(s)'
    <2>1. c.awaits \notin Verdict
      BY <1>15 DEF PollEnds, Verdict
    <2>2. CASE s = c.session
      <3>1. PICK d : d = [c EXCEPT !.awaits = v]
        OBVIOUS
      <3>2. d \in callbacks' /\ d.session = s /\ d.awaits \in Verdict
        BY <1>0, <1>15, <2>2, <3>1, CallbackType DEF PollEnds
      <3>. QED
        BY <3>2 DEF Watched
    <2>3. CASE s # c.session
      BY <1>15, <2>1, <2>3 DEF PollEnds, StopPolling, Watched, Reported
    <2>. QED
      BY <2>2, <2>3
  <1>16. ASSUME NEW c \in callbacks, SendUpdate(c) PROVE Watched(s)'
    <2>1. /\ c.awaits \in Verdict
          /\ UpdateOf(c) \in updates'
          /\ UpdateOf(c).session = c.session /\ UpdateOf(c).status = c.awaits
      BY <1>0, <1>16, UpdateType DEF SendUpdate
    <2>2. CASE s = c.session
      <3>1. PICK u \in updates' : u.session = s /\ u.status \in Verdict
        BY <2>1, <2>2
      <3>. QED
        BY <3>1 DEF Watched, Reported
    <2>3. CASE s # c.session
      BY <1>16, <2>3 DEF SendUpdate, Watched, Reported
    <2>. QED
      BY <2>2, <2>3
  <1>17. ASSUME NEW c \in callbacks, SendUpdateFails(c) PROVE Watched(s)'
    <2>1. CASE s = c.session
      BY <1>17, <2>1 DEF SendUpdateFails, Watched
    <2>2. CASE s # c.session
      BY <1>17, <2>2 DEF SendUpdateFails, Watched, Reported
    <2>. QED
      BY <2>1, <2>2
  <1>18. CASE Crash
    BY <1>18 DEF Crash, Watched, Reported
  <1>19. ASSUME NEW q \in Session, Becomes(q, "paid") \/ Becomes(q, "expired")
         PROVE  Watched(s)'
    BY <1>1, <1>19 DEF Becomes, polls
  <1>20. CASE UNCHANGED vars
    BY <1>1, <1>20 DEF vars
  <1>. QED
    BY <1>2, <1>3, <1>4, <1>5, <1>6, <1>7, <1>8, <1>9, <1>10, <1>11, <1>12, <1>13, <1>14,
       <1>15, <1>16, <1>17, <1>18, <1>19, <1>20 DEF Next, Consumer, Resolves

\* Every step keeps what is handed out watched.
LEMMA WatchStep == IInv /\ WatchSound /\ [Next]_vars => WatchSound'
  <1>. SUFFICES ASSUME IInv, WatchSound, [Next]_vars PROVE WatchSound'
    OBVIOUS
  <1>1. \A s : Watched(s) => Watched(s)'
    BY WatchKept
  \* Steps that answer with no new session, and start on no answer.
  <1>2. ASSUME \A r \in replies' : r \in replies \/ ~r.ok,
               UNCHANGED task \/ task'.stage # "respond"
        PROVE  WatchSound'
    BY <1>1, <1>2 DEF WatchSound
  <1>3. ASSUME NEW m \in Requests, Arrive(m) PROVE WatchSound'
    BY <1>2, <1>3 DEF Arrive
  <1>4. CASE Take
    BY <1>2, <1>4 DEF Take, Working
  <1>5. CASE CreateSession
    <2>1. task' = Working("respond", task.msg, Len(sessions) + 1) /\ UNCHANGED replies
          /\ Len(sessions) + 1 \in intervals'
      BY <1>5 DEF CreateSession, StartPolling
    <2>2. task'.session \in intervals'
      BY <2>1 DEF Working
    <2>. QED
      BY <1>1, <2>1, <2>2 DEF WatchSound, Watched
  <1>6. CASE CreateSessionFails
    BY <1>2, <1>6 DEF CreateSessionFails, Working
  <1>7. CASE Respond \/ RespondFails
    <2>1. /\ task.stage = "respond"
          /\ replies' \in {replies, Answer(TRUE, task.session)}
          /\ task'.stage # "respond"
      <3>1. CASE Respond
        BY <3>1 DEF Respond, NoTask
      <3>2. CASE RespondFails
        BY <3>2 DEF RespondFails, Working
      <3>. QED
        BY <1>7, <3>1, <3>2
    <2>2. \A r \in replies' : r \in replies \/ r.session = task.session
      BY <2>1 DEF Answer
    <2>3. ASSUME NEW r \in replies', r.ok PROVE Watched(r.session)'
      <3>1. Watched(r.session)
        BY <2>1, <2>2, <2>3 DEF WatchSound
      <3>. QED
        BY <1>1, <3>1
    <2>. QED
      BY <2>1, <2>3 DEF WatchSound
  <1>8. CASE RespondError
    BY <1>2, <1>8 DEF RespondError, Answer, NoTask
  <1>9. CASE RespondErrorFails
    BY <1>2, <1>9 DEF RespondErrorFails, Answer, NoTask
  <1>10. CASE Commit
    BY <1>2, <1>10 DEF Commit
  <1>11. ASSUME NEW q \in Session, Tick(q) \/ SafetyTimeout(q) PROVE WatchSound'
    BY <1>2, <1>11 DEF Tick, SafetyTimeout
  <1>12. ASSUME NEW c \in callbacks, Resolves(c) PROVE WatchSound'
    BY <1>2, <1>12 DEF Resolves, PollOpen, PollFails, PollEnds, SendUpdate, SendUpdateFails
  <1>13. CASE Crash
    BY <1>2, <1>13 DEF Crash, NoTask
  <1>14. ASSUME NEW q \in Session, Becomes(q, "paid") \/ Becomes(q, "expired")
         PROVE  WatchSound'
    BY <1>2, <1>14 DEF Becomes
  <1>15. CASE UNCHANGED vars
    BY <1>2, <1>15 DEF vars
  <1>. QED
    BY <1>3, <1>4, <1>5, <1>6, <1>7, <1>8, <1>9, <1>10, <1>11, <1>12, <1>13, <1>14, <1>15
       DEF Next, Consumer

\* A session whose page a customer was given is never dropped silently.
THEOREM NothingHandedOutIsDropped == Spec => []HandedOutIsWatched
  <1>1. Init => WatchSound
    BY DEF Init, WatchSound, NoTask
  <1>2. WatchSound => HandedOutIsWatched
    BY DEF WatchSound, HandedOutIsWatched, Watched
  <1>. QED
    BY <1>1, <1>2, WatchStep, Invariance, PTL DEF Spec

-----------------------------------------------------------------------------
\* The session that is answered with was made for the order of the request.
MadeFor(s, m) == s \in 1..Len(sessions) /\ sessions[s].order = m.order

HandedSound ==
  /\ task.stage = "respond" => MadeFor(task.session, task.msg)
  /\ \A r \in replies, m \in Requests : r.ok /\ r.to = m.id => MadeFor(r.session, m)

\* Every step keeps it so.
LEMMA HandedStep == IInv /\ HandedSound /\ [Next]_vars => HandedSound'
  <1>. SUFFICES ASSUME IInv, HandedSound, [Next]_vars PROVE HandedSound'
    OBVIOUS
  <1>0. TypeOK /\ SessionsKept /\ Len(sessions) \in Nat /\ Len(sessions') \in Nat
    BY SessionsStep, TypeStep DEF IInv, TypeOK
  <1>1. \A s, m : MadeFor(s, m) => MadeFor(s, m)'
    BY <1>0 DEF MadeFor, SessionsKept
  \* Steps that answer with no new session, and start on no answer.
  <1>2. ASSUME \A r \in replies' : r \in replies \/ ~r.ok,
               UNCHANGED task \/ task'.stage # "respond"
        PROVE  HandedSound'
    BY <1>1, <1>2 DEF HandedSound
  <1>3. ASSUME NEW m \in Requests, Arrive(m) PROVE HandedSound'
    BY <1>2, <1>3 DEF Arrive
  <1>4. CASE Take
    BY <1>2, <1>4 DEF Take, Working
  <1>5. CASE CreateSession
    <2>1. task.msg \in Requests /\ NewSession(task.msg)
      BY <1>0, <1>5, AtWork DEF CreateSession
    <2>2. sessions' = Append(sessions, [order |-> task.msg.order, status |-> "open"])
      BY <2>1 DEF NewSession
    <2>3. Len(sessions') = Len(sessions) + 1 /\ sessions'[Len(sessions) + 1].order = task.msg.order
      BY <1>0, <2>1, <2>2, SessionCreated, AppendProperties DEF TypeOK
    <2>4. /\ task'.session = Len(sessions) + 1 /\ task'.msg = task.msg
          /\ UNCHANGED replies
      BY <1>5 DEF CreateSession, Working
    <2>5. MadeFor(task.session, task.msg)'
      BY <1>0, <2>3, <2>4 DEF MadeFor
    <2>. QED
      BY <1>1, <2>4, <2>5 DEF HandedSound
  <1>6. CASE CreateSessionFails
    BY <1>2, <1>6 DEF CreateSessionFails, Working
  <1>7. CASE Respond \/ RespondFails
    <2>1. /\ task.stage = "respond"
          /\ replies' \in {replies, Answer(TRUE, task.session)}
          /\ task'.stage # "respond"
      <3>1. CASE Respond
        BY <3>1 DEF Respond, NoTask
      <3>2. CASE RespondFails
        BY <3>2 DEF RespondFails, Working
      <3>. QED
        BY <1>7, <3>1, <3>2
    <2>2. \A r \in replies' : r \in replies \/ (r.session = task.session /\ r.to = task.msg.id)
      BY <2>1 DEF Answer
    <2>3. task.msg \in Requests
      BY <1>0, <2>1, AtWork
    <2>4. ASSUME NEW r \in replies', NEW m \in Requests, r.ok, r.to = m.id
          PROVE  MadeFor(r.session, m)
      <3>1. CASE r \in replies
        BY <2>4, <3>1 DEF HandedSound
      <3>2. CASE r.session = task.session /\ r.to = task.msg.id
        BY <2>1, <2>3, <2>4, <3>2, RequestsAssumption DEF HandedSound
      <3>. QED
        BY <2>2, <3>1, <3>2
    <2>. QED
      BY <1>1, <2>1, <2>4 DEF HandedSound
  <1>8. CASE RespondError
    BY <1>2, <1>8 DEF RespondError, Answer, NoTask
  <1>9. CASE RespondErrorFails
    BY <1>2, <1>9 DEF RespondErrorFails, Answer, NoTask
  <1>10. CASE Commit
    BY <1>2, <1>10 DEF Commit
  <1>11. ASSUME NEW q \in Session, Tick(q) \/ SafetyTimeout(q) PROVE HandedSound'
    BY <1>2, <1>11 DEF Tick, SafetyTimeout
  <1>12. ASSUME NEW c \in callbacks, Resolves(c) PROVE HandedSound'
    BY <1>2, <1>12 DEF Resolves, PollOpen, PollFails, PollEnds, SendUpdate, SendUpdateFails
  <1>13. CASE Crash
    BY <1>2, <1>13 DEF Crash, NoTask
  <1>14. ASSUME NEW q \in Session, Becomes(q, "paid") \/ Becomes(q, "expired")
         PROVE  HandedSound'
    BY <1>2, <1>14 DEF Becomes
  <1>15. CASE UNCHANGED vars
    BY <1>2, <1>15 DEF vars
  <1>. QED
    BY <1>3, <1>4, <1>5, <1>6, <1>7, <1>8, <1>9, <1>10, <1>11, <1>12, <1>13, <1>14, <1>15
       DEF Next, Consumer

\* An OK answer names a session of Stripe that was made for the order of the
\* request it answers, however often the request was delivered (create-session).
THEOREM AnswersMadeForTheirOrder == Spec => []HandedSound
  <1>1. Init => HandedSound
    BY DEF Init, HandedSound, NoTask
  <1>. QED
    BY <1>1, HandedStep, Invariance, PTL DEF Spec

-----------------------------------------------------------------------------
\* No two entries are of one order.
Apart(log) == \A i, j \in 1..Len(log) : log[i].order = log[j].order => i = j

\* Session s can be the one that request i was answered with.
From(s, i) ==
  /\ inbox[i].order = sessions[s].order
  /\ task.stage = "create" => i < position

\* Without a fault the handler is at the last request it took, and each session
\* comes from a request of its own.
TakenOnce ==
  faults = 0 =>
    /\ task.stage # "idle" => position > 0 /\ task.msg = inbox[position]
    /\ \A s \in 1..Len(sessions) : \E i \in 1..position : From(s, i)
    /\ Apart(inbox) => Apart(sessions)

\* Every step keeps it so.
LEMMA TakenOnceStep == IInv /\ TakenOnce /\ [Next]_vars => TakenOnce'
  <1>. SUFFICES ASSUME IInv, TakenOnce, [Next]_vars, faults' = 0 PROVE TakenOnce'
    BY DEF TakenOnce
  <1>0. /\ TypeOK /\ faults \in Nat /\ faults + 1 # 0
        /\ Len(sessions) \in Nat /\ position \in Nat /\ Len(inbox) \in Nat
        /\ position <= Len(inbox)
    BY DEF IInv, TypeOK
  \* Steps that take nothing and create nothing.
  <1>1. ASSUME UNCHANGED <<inbox, position, faults>>,
               UNCHANGED task \/ task' = NoTask,
               Len(sessions') = Len(sessions),
               \A s \in 1..Len(sessions) : sessions'[s].order = sessions[s].order
        PROVE  TakenOnce'
    <2>1. task'.stage # "idle" => task' = task
      BY <1>1 DEF NoTask
    <2>2. task'.stage = "create" => task.stage = "create"
      BY <1>1 DEF NoTask
    <2>3. ASSUME task'.stage # "idle" PROVE position' > 0 /\ task'.msg = inbox'[position']
      BY <1>1, <2>1, <2>3 DEF TakenOnce
    <2>4. ASSUME NEW s \in 1..Len(sessions') PROVE \E i \in 1..position' : From(s, i)'
      <3>1. s \in 1..Len(sessions) /\ sessions'[s].order = sessions[s].order
        BY <1>1, <2>4
      <3>2. PICK i \in 1..position : From(s, i)
        BY <1>1, <3>1 DEF TakenOnce
      <3>3. From(s, i)'
        BY <1>1, <2>2, <3>1, <3>2 DEF From
      <3>. QED
        BY <1>1, <3>3
    <2>5. Apart(inbox') => Apart(sessions')
      <3>1. Apart(inbox) => Apart(sessions)
        BY <1>1 DEF TakenOnce
      <3>. QED
        BY <1>1, <3>1 DEF Apart
    <2>. QED
      BY <2>3, <2>4, <2>5 DEF TakenOnce, Apart
  <1>2. ASSUME UNCHANGED <<inbox, position, faults, sessions>>,
               UNCHANGED task \/ task' = NoTask
        PROVE  TakenOnce'
    BY <1>1, <1>2
  <1>3. ASSUME NEW m \in Requests, Arrive(m) PROVE TakenOnce'
    <2>1. /\ Len(inbox') = Len(inbox) + 1
          /\ \A i \in 1..Len(inbox) : i \in 1..Len(inbox') /\ inbox'[i] = inbox[i]
      BY <1>0, <1>3, AppendProperties DEF Arrive, TypeOK
    <2>2. \A i \in 1..position : inbox'[i] = inbox[i]
      BY <1>0, <2>1
    <2>3. position > 0 => inbox'[position] = inbox[position]
      BY <1>0, <2>2
    <2>4. Apart(inbox') => Apart(inbox)
      BY <2>1 DEF Apart
    <2>5. UNCHANGED <<position, task, sessions, faults>>
      BY <1>3 DEF Arrive
    <2>6. ASSUME task'.stage # "idle" PROVE position' > 0 /\ task'.msg = inbox'[position']
      BY <2>3, <2>5, <2>6 DEF TakenOnce
    <2>7. ASSUME NEW s \in 1..Len(sessions') PROVE \E i \in 1..position' : From(s, i)'
      <3>1. PICK i \in 1..position : From(s, i)
        BY <2>5, <2>7 DEF TakenOnce
      <3>2. From(s, i)'
        BY <2>2, <2>5, <3>1 DEF From
      <3>. QED
        BY <2>5, <3>2
    <2>8. Apart(inbox') => Apart(sessions')
      BY <2>4, <2>5 DEF TakenOnce, Apart
    <2>. QED
      BY <2>6, <2>7, <2>8 DEF TakenOnce, Apart
  <1>4. CASE Take
    <2>1. /\ position' = position + 1 /\ task'.msg = inbox[position']
          /\ UNCHANGED <<inbox, sessions, faults>>
      BY <1>4 DEF Take, Working
    <2>2. \A i \in 1..position : i \in 1..position' /\ i < position'
      BY <1>0, <2>1
    <2>3. position' > 0
      BY <1>0, <2>1
    <2>. QED
      BY <2>1, <2>2, <2>3 DEF TakenOnce, From, Apart
  <1>5. CASE CreateSession
    <2>1. task.msg \in Requests /\ NewSession(task.msg)
      BY <1>0, <1>5, AtWork DEF CreateSession
    <2>2. sessions' = Append(sessions, [order |-> task.msg.order, status |-> "open"])
      BY <2>1 DEF NewSession
    <2>3. /\ Len(sessions') = Len(sessions) + 1
          /\ \A s \in 1..Len(sessions) : sessions'[s] = sessions[s]
          /\ sessions'[Len(sessions) + 1].order = task.msg.order
      BY <1>0, <2>1, <2>2, SessionCreated, AppendProperties DEF TypeOK
    <2>4. /\ task.stage = "create" /\ task'.stage = "respond" /\ task'.msg = task.msg
          /\ UNCHANGED <<inbox, position, faults>>
      BY <1>5 DEF CreateSession, Working, kafka
    <2>5. /\ position > 0 /\ task.msg = inbox[position] /\ position \in 1..position
          /\ \A s \in 1..Len(sessions) :
               \E i \in 1..position : inbox[i].order = sessions[s].order /\ i < position
      <3>1. faults = 0 /\ task.stage # "idle" /\ task.stage = "create"
        BY <2>4
      <3>2. position > 0 /\ task.msg = inbox[position]
        BY <3>1 DEF TakenOnce
      <3>3. \A s \in 1..Len(sessions) :
              \E i \in 1..position : inbox[i].order = sessions[s].order /\ i < position
        <4>. TAKE s \in 1..Len(sessions)
        <4>1. PICK i \in 1..position : From(s, i)
          BY <3>1 DEF TakenOnce
        <4>. QED
          BY <3>1, <4>1 DEF From
      <3>. QED
        BY <1>0, <3>2, <3>3
    <2>6. \A s \in 1..Len(sessions') : s \in 1..Len(sessions) \/ s = Len(sessions) + 1
      BY <1>0, <2>3
    <2>7. \A s \in 1..Len(sessions') : \E i \in 1..position : inbox[i].order = sessions'[s].order
      BY <2>3, <2>5, <2>6
    <2>8. ASSUME Apart(inbox) PROVE Apart(sessions')
      <3>1. Apart(sessions)
        BY <2>4, <2>8 DEF TakenOnce
      <3>2. ASSUME NEW s \in 1..Len(sessions)
            PROVE  sessions[s].order # inbox[position].order
        <4>1. PICK i \in 1..position : inbox[i].order = sessions[s].order /\ i < position
          BY <2>5
        <4>2. i \in 1..Len(inbox) /\ position \in 1..Len(inbox) /\ i # position
          BY <1>0, <2>5, <4>1
        <4>. QED
          BY <2>8, <4>1, <4>2 DEF Apart
      <3>. QED
        BY <2>3, <2>5, <2>6, <3>1, <3>2 DEF Apart
    <2>. QED
      BY <2>4, <2>5, <2>7, <2>8 DEF TakenOnce, From, Apart
  <1>6. CASE Respond \/ RespondError \/ Commit
    BY <1>2, <1>6 DEF Respond, RespondError, Commit, kafka
  <1>7. CASE CreateSessionFails \/ RespondFails \/ RespondErrorFails \/ Crash
    BY <1>0, <1>7 DEF CreateSessionFails, RespondFails, RespondErrorFails, Crash, Fault
  <1>8. ASSUME NEW q \in Session, Tick(q) \/ SafetyTimeout(q) PROVE TakenOnce'
    BY <1>2, <1>8 DEF Tick, SafetyTimeout, kafka
  <1>9. ASSUME NEW c \in callbacks, Resolves(c) PROVE TakenOnce'
    <2>1. CASE PollFails(c) \/ SendUpdateFails(c)
      BY <1>0, <2>1 DEF PollFails, SendUpdateFails, Fault
    <2>2. CASE PollOpen(c) \/ (\E v \in Verdict : PollEnds(c, v)) \/ SendUpdate(c)
      BY <1>2, <2>2 DEF PollOpen, PollEnds, SendUpdate, kafka
    <2>. QED
      BY <1>9, <2>1, <2>2 DEF Resolves
  <1>10. ASSUME NEW q \in Session, Becomes(q, "paid") \/ Becomes(q, "expired")
         PROVE  TakenOnce'
    BY <1>0, <1>1, <1>10, SessionEnds DEF Becomes, kafka, SessionsKept
  <1>11. CASE UNCHANGED vars
    BY <1>2, <1>11 DEF vars
  <1>. QED
    BY <1>3, <1>4, <1>5, <1>6, <1>7, <1>8, <1>9, <1>10, <1>11 DEF Next, Consumer

\* Without a fault, requests of different orders get sessions of different orders:
\* no request is answered with two of them (create-session).
THEOREM OneSessionForEach == Spec => [](faults = 0 /\ Apart(inbox) => Apart(sessions))
  <1>1. Init => TakenOnce
    BY DEF Init, TakenOnce, NoTask, Apart
  <1>2. TakenOnce => (faults = 0 /\ Apart(inbox) => Apart(sessions))
    BY DEF TakenOnce
  <1>. QED
    BY <1>1, <1>2, TakenOnceStep, Invariance, PTL DEF Spec

=============================================================================

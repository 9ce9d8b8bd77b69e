---------------------------- MODULE ExportService ----------------------------
(***************************************************************************)
(* The export service on common-golang: ConsumeClaim, which starts a       *)
(* goroutine for each record and never waits for it, dispatch, the export  *)
(* handler, the SendRequest with which it asks for the orders, and the     *)
(* Producer that carries the answers.                                      *)
(*                                                                         *)
(* A task is the goroutine that a session of the consumer group started    *)
(* for a record.  Tasks of one session run together, up to MaxConcurrency, *)
(* and go on when their session has ended.                                 *)
(***************************************************************************)
EXTENDS Naturals, Sequences, FiniteSets

CONSTANTS
  Topics,           \* what the request topic may hold
  MaxRecords,       \* bound on its length
  MaxConcurrency,   \* Config.MaxConcurrency
  MaxEnds,          \* bound on rebalances, shutdowns and crashes, together
  MaxFaults         \* bound on failures: sends, health checks, panics, answers

\* Records by what ConsumeClaim, dispatch and the handler tell apart: those
\* it skips (no JSON, or older than TimeDiffIgnore), those of no route, those
\* whose user may not read orders, and exports.  A record asks for an answer
\* if it has a response destination.
Kind == {"skipped", "unrouted", "forbidden", "export"}
Record == [kind : Kind, reply : BOOLEAN]

ASSUME ExportAssumption ==
  /\ Topics \subseteq {r \in Seq(Record) : Len(r) <= MaxRecords}
  /\ MaxRecords \in Nat
  /\ MaxConcurrency \in Nat \ {0}
  /\ MaxEnds \in Nat /\ MaxFaults \in Nat

VARIABLES
  records,    \* the request topic
  phase,      \* "up", or "closing" when the signal has come
  session,    \* the session of the consumer group, counted over all processes
  next,       \* the record that the claim gives next
  held,       \* the one read that waits for the semaphore, or 0
  marked,     \* the highest record marked in this session
  committed,  \* the group's offset: it has one, it is not its first start
  task,       \* what each task is doing
  promise,    \* what SendRequest returned to it
  box,        \* what is in the channel of its SendRequest
  sent,       \* tasks whose request is in the order service's topic
  replies,    \* the answers in the response topic
  ignored,    \* requests that the order service never answers
  answered,   \* tasks whose answer is in the topic it was to go to
  unsent,     \* tasks whose answer could not be sent
  faults,
  inner, made, open, using, asked, reconnect, closing   \* of the Producer

Session == 1..(MaxEnds + 1)
Task == Session \X (1..MaxRecords)
Answer == [to : Task, ok : BOOLEAN]

producerVars == <<inner, made, open, using, asked, reconnect, closing>>
claimVars == <<records, phase, session, next, held, marked, committed>>
callVars == <<promise, box, sent, replies, ignored>>
endVars == <<answered, unsent>>
vars == <<claimVars, task, callVars, endVars, faults, producerVars>>

Producer == INSTANCE GoProducer WITH Sender <- Task

Running == {"asking", "upload", "answer", "sending"}
Ended == {"done", "panicked", "lost"}
RunningIn(s) == {o \in 1..MaxRecords : task[<<s, o>>] \in Running}

TypeOK ==
  /\ records \in Topics
  /\ phase \in {"up", "closing"}
  /\ session \in Session
  /\ held \in 0..Len(records)
  /\ next \in 1..(Len(records) + 1)
  /\ committed \in 0..marked
  /\ marked \in 0..(next - 1)
  /\ task \in [Task -> {"none"} \cup Running \cup Ended]
  /\ promise \in [Task -> {"none", "pending", "ok", "error", "failed", "gone"}]
  /\ box \in [Task -> {"empty", "ok", "error"}]
  /\ sent \subseteq Task
  /\ replies \subseteq Answer
  /\ ignored \subseteq sent
  /\ answered \subseteq Task
  /\ unsent \subseteq Task
  /\ faults \in 0..MaxFaults
  /\ Producer!TypeOK

Init ==
  /\ records \in Topics
  /\ phase = "up"
  /\ session = 1
  /\ next = 1
  /\ held = 0
  /\ marked = 0
  /\ committed = 0
  /\ task = [t \in Task |-> "none"]
  /\ promise = [t \in Task |-> "none"]
  /\ box = [t \in Task |-> "empty"]
  /\ sent = {}
  /\ replies = {}
  /\ ignored = {}
  /\ answered = {}
  /\ unsent = {}
  /\ faults = 0
  /\ Producer!Init

Fault == faults < MaxFaults /\ faults' = faults + 1

\* The session is not the last one the bound lets be.
Ending == session <= MaxEnds

-----------------------------------------------------------------------------
(* ConsumeClaim. *)

\* Mutant: the mark is that of the record handled last.
MarkLast(o) == marked' = o

\* MarkMessage only moves forward, whatever is in flight below.
Mark(o) == marked' = IF o > marked THEN o ELSE marked

\* The next record of the claim.  One that is skipped is marked by the loop.
Read ==
  /\ phase = "up"
  /\ held = 0
  /\ next <= Len(records)
  /\ next' = next + 1
  /\ IF records[next].kind = "skipped"
     THEN Mark(next) /\ UNCHANGED held
     ELSE held' = next /\ UNCHANGED marked
  /\ UNCHANGED <<records, phase, session, committed, task, callVars, endVars, faults,
                 producerVars>>

Becomes(t, stage) == task' = [task EXCEPT ![t] = stage]

\* Mutant: a uri without a handler is only logged.
DispatchKnown(t) ==
  CASE records[t[2]].kind = "export" ->
         Becomes(t, "asking") /\ promise' = [promise EXCEPT ![t] = "pending"]
    [] records[t[2]].kind = "unrouted" -> Becomes(t, "done") /\ UNCHANGED promise
    [] OTHER -> Becomes(t, "answer") /\ UNCHANGED promise

\* dispatch and the handler's first lines: an export calls SendRequest, anything
\* else has its answer.
Dispatch(t) ==
  IF records[t[2]].kind = "export"
  THEN Becomes(t, "asking") /\ promise' = [promise EXCEPT ![t] = "pending"]
  ELSE Becomes(t, "answer") /\ UNCHANGED promise

\* Mutant: the semaphore has room for one more.
StartOneMore ==
  /\ held # 0
  /\ Cardinality(RunningIn(session)) <= MaxConcurrency
  /\ Dispatch(<<session, held>>)
  /\ held' = 0
  /\ UNCHANGED <<records, phase, session, next, marked, committed, box, sent, replies, ignored,
                 endVars, faults, producerVars>>

\* sem <- struct{}{} and the go statement.
Start ==
  /\ held # 0
  /\ Cardinality(RunningIn(session)) < MaxConcurrency
  /\ Dispatch(<<session, held>>)
  /\ held' = 0
  /\ UNCHANGED <<records, phase, session, next, marked, committed, box, sent, replies, ignored,
                 endVars, faults, producerVars>>

\* sarama commits what is marked.
Commit ==
  /\ phase = "up"
  /\ committed' = marked
  /\ UNCHANGED <<records, phase, session, next, held, marked, task, callVars, endVars,
                 faults, producerVars>>

\* A new session reads from the committed offset.
Resume(offset) ==
  /\ session' = session + 1
  /\ committed' = offset
  /\ marked' = offset
  /\ next' = offset + 1
  /\ held' = 0

\* The claim is closed and ConsumeClaim returns, unless it waits for the
\* semaphore; its goroutines are not waited for.  The marks are flushed or not.
Rebalance ==
  /\ phase = "up"
  /\ held = 0
  /\ Ending
  /\ \E offset \in {committed, marked} : Resume(offset)
  /\ UNCHANGED <<records, phase, task, callVars, endVars, faults, producerVars>>

-----------------------------------------------------------------------------
(* A task: dispatch and HandleExportOrders. *)

\* The client's send.  The broker has the record, maybe before the send returns
\* and although it fails.
RequestWritten(t) ==
  /\ task[t] = "asking"
  /\ t \notin sent
  /\ sent' = sent \cup {t}
  /\ UNCHANGED <<claimVars, task, promise, box, replies, ignored, endVars,
                 faults, producerVars>>

\* The handler returns the error, and dispatch answers with it.
RequestFails(t) ==
  /\ task[t] = "asking"
  /\ Fault
  /\ promise' = [promise EXCEPT ![t] = "failed"]
  /\ box' = [box EXCEPT ![t] = "empty"]
  /\ Becomes(t, "answer")
  /\ UNCHANGED <<claimVars, sent, replies, ignored, endVars, producerVars>>

\* Mutant: handleResponse does not ask for whom the answer is.
FirstWaiting(a) ==
  LET waiting == {t \in Task : task[t] = "asking"}
  IN  IF waiting = {} THEN a.to ELSE CHOOSE t \in waiting : TRUE

\* c.pending.Load(msg.MessageID)
Asker(a) == a.to

\* handleResponse: the first answer to a pending call is put in its channel,
\* others and those of calls that have returned are dropped.
HandleResponse(a) ==
  /\ a \in replies
  /\ task[Asker(a)] = "asking"
  /\ box[Asker(a)] = "empty"
  /\ box' = [box EXCEPT ![Asker(a)] = IF a.ok THEN "ok" ELSE "error"]
  /\ UNCHANGED <<claimVars, task, promise, sent, replies, ignored, endVars,
                 faults, producerVars>>

\* SendRequest returns what is in the channel, an answer with a status code as
\* an error.  Its context is never done: dispatch makes it of Background.
Receive(t) ==
  /\ task[t] = "asking"
  /\ t \in sent
  /\ box[t] # "empty"
  /\ promise' = [promise EXCEPT ![t] = box[t]]
  /\ box' = [box EXCEPT ![t] = "empty"]
  /\ Becomes(t, IF box[t] = "ok" THEN "upload" ELSE "answer")
  /\ UNCHANGED <<claimVars, sent, replies, ignored, endVars, faults,
                 producerVars>>

\* PutObject and the presigned URL, or the error of one of them.
Upload(t) ==
  /\ task[t] = "upload"
  /\ Becomes(t, "answer")
  /\ UNCHANGED <<claimVars, callVars, endVars, faults, producerVars>>

\* The goroutine ends; the mark of a session that has ended counts for nothing.
Finish(t) ==
  /\ Becomes(t, "done")
  /\ IF t[1] = session /\ phase = "up" THEN Mark(t[2]) ELSE UNCHANGED marked
  /\ UNCHANGED <<records, phase, session, next, held, committed, callVars>>

\* sendData and sendError: no response destination, or the producer is closed.
NoAnswer(t) ==
  /\ task[t] = "answer"
  /\ \/ ~records[t[2]].reply /\ UNCHANGED unsent
     \/ records[t[2]].reply /\ Producer!Closed /\ unsent' = unsent \cup {t}
  /\ Finish(t)
  /\ UNCHANGED <<answered, faults, producerVars>>

SendAnswer(t) ==
  /\ task[t] = "answer"
  /\ records[t[2]].reply
  /\ Producer!Take(t)
  /\ Becomes(t, "sending")
  /\ UNCHANGED <<claimVars, callVars, endVars, faults>>

AnswerSent(t) ==
  /\ task[t] = "sending"
  /\ Producer!Sent(t)
  /\ answered' = answered \cup {t}
  /\ Finish(t)
  /\ UNCHANGED <<unsent, faults>>

\* The error is logged, and the record handled.
AnswerFails(t) ==
  /\ task[t] = "sending"
  /\ \/ using[t] \notin open /\ UNCHANGED faults
     \/ using[t] \in open /\ Fault
  /\ \E reconnects \in BOOLEAN : Producer!SendFails(t, reconnects)
  /\ unsent' = unsent \cup {t}
  /\ Finish(t)
  /\ UNCHANGED answered

\* A panic in a library, the send's among them, recovered by ConsumeClaim: no
\* answer and no mark.
Panic(t) ==
  /\ \/ task[t] \in {"upload", "answer"} /\ Fault /\ UNCHANGED producerVars
     \/ task[t] = "sending" /\ Producer!SendPanics(t) /\ UNCHANGED faults
  /\ Becomes(t, "panicked")
  /\ UNCHANGED <<claimVars, callVars, endVars>>

-----------------------------------------------------------------------------
(* The order service, as SendRequest sees it. *)

\* It answers a request it has; taking it twice, it may answer twice.
Serve(a) ==
  /\ a.to \in sent \ ignored
  /\ a \notin replies
  /\ \/ UNCHANGED faults /\ \A b \in replies : b.to # a.to
     \/ Fault /\ \E b \in replies : b.to = a.to
  /\ replies' = replies \cup {a}
  /\ UNCHANGED <<claimVars, task, promise, box, sent, ignored, endVars,
                 producerVars>>

\* It drops the request: an envelope it cannot read, an answer not sent.
Ignore(t) ==
  /\ t \in sent \ ignored
  /\ \A b \in replies : b.to # t
  /\ Fault
  /\ ignored' = ignored \cup {t}
  /\ UNCHANGED <<claimVars, task, promise, box, sent, replies, endVars,
                 producerVars>>

-----------------------------------------------------------------------------
(* The producer on its own, and the life of the process. *)

Reconnecting ==
  /\ Producer!Reconnect
  /\ UNCHANGED <<claimVars, task, callVars, endVars, faults>>

Unreachable ==
  /\ Fault
  /\ Producer!Unhealthy
  /\ UNCHANGED <<claimVars, task, callVars, endVars>>

\* SIGTERM: reqHandler.Close waits for ConsumeClaim, whose marks are flushed.
Shutdown ==
  /\ phase = "up"
  /\ held = 0
  /\ Ending
  /\ phase' = "closing"
  /\ committed' = marked
  /\ UNCHANGED <<records, session, next, held, marked, task, callVars, endVars,
                 faults, producerVars>>

CloseProducer ==
  /\ phase = "closing"
  /\ Producer!CloseChannel \/ Producer!CloseInner
  /\ UNCHANGED <<claimVars, task, callVars, endVars, faults>>

\* The process ends with what its goroutines were doing; another one starts.
End ==
  /\ phase' = "up"
  /\ task' = [t \in Task |-> IF task[t] \in Running THEN "lost" ELSE task[t]]
  /\ promise' = [t \in Task |-> IF promise[t] = "pending" THEN "gone" ELSE promise[t]]
  /\ Resume(committed)
  /\ Producer!Restart
  /\ box' = [t \in Task |-> "empty"]
  /\ UNCHANGED <<records, sent, replies, ignored, endVars, faults>>

Exit == phase = "closing" /\ closing = "inner" /\ End

Crash == phase = "up" /\ Ending /\ End

Steps(t) ==
  \/ RequestWritten(t) \/ Receive(t) \/ Upload(t)
  \/ NoAnswer(t) \/ SendAnswer(t) \/ AnswerSent(t) \/ AnswerFails(t)

Next ==
  \/ Read \/ Start \/ Commit \/ Rebalance
  \/ \E t \in Task : Steps(t) \/ RequestFails(t) \/ Panic(t) \/ Ignore(t)
  \/ \E a \in Answer : HandleResponse(a) \/ Serve(a)
  \/ Reconnecting \/ Unreachable
  \/ Shutdown \/ CloseProducer \/ Exit \/ Crash

Spec == Init /\ [][Next]_vars

\* The claim goes on, goroutines run, the response topic is read, and the order
\* service answers what it does not ignore.  Nothing is assumed of commits, and
\* a reconnect need not succeed.
Fairness ==
  /\ WF_vars(Read \/ Start)
  /\ WF_vars(CloseProducer \/ Exit)
  /\ \A t \in Task :
       WF_vars(Steps(t) \/ \E ok \in BOOLEAN : LET a == [to |-> t, ok |-> ok]
                                             IN  HandleResponse(a) \/ Serve(a))

FairSpec == Spec /\ Fairness

-----------------------------------------------------------------------------
\* No record is committed past that was not taken up: each one below the
\* committed offset was skipped, or a goroutine was started for it, in some
\* session of some process (consumer.go:94-120).
CommitCovered ==
  \A o \in 1..committed :
    records[o].kind = "skipped" \/ \E s \in Session : task[<<s, o>>] # "none"

\* What MarkMessage out of order puts at risk: below a record that a session
\* has handled, fewer than MaxConcurrency of that session are still running, which
\* is what a crash loses of it for good (consumer.go:110-120).
RiskBounded ==
  \A s \in Session : \A d \in DOMAIN records :
    task[<<s, d>>] = "done" =>
      Cardinality({o \in RunningIn(s) : o < d}) < MaxConcurrency

\* What the commits may skip of the topic, in all: records that still run, and few
\* of them (ConsumeClaim).
SkipsBounded == CommitCovered /\ RiskBounded

\* What SendRequest promises the handler: its own answer, or an error.
Promises == INSTANCE Rpc WITH Request <- Task, answers <- replies
ImplementsRpc == Promises!Spec

\* What Close, Send and the reconnects of the answers' producer keep.
ProducerUsable == Producer!ProducerUsable

\* A request that asks for an answer gets one, through rebalances and failures
\* of the order service's answers to others, unless its own goroutine was lost
\* with the process or panicked, its answer was not sent, or it waits for an
\* order service that ignored it; or as many wait so as the semaphore lets in.
RequestAnswered ==
  <>(\A o \in DOMAIN records : records[o].reply /\ records[o].kind # "skipped" =>
       \/ \E s \in Session :
            \/ <<s, o>> \in answered \cup unsent \cup ignored
            \/ task[<<s, o>>] \in {"panicked", "lost"}
       \/ Cardinality(ignored) >= MaxConcurrency)
=============================================================================

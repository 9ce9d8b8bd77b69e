------------------------- MODULE ExportServiceProofs -------------------------
(***************************************************************************)
(* Proofs about the export service, for any topic, any MaxConcurrency and  *)
(* any number of sessions and failures.                                    *)
(***************************************************************************)
EXTENDS ExportService, FiniteSetTheorems, TLAPS

\* The part of TypeOK that is about the claim and its tasks.
ClaimTyped ==
  /\ records \in Seq(Record) /\ Len(records) <= MaxRecords
  /\ session \in Session
  /\ phase = "closing" => session <= MaxEnds
  /\ next \in 1..(Len(records) + 1)
  /\ held \in 0..Len(records)
  /\ marked \in 0..(next - 1)
  /\ committed \in 0..marked
  /\ task \in [Task -> {"none"} \cup Running \cup Ended]

\* Goroutines are started in the order of the topic, and marks stay below the
\* record that waits.
InOrder ==
  /\ held # 0 => held = next - 1 /\ marked < held
  /\ \A s \in Session : \A o \in 1..MaxRecords : task[<<s, o>>] # "none" =>
       /\ s <= session
       /\ s = session => o < next /\ o # held

\* What the loop has read was skipped, was started, or waits.
ReadTaken ==
  \A o \in 1..(next - 1) :
    \/ o = held
    \/ records[o].kind = "skipped"
    \/ \E s \in Session : task[<<s, o>>] # "none"

Below(s, d) == {o \in RunningIn(s) : o < d}

\* From its start on, a record has room above what still runs below it.
RoomBelow ==
  \A s \in Session : \A d \in 1..MaxRecords :
    task[<<s, d>>] # "none" => Cardinality(Below(s, d)) < MaxConcurrency

IInv == ClaimTyped /\ InOrder /\ ReadTaken /\ RoomBelow

-----------------------------------------------------------------------------
\* Tasks that run only go on, or end.
OnlyGoOn ==
  /\ task' \in [Task -> {"none"} \cup Running \cup Ended]
  /\ \A t \in Task : \/ task'[t] = task[t]
                     \/ task[t] \in Running /\ task'[t] \in Running \cup Ended

\* Then what was started stays so, and what runs ran before.
LEMMA GoOn ==
  ASSUME ClaimTyped, OnlyGoOn
  PROVE  \A s \in Session : \A o \in 1..MaxRecords :
           /\ task'[<<s, o>>] = "none" <=> task[<<s, o>>] = "none"
           /\ task'[<<s, o>>] \in Running => task[<<s, o>>] \in Running
  <1>. TAKE s \in Session
  <1>. TAKE o \in 1..MaxRecords
  <1>1. <<s, o>> \in Task
    BY DEF Task
  <1>. QED
    BY <1>1 DEF OnlyGoOn, Running, Ended

\* What runs below a record is finite, and fewer if it is part of what ran.
LEMMA FewerBelow ==
  ASSUME NEW S, NEW T, S \subseteq T, T \subseteq 1..MaxRecords,
         Cardinality(T) < MaxConcurrency
  PROVE  Cardinality(S) < MaxConcurrency
  <1>1. IsFiniteSet(1..MaxRecords)
    BY ExportAssumption, FS_Interval
  <1>2. IsFiniteSet(T) /\ IsFiniteSet(S)
    BY <1>1, FS_Subset
  <1>3. Cardinality(S) <= Cardinality(T) /\ Cardinality(S) \in Nat /\ Cardinality(T) \in Nat
    BY <1>2, FS_Subset, FS_CardinalityType
  <1>. QED
    BY <1>3, ExportAssumption

\* Room stays while tasks only go on.
LEMMA RoomKept ==
  ASSUME ClaimTyped, RoomBelow, OnlyGoOn
  PROVE  RoomBelow'
  <1>. SUFFICES ASSUME NEW s \in Session, NEW d \in 1..MaxRecords,
                       task'[<<s, d>>] # "none"
                PROVE  Cardinality(Below(s, d)') < MaxConcurrency
    BY DEF RoomBelow
  <1>1. Cardinality(Below(s, d)) < MaxConcurrency
    BY GoOn DEF RoomBelow
  <1>2. Below(s, d)' \subseteq Below(s, d)
    BY GoOn DEF Below, RunningIn
  <1>3. Below(s, d) \subseteq 1..MaxRecords
    BY DEF Below, RunningIn
  <1>. QED
    BY <1>1, <1>2, <1>3, FewerBelow

\* A step that leaves the claim as it is, or only marks a started record.
LEMMA TaskStep ==
  ASSUME IInv, OnlyGoOn, UNCHANGED <<records, session, phase, next, held, committed>>,
         \/ UNCHANGED marked
         \/ \E o \in 1..MaxRecords : task[<<session, o>>] # "none" /\ Mark(o)
  PROVE  IInv'
  <1>0. ClaimTyped /\ InOrder /\ ReadTaken /\ RoomBelow
    BY DEF IInv
  <1>1. marked' \in 0..(next - 1) /\ marked' >= marked /\ (held # 0 => marked' < held)
    <2>1. CASE UNCHANGED marked
      BY <1>0, <2>1 DEF ClaimTyped, InOrder
    <2>2. ASSUME NEW o \in 1..MaxRecords, task[<<session, o>>] # "none", Mark(o)
          PROVE  marked' \in 0..(next - 1) /\ marked' >= marked /\ (held # 0 => marked' < held)
      <3>1. o < next /\ o # held
        BY <1>0, <2>2 DEF ClaimTyped, InOrder
      <3>2. marked' = IF o > marked THEN o ELSE marked
        BY <2>2 DEF Mark
      <3>3. next \in Nat /\ held \in Nat /\ marked \in 0..(next - 1)
            /\ (held # 0 => held = next - 1 /\ marked < held)
        BY <1>0 DEF ClaimTyped, InOrder
      <3>. QED
        BY <3>1, <3>2, <3>3
    <2>. QED
      BY <2>1, <2>2
  <1>2. ClaimTyped'
    BY <1>0, <1>1 DEF ClaimTyped, OnlyGoOn
  <1>3. InOrder'
    BY <1>0, <1>1, GoOn DEF InOrder, ClaimTyped
  <1>4. ReadTaken'
    <2>. SUFFICES ASSUME NEW o \in 1..(next - 1), o # held, records[o].kind # "skipped"
                  PROVE  \E s \in Session : task'[<<s, o>>] # "none"
      BY DEF ReadTaken
    <2>1. o \in 1..MaxRecords
      BY <1>0, ExportAssumption DEF ClaimTyped
    <2>. QED
      BY <1>0, <2>1, GoOn DEF ReadTaken
  <1>. QED
    BY <1>0, <1>2, <1>3, <1>4, RoomKept DEF IInv

-----------------------------------------------------------------------------
\* The loop reads a record, and marks it if it skips it.
LEMMA ReadStep == ASSUME IInv, Read PROVE IInv'
  <1>0. ClaimTyped /\ InOrder /\ ReadTaken /\ RoomBelow
    BY DEF IInv
  <1>1. /\ held = 0 /\ next <= Len(records) /\ next' = next + 1
        /\ UNCHANGED <<records, phase, session, committed, task>>
        /\ \/ records[next].kind = "skipped" /\ Mark(next) /\ UNCHANGED held
           \/ records[next].kind # "skipped" /\ held' = next /\ UNCHANGED marked
    BY DEF Read, claimVars
  <1>2. ClaimTyped'
    BY <1>0, <1>1 DEF ClaimTyped, Mark
  <1>3. InOrder'
    BY <1>0, <1>1 DEF InOrder, ClaimTyped
  <1>4. ReadTaken'
    <2>. SUFFICES ASSUME NEW o \in 1..next PROVE
             o = held' \/ records[o].kind = "skipped" \/ \E s \in Session : task[<<s, o>>] # "none"
      BY <1>0, <1>1 DEF ReadTaken, ClaimTyped
    <2>1. CASE o = next
      BY <1>1, <2>1
    <2>2. CASE o # next
      <3>1. o \in 1..(next - 1) /\ o # held
        BY <1>0, <1>1, <2>2 DEF ClaimTyped
      <3>. QED
        BY <1>0, <3>1 DEF ReadTaken
    <2>. QED
      BY <2>1, <2>2
  <1>5. RoomBelow'
    BY <1>0, <1>1 DEF RoomBelow, Below, RunningIn
  <1>. QED
    BY <1>2, <1>3, <1>4, <1>5 DEF IInv

\* The record that waits gets its goroutine.
LEMMA StartStep == ASSUME IInv, Start PROVE IInv'
  <1>0. ClaimTyped /\ InOrder /\ ReadTaken /\ RoomBelow
    BY DEF IInv
  <1> DEFINE t == <<session, held>>
  <1>1. /\ held # 0 /\ held' = 0
        /\ Cardinality(RunningIn(session)) < MaxConcurrency
        /\ UNCHANGED <<records, phase, session, next, marked, committed>>
    BY DEF Start
  <1>2. held \in 1..MaxRecords /\ held = next - 1 /\ session \in Session /\ t \in Task
    BY <1>0, <1>1, ExportAssumption DEF ClaimTyped, InOrder, Task
  <1>3. PICK stage \in Running : task' = [task EXCEPT ![t] = stage]
    BY DEF Start, Dispatch, Becomes, Running
  <1>4. ClaimTyped'
    BY <1>0, <1>1, <1>2, <1>3 DEF ClaimTyped
  <1>5. /\ task'[t] # "none"
        /\ \A s \in Session : \A o \in 1..MaxRecords :
             (s # session \/ o # held) => task'[<<s, o>>] = task[<<s, o>>]
    BY <1>0, <1>2, <1>3 DEF ClaimTyped, Running, Task
  <1>6. InOrder'
    <2>. SUFFICES ASSUME NEW s \in Session, NEW o \in 1..MaxRecords, task'[<<s, o>>] # "none"
                  PROVE  s <= session /\ (s = session => o < next /\ o # 0)
      BY <1>1 DEF InOrder
    <2>1. CASE s = session /\ o = held
      BY <1>0, <1>2, <2>1 DEF ClaimTyped, Session
    <2>2. CASE s # session \/ o # held
      BY <1>0, <1>5, <2>2 DEF InOrder
    <2>. QED
      BY <2>1, <2>2
  <1>7. ReadTaken'
    <2>. SUFFICES ASSUME NEW o \in 1..(next - 1), records[o].kind # "skipped"
                  PROVE  \E s \in Session : task'[<<s, o>>] # "none"
      BY <1>1 DEF ReadTaken
    <2>1. CASE o = held
      BY <1>2, <1>5, <2>1
    <2>2. CASE o # held
      <3>1. o \in 1..MaxRecords
        BY <1>0, ExportAssumption DEF ClaimTyped
      <3>. QED
        BY <1>0, <1>5, <2>2, <3>1 DEF ReadTaken
    <2>. QED
      BY <2>1, <2>2
  <1>8. RoomBelow'
    <2>. SUFFICES ASSUME NEW s \in Session, NEW d \in 1..MaxRecords, task'[<<s, d>>] # "none"
                  PROVE  Cardinality(Below(s, d)') < MaxConcurrency
      BY DEF RoomBelow
    <2>1. CASE s = session /\ d = held
      <3>1. Below(s, d)' \subseteq RunningIn(session)
        BY <1>0, <1>5, <2>1 DEF Below, RunningIn
      <3>2. RunningIn(session) \subseteq 1..MaxRecords
        BY DEF RunningIn
      <3>. QED
        BY <1>1, <3>1, <3>2, FewerBelow
    <2>2. CASE s # session \/ d # held
      <3>1. task[<<s, d>>] # "none"
        BY <1>5, <2>2
      <3>2. s = session => d < held
        BY <1>0, <1>2, <3>1 DEF InOrder, ClaimTyped
      <3>3. Below(s, d)' \subseteq Below(s, d)
        BY <1>2, <1>5, <3>2 DEF Below, RunningIn
      <3>4. Below(s, d) \subseteq 1..MaxRecords
        BY DEF Below, RunningIn
      <3>5. Cardinality(Below(s, d)) < MaxConcurrency
        BY <1>0, <3>1 DEF RoomBelow
      <3>. QED
        BY <3>3, <3>4, <3>5, FewerBelow
    <2>. QED
      BY <2>1, <2>2
  <1>. QED
    BY <1>4, <1>6, <1>7, <1>8 DEF IInv

\* The group's offset catches up with the marks.
LEMMA CommitStep ==
  ASSUME IInv, committed' = marked, phase' = "closing" => session <= MaxEnds,
         UNCHANGED <<records, session, next, held, marked, task>>
  PROVE  IInv'
  BY DEF IInv, ClaimTyped, InOrder, ReadTaken, RoomBelow, Below, RunningIn

\* A new session begins at the group's offset.
LEMMA ResumeStep ==
  ASSUME IInv, OnlyGoOn, session <= MaxEnds, NEW offset \in {committed, marked},
         Resume(offset), UNCHANGED records, phase' = "up"
  PROVE  IInv'
  <1>0. ClaimTyped /\ InOrder /\ ReadTaken /\ RoomBelow
    BY DEF IInv
  <1>1. offset \in 0..marked /\ offset \in 0..(next - 1) /\ marked \in Nat
    BY <1>0 DEF ClaimTyped
  <1>2. ClaimTyped'
    BY <1>0, <1>1, ExportAssumption DEF ClaimTyped, OnlyGoOn, Resume, Session
  <1>3. InOrder'
    <2>. SUFFICES ASSUME NEW s \in Session, NEW o \in 1..MaxRecords, task'[<<s, o>>] # "none"
                  PROVE  s <= session' /\ s # session'
      BY DEF InOrder, Resume
    <2>1. s <= session
      BY <1>0, GoOn DEF InOrder
    <2>. QED
      BY <1>0, <2>1, ExportAssumption DEF Resume, ClaimTyped, Session
  <1>4. ReadTaken'
    <2>. SUFFICES ASSUME NEW o \in 1..offset, records[o].kind # "skipped"
                  PROVE  \E s \in Session : task'[<<s, o>>] # "none"
      BY <1>1 DEF ReadTaken, Resume
    <2>1. o \in 1..(next - 1) /\ o # held /\ o \in 1..MaxRecords
      BY <1>0, <1>1, ExportAssumption DEF ClaimTyped, InOrder
    <2>. QED
      BY <1>0, <2>1, GoOn DEF ReadTaken
  <1>. QED
    BY <1>0, <1>2, <1>3, <1>4, RoomKept DEF IInv

-----------------------------------------------------------------------------
\* A task that runs goes on, and a step of something else lets all be.
LEMMA Going ==
  ASSUME ClaimTyped, NEW t \in Task, task[t] \in Running,
         NEW stage \in Running \cup Ended, Becomes(t, stage)
  PROVE  OnlyGoOn
  BY DEF ClaimTyped, OnlyGoOn, Becomes

\* A step that leaves what the argument is about alone.
LEMMA Still == ASSUME ClaimTyped, UNCHANGED task PROVE OnlyGoOn
  BY DEF ClaimTyped, OnlyGoOn

\* The end of a goroutine, with its mark if its session lasts.
LEMMA FinishStep ==
  ASSUME IInv, NEW t \in Task, task[t] \in Running, Finish(t)
  PROVE  IInv'
  <1>0. ClaimTyped
    BY DEF IInv
  <1>1. OnlyGoOn
    BY <1>0, Going DEF Finish, Ended
  <1>2. \/ UNCHANGED marked
        \/ \E o \in 1..MaxRecords : task[<<session, o>>] # "none" /\ Mark(o)
    <2>1. CASE t[1] = session /\ phase = "up"
      <3>1. t[2] \in 1..MaxRecords /\ task[<<session, t[2]>>] # "none" /\ Mark(t[2])
        BY <2>1 DEF Finish, Task, Running
      <3>. QED
        BY <3>1
    <2>2. CASE ~(t[1] = session /\ phase = "up")
      BY <2>2 DEF Finish
    <2>. QED
      BY <2>1, <2>2
  <1>. QED
    BY <1>1, <1>2, TaskStep DEF Finish

\* The steps of a task.
LEMMA StepsInv ==
  ASSUME IInv, NEW t \in Task, Steps(t) \/ RequestFails(t) \/ Panic(t) \/ Ignore(t)
  PROVE  IInv'
  <1>0. ClaimTyped
    BY DEF IInv
  <1>1. CASE RequestWritten(t) \/ Ignore(t)
    BY <1>0, <1>1, Still, TaskStep DEF RequestWritten, Ignore, claimVars
  <1>2. CASE Receive(t) \/ RequestFails(t)
    <2>1. OnlyGoOn
      BY <1>0, <1>2, Going DEF Receive, RequestFails, Running
    <2>. QED
      BY <1>2, <2>1, TaskStep DEF Receive, RequestFails, claimVars
  <1>3. CASE Upload(t) \/ SendAnswer(t)
    <2>1. OnlyGoOn
      BY <1>0, <1>3, Going DEF Upload, SendAnswer, Running
    <2>. QED
      BY <1>3, <2>1, TaskStep DEF Upload, SendAnswer, claimVars
  <1>4. CASE Panic(t)
    <2>1. OnlyGoOn
      BY <1>0, <1>4, Going DEF Panic, Running, Ended
    <2>. QED
      BY <1>4, <2>1, TaskStep DEF Panic, claimVars
  <1>5. CASE NoAnswer(t) \/ AnswerSent(t) \/ AnswerFails(t)
    BY <1>5, FinishStep DEF NoAnswer, AnswerSent, AnswerFails, Running
  <1>. QED
    BY <1>1, <1>2, <1>3, <1>4, <1>5 DEF Steps

\* The process ends.
LEMMA EndStep == ASSUME IInv, session <= MaxEnds, End PROVE IInv'
  <1>0. ClaimTyped
    BY DEF IInv
  <1>1. OnlyGoOn
    BY <1>0 DEF End, ClaimTyped, OnlyGoOn, Ended
  <1>. QED
    BY <1>1, ResumeStep DEF End

\* The invariant holds of a service that starts.
LEMMA InitInv == Init => IInv
  <1>. SUFFICES ASSUME Init PROVE IInv
    OBVIOUS
  <1>1. records \in Seq(Record) /\ Len(records) <= MaxRecords
    BY ExportAssumption DEF Init
  <1>2. task = [t \in Task |-> "none"] /\ session = 1 /\ phase = "up"
        /\ next = 1 /\ held = 0 /\ marked = 0 /\ committed = 0
    BY DEF Init
  <1>3. \A s \in Session : \A o \in 1..MaxRecords : task[<<s, o>>] = "none"
    BY <1>2 DEF Task
  <1>4. ClaimTyped
    BY <1>1, <1>2, ExportAssumption DEF ClaimTyped, Session
  <1>. QED
    BY <1>2, <1>3, <1>4 DEF IInv, InOrder, ReadTaken, RoomBelow

\* Every step preserves the invariant.
LEMMA StepInv == IInv /\ [Next]_vars => IInv'
  <1>. SUFFICES ASSUME IInv, [Next]_vars PROVE IInv'
    OBVIOUS
  <1>0. ClaimTyped
    BY DEF IInv
  <1>1. CASE Read
    BY <1>1, ReadStep
  <1>2. CASE Start
    BY <1>2, StartStep
  <1>3. CASE Commit
    BY <1>0, <1>3, CommitStep DEF Commit, ClaimTyped
  <1>4. CASE Rebalance
    <2>1. PICK offset \in {committed, marked} : Resume(offset)
      BY <1>4 DEF Rebalance
    <2>2. OnlyGoOn
      BY <1>0, <1>4, Still DEF Rebalance
    <2>. QED
      BY <1>4, <2>1, <2>2, ResumeStep DEF Rebalance, Ending
  <1>5. ASSUME NEW t \in Task, Steps(t) \/ RequestFails(t) \/ Panic(t) \/ Ignore(t)
        PROVE  IInv'
    BY <1>5, StepsInv
  <1>6. ASSUME NEW a \in Answer, HandleResponse(a) \/ Serve(a)
        PROVE  IInv'
    BY <1>0, <1>6, Still, TaskStep DEF HandleResponse, Serve, claimVars
  <1>7. CASE Reconnecting \/ Unreachable \/ CloseProducer
    BY <1>0, <1>7, Still, TaskStep DEF Reconnecting, Unreachable, CloseProducer, claimVars
  <1>8. CASE Shutdown
    BY <1>8, CommitStep DEF Shutdown, Ending
  <1>9. CASE Exit
    BY <1>0, <1>9, EndStep DEF Exit, ClaimTyped
  <1>10. CASE Crash
    BY <1>10, EndStep DEF Crash, Ending
  <1>11. CASE UNCHANGED vars
    BY <1>0, <1>11, Still, TaskStep DEF vars, claimVars
  <1>. QED
    BY <1>1, <1>2, <1>3, <1>4, <1>5, <1>6, <1>7, <1>8, <1>9, <1>10, <1>11 DEF Next

\* The invariant holds of every state of the service.
LEMMA Invariance == Spec => []IInv
  BY InitInv, StepInv, PTL DEF Spec

\* Every record below the committed offset was skipped or its goroutine was
\* started, through any rebalances and crashes (ConsumeClaim).
THEOREM CommitsCovered == Spec => []CommitCovered
  <1>1. IInv => CommitCovered
    <2>. SUFFICES ASSUME IInv, NEW o \in 1..committed
                  PROVE  records[o].kind = "skipped" \/ \E s \in Session : task[<<s, o>>] # "none"
      BY DEF CommitCovered
    <2>1. o \in 1..(next - 1) /\ o # held
      BY DEF IInv, ClaimTyped, InOrder
    <2>. QED
      BY <2>1 DEF IInv, ReadTaken
  <1>. QED
    BY <1>1, Invariance, PTL

\* Below a record that is handled and marked, fewer than MaxConcurrency of its
\* session still run: that many, and no more, can a crash lose for good.
THEOREM LossBounded == Spec => []RiskBounded
  <1>1. IInv => RiskBounded
    <2>. SUFFICES ASSUME IInv, NEW s \in Session, NEW d \in DOMAIN records,
                         task[<<s, d>>] = "done"
                  PROVE  Cardinality(Below(s, d)) < MaxConcurrency
      BY DEF RiskBounded, Below
    <2>1. d \in 1..MaxRecords
      BY ExportAssumption DEF IInv, ClaimTyped
    <2>. QED
      BY <2>1 DEF IInv, RoomBelow
  <1>. QED
    BY <1>1, Invariance, PTL

\* Both, as the run checks them.
THEOREM Skips == Spec => []SkipsBounded
  <1>1. CommitCovered /\ RiskBounded => SkipsBounded
    BY DEF SkipsBounded
  <1>. QED
    BY <1>1, CommitsCovered, LossBounded, PTL

-----------------------------------------------------------------------------
\* What a task is doing agrees with what SendRequest returned to it, and what is
\* in its channel was answered.
CallsSound ==
  /\ promise \in [Task -> {"none", "pending", "ok", "error", "failed", "gone"}]
  /\ box \in [Task -> {"empty", "ok", "error"}]
  /\ sent \subseteq Task
  /\ replies \subseteq Answer
  /\ \A t \in Task :
       /\ task[t] = "asking" <=> promise[t] = "pending"
       /\ task[t] = "none" => promise[t] = "none"
       /\ t \in sent => promise[t] # "none"
       /\ box[t] = "ok" => [to |-> t, ok |-> TRUE] \in replies
       /\ box[t] = "error" => [to |-> t, ok |-> FALSE] \in replies
  /\ \A a \in replies : a.to \in sent

RInv == IInv /\ CallsSound

\* The variables of Rpc.
Seen == <<promise, sent, replies>>

\* A step that leaves calls alone, of tasks that are not asking.
LEMMA CallsKept ==
  ASSUME CallsSound, ClaimTyped, UNCHANGED <<Seen, box>>,
         UNCHANGED task \/ \E t \in Task, stage \in (Running \cup Ended) \ {"asking"} :
                             task[t] \notin {"none", "asking"} /\ Becomes(t, stage)
  PROVE  CallsSound' /\ [Promises!Next]_(Promises!vars)
  <1>1. CallsSound'
    <2>1. CASE UNCHANGED task
      BY <2>1 DEF CallsSound, Seen
    <2>2. CASE ~UNCHANGED task
      <3>1. PICK t \in Task, stage \in (Running \cup Ended) \ {"asking"} :
                   task[t] \notin {"none", "asking"} /\ task' = [task EXCEPT ![t] = stage]
        BY <2>2 DEF Becomes
      <3>2. stage # "none"
        BY DEF Running, Ended
      <3>. QED
        BY <3>1, <3>2 DEF CallsSound, ClaimTyped, Seen
    <2>. QED
      BY <2>1, <2>2
  <1>. QED
    BY <1>1 DEF Promises!vars, Seen

\* A goroutine's start calls SendRequest, or does not.
LEMMA StartCalls == ASSUME RInv, Start PROVE CallsSound' /\ [Promises!Next]_(Promises!vars)
  <1> DEFINE t == <<session, held>>
  <1>1. t \in Task /\ task[t] = "none"
    BY ExportAssumption DEF RInv, IInv, ClaimTyped, InOrder, Task, Start
  <1>2. CallsSound /\ ClaimTyped
    BY DEF RInv, IInv
  <1>3. UNCHANGED <<box, sent, replies>> /\ Dispatch(t)
    BY DEF Start
  <1>4. CASE UNCHANGED promise /\ task' = [task EXCEPT ![t] = "answer"]
    BY <1>1, <1>2, <1>3, <1>4 DEF CallsSound, ClaimTyped, Promises!vars
  <1>5. CASE promise' = [promise EXCEPT ![t] = "pending"] /\ task' = [task EXCEPT ![t] = "asking"]
    <2>1. promise[t] = "none"
      BY <1>1, <1>2 DEF CallsSound
    <2>2. Promises!Call(t)
      BY <1>3, <1>5, <2>1 DEF Promises!Call
    <2>3. CallsSound'
      BY <1>1, <1>2, <1>3, <1>5 DEF CallsSound, ClaimTyped
    <2>. QED
      BY <1>1, <2>2, <2>3 DEF Promises!Next
  <1>. QED
    BY <1>3, <1>4, <1>5 DEF Dispatch, Becomes

\* The steps of a task.
LEMMA StepsCalls ==
  ASSUME RInv, NEW t \in Task, Steps(t) \/ RequestFails(t) \/ Panic(t) \/ Ignore(t)
  PROVE  CallsSound' /\ [Promises!Next]_(Promises!vars)
  <1>0. CallsSound /\ ClaimTyped
    BY DEF RInv, IInv
  <1>1. CASE RequestWritten(t)
    <2>1. Promises!Write(t)
      BY <1>0, <1>1 DEF RequestWritten, Promises!Write, CallsSound
    <2>2. CallsSound'
      BY <1>0, <1>1 DEF RequestWritten, CallsSound
    <2>. QED
      BY <2>1, <2>2 DEF Promises!Next
  <1>2. CASE RequestFails(t)
    <2>1. promise[t] = "pending" /\ promise' = [promise EXCEPT ![t] = "failed"]
      BY <1>0, <1>2 DEF RequestFails, CallsSound
    <2>2. Promises!GiveUp("failed")
      BY <1>0, <1>2, <2>1 DEF RequestFails, CallsSound, Promises!GiveUp, Promises!Outcome
    <2>3. CallsSound'
      BY <1>0, <1>2 DEF RequestFails, Becomes, CallsSound, ClaimTyped
    <2>. QED
      BY <2>2, <2>3 DEF Promises!Next
  <1>3. CASE Receive(t)
    <2> DEFINE a == [to |-> t, ok |-> box[t] = "ok"]
    <2>1. /\ box[t] \in {"ok", "error"} /\ promise[t] = "pending" /\ a \in replies
          /\ promise' = [promise EXCEPT ![t] = box[t]]
          /\ UNCHANGED <<sent, replies>>
      BY <1>0, <1>3 DEF Receive, CallsSound
    <2>2. Promises!Receive(a)
      BY <2>1 DEF Promises!Receive
    <2>3. a \in Promises!Answer
      BY DEF Promises!Answer
    <2>4. CallsSound'
      BY <1>0, <1>3, <2>1 DEF Receive, Becomes, CallsSound, ClaimTyped
    <2>. QED
      BY <2>2, <2>3, <2>4 DEF Promises!Next
  <1>4. CASE Upload(t) \/ SendAnswer(t)
    BY <1>0, <1>4, CallsKept DEF Upload, SendAnswer, callVars, Seen, Running
  <1>5. CASE NoAnswer(t) \/ AnswerSent(t) \/ AnswerFails(t)
    BY <1>0, <1>5, CallsKept
       DEF NoAnswer, AnswerSent, AnswerFails, Finish, callVars, Seen, Ended
  <1>6. CASE Panic(t)
    BY <1>0, <1>6, CallsKept DEF Panic, callVars, Seen, Ended
  <1>7. CASE Ignore(t)
    BY <1>0, <1>7, CallsKept DEF Ignore, Seen
  <1>. QED
    BY <1>1, <1>2, <1>3, <1>4, <1>5, <1>6, <1>7 DEF Steps

\* An answer is given, and put in the channel of the call it is for.
LEMMA AnswerCalls ==
  ASSUME RInv, NEW a \in Answer, HandleResponse(a) \/ Serve(a)
  PROVE  CallsSound' /\ [Promises!Next]_(Promises!vars)
  <1>0. CallsSound /\ a.to \in Task /\ a.ok \in BOOLEAN /\ a = [to |-> a.to, ok |-> a.ok]
    BY DEF RInv, Answer
  <1>1. CASE HandleResponse(a)
    <2>1. PICK t \in Task : t = a.to
      BY <1>0
    <2>2. /\ box' = [box EXCEPT ![t] = IF a.ok THEN "ok" ELSE "error"]
          /\ UNCHANGED <<task, promise, sent, replies>> /\ a \in replies
      BY <1>1, <2>1 DEF HandleResponse, Asker
    <2>3. CASE a.ok
      <3>1. [to |-> t, ok |-> TRUE] \in replies
        BY <1>0, <2>1, <2>2, <2>3
      <3>. QED
        BY <1>0, <2>2, <2>3, <3>1 DEF CallsSound, Promises!vars
    <2>4. CASE ~a.ok
      <3>1. [to |-> t, ok |-> FALSE] \in replies
        BY <1>0, <2>1, <2>2, <2>4
      <3>. QED
        BY <1>0, <2>2, <2>4, <3>1 DEF CallsSound, Promises!vars
    <2>. QED
      BY <2>3, <2>4
  <1>2. CASE Serve(a)
    <2>1. Promises!Serve(a)
      BY <1>2 DEF Serve, Promises!Serve
    <2>2. a \in Promises!Answer
      BY DEF Answer, Promises!Answer
    <2>3. CallsSound'
      BY <1>0, <1>2 DEF Serve, CallsSound
    <2>. QED
      BY <2>1, <2>2, <2>3 DEF Promises!Next
  <1>. QED
    BY <1>1, <1>2

\* The process ends with its calls.
LEMMA EndCalls == ASSUME RInv, End PROVE CallsSound' /\ [Promises!Next]_(Promises!vars)
  <1>0. CallsSound /\ ClaimTyped
    BY DEF RInv, IInv
  <1>1. Promises!GiveUp("gone")
    BY <1>0 DEF End, CallsSound, Promises!GiveUp, Promises!Outcome
  <1>2. CallsSound'
    BY <1>0 DEF End, CallsSound, ClaimTyped, Running, Ended
  <1>. QED
    BY <1>1, <1>2 DEF Promises!Next

\* Every step keeps the calls sound, and is a step of Rpc or leaves it alone.
LEMMA CallsStep ==
  RInv /\ [Next]_vars => RInv' /\ [Promises!Next]_(Promises!vars)
  <1>. SUFFICES ASSUME RInv, [Next]_vars
                PROVE  CallsSound' /\ [Promises!Next]_(Promises!vars)
    BY StepInv DEF RInv
  <1>0. CallsSound /\ ClaimTyped
    BY DEF RInv, IInv
  <1>1. CASE Read \/ Commit \/ Rebalance \/ Shutdown
    BY <1>0, <1>1, CallsKept DEF Read, Commit, Rebalance, Shutdown, callVars, Seen
  <1>2. CASE Start
    BY <1>2, StartCalls
  <1>3. ASSUME NEW t \in Task, Steps(t) \/ RequestFails(t) \/ Panic(t) \/ Ignore(t)
        PROVE  CallsSound' /\ [Promises!Next]_(Promises!vars)
    BY <1>3, StepsCalls
  <1>4. ASSUME NEW a \in Answer, HandleResponse(a) \/ Serve(a)
        PROVE  CallsSound' /\ [Promises!Next]_(Promises!vars)
    BY <1>4, AnswerCalls
  <1>5. CASE Reconnecting \/ Unreachable \/ CloseProducer
    BY <1>0, <1>5, CallsKept DEF Reconnecting, Unreachable, CloseProducer, callVars, Seen
  <1>6. CASE Exit \/ Crash
    BY <1>6, EndCalls DEF Exit, Crash
  <1>7. CASE UNCHANGED vars
    BY <1>0, <1>7, CallsKept DEF vars, callVars, Seen
  <1>. QED
    BY <1>1, <1>2, <1>3, <1>4, <1>5, <1>6, <1>7 DEF Next

\* SendRequest keeps the promise of Rpc: what it returns is the order service's
\* answer to that very request, however goroutines, answers given twice and
\* crashes interleave (Client.SendRequest, Client.handleResponse).
THEOREM Refinement == Spec => ImplementsRpc
  <1>1. Init => RInv /\ Promises!Init
    <2>. SUFFICES ASSUME Init PROVE CallsSound /\ Promises!Init
      BY InitInv DEF RInv
    <2>. QED
      BY DEF Init, CallsSound, Promises!Init
  <1>. QED
    BY <1>1, CallsStep, PTL DEF Spec, ImplementsRpc, Promises!Spec

-----------------------------------------------------------------------------
\* Every step of the service is a step of its Producer, or leaves it alone.
LEMMA ProducerStep == [Next]_vars => [Producer!Next]_(Producer!vars)
  <1>. SUFFICES ASSUME [Next]_vars PROVE [Producer!Next]_(Producer!vars)
    OBVIOUS
  <1>. USE DEF Producer!vars
  <1>1. CASE Read \/ Start \/ Commit \/ Rebalance \/ Shutdown
    BY <1>1 DEF Read, Start, Commit, Rebalance, Shutdown, producerVars
  <1>2. ASSUME NEW t \in Task, Steps(t) \/ RequestFails(t) \/ Panic(t) \/ Ignore(t)
        PROVE  [Producer!Next]_(Producer!vars)
    <2>1. CASE RequestWritten(t) \/ Receive(t) \/ Upload(t) \/ NoAnswer(t) \/ RequestFails(t)
                 \/ Ignore(t)
      BY <2>1 DEF RequestWritten, Receive, Upload, NoAnswer, RequestFails, Ignore, producerVars
    <2>2. CASE SendAnswer(t) \/ AnswerSent(t) \/ AnswerFails(t) \/ Panic(t)
      BY <2>2 DEF SendAnswer, AnswerSent, AnswerFails, Panic, Producer!Next, producerVars
    <2>. QED
      BY <1>2, <2>1, <2>2 DEF Steps
  <1>3. ASSUME NEW a \in Answer, HandleResponse(a) \/ Serve(a)
        PROVE  [Producer!Next]_(Producer!vars)
    BY <1>3 DEF HandleResponse, Serve, producerVars
  <1>4. CASE Reconnecting \/ Unreachable \/ CloseProducer
    BY <1>4 DEF Reconnecting, Unreachable, CloseProducer, Producer!Next
  <1>5. CASE Exit \/ Crash
    BY <1>5 DEF Exit, Crash, End, Producer!Next
  <1>6. CASE UNCHANGED vars
    BY <1>6 DEF vars, producerVars
  <1>. QED
    BY <1>1, <1>2, <1>3, <1>4, <1>5, <1>6 DEF Next

\* A new sarama producer is ahead of the stored one only until it is stored.
Dialled ==
  /\ made = (IF reconnect = "store" THEN inner + 1 ELSE inner)
  /\ reconnect = "store" => made \in open

ProducerInv == Producer!TypeOK /\ Dialled /\ Producer!ProducerUsable

\* Sends change who uses what, and what is asked for.
LEMMA ProducerSend ==
  ASSUME ProducerInv, NEW s \in Task,
         \/ Producer!Take(s) \/ Producer!Sent(s) \/ Producer!SendPanics(s)
         \/ \E reconnects \in BOOLEAN : Producer!SendFails(s, reconnects)
  PROVE  ProducerInv'
  <1>1. /\ UNCHANGED <<inner, made, open, reconnect, closing>>
        /\ using' \in [Task -> 0..made] /\ asked' \in Nat
    BY DEF Producer!Take, Producer!Sent, Producer!SendPanics, Producer!SendFails,
           ProducerInv, Producer!TypeOK
  <1>. QED
    BY <1>1 DEF ProducerInv, Producer!TypeOK, Dialled, Producer!ProducerUsable, Producer!Closed

\* Every step of a Producer preserves its invariant.
LEMMA ProducerInvStep == ProducerInv /\ [Producer!Next]_(Producer!vars) => ProducerInv'
  <1>. SUFFICES ASSUME ProducerInv, [Producer!Next]_(Producer!vars) PROVE ProducerInv'
    OBVIOUS
  <1>. USE DEF ProducerInv, Producer!TypeOK, Dialled, Producer!ProducerUsable, Producer!Closed
  <1>1. ASSUME NEW s \in Task,
               \/ Producer!Take(s) \/ Producer!Sent(s) \/ Producer!SendPanics(s)
               \/ \E reconnects \in BOOLEAN : Producer!SendFails(s, reconnects)
        PROVE  ProducerInv'
    BY <1>1, ProducerSend
  <1>2. CASE Producer!Unhealthy
    BY <1>2 DEF Producer!Unhealthy
  <1>3. CASE Producer!BeginReconnect
    BY <1>3 DEF Producer!BeginReconnect
  <1>4. CASE Producer!CheckClosed
    BY <1>4 DEF Producer!CheckClosed
  <1>5. CASE Producer!Dial
    <2>1. /\ made' \in Nat \ {0} /\ inner' \in 1..made' /\ open' \subseteq 1..made'
          /\ using' \in [Task -> 0..made']
      <3>1. made' = made + 1 /\ 0..made \subseteq 0..made' /\ using' = using
        BY <1>5 DEF Producer!Dial
      <3>. QED
        BY <1>5, <3>1 DEF Producer!Dial
    <2>. QED
      BY <1>5, <2>1 DEF Producer!Dial
  <1>6. CASE Producer!DialFails
    BY <1>6 DEF Producer!DialFails
  <1>7. CASE Producer!Store
    BY <1>7 DEF Producer!Store
  <1>8. CASE Producer!Retire
    BY <1>8 DEF Producer!Retire
  <1>9. CASE Producer!CloseChannel
    BY <1>9 DEF Producer!CloseChannel
  <1>10. CASE Producer!CloseInner
    BY <1>10 DEF Producer!CloseInner
  <1>11. CASE Producer!Restart
    BY <1>11 DEF Producer!Restart
  <1>12. CASE UNCHANGED Producer!vars
    BY <1>12 DEF Producer!vars
  <1>. QED
    BY <1>1, <1>2, <1>3, <1>4, <1>5, <1>6, <1>7, <1>8, <1>9, <1>10, <1>11, <1>12
       DEF Producer!Next, Producer!Reconnect

\* The Producer's invariant holds in the service, with all that goes on around it.
LEMMA ProducerSound == Spec => []ProducerInv
  <1>1. Init => ProducerInv
    BY DEF Init, Producer!Init, ProducerInv, Producer!TypeOK, Dialled,
           Producer!ProducerUsable, Producer!Closed
  <1>. QED
    BY <1>1, ProducerStep, ProducerInvStep, PTL DEF Spec

\* Until Close, the goroutines that answer get a sarama producer that is open, and
\* reconnects leave one behind, not two, however many ask for one at once
\* (Producer.reconnect, Producer.Close).
THEOREM AnswersProducerUsable == Spec => []ProducerUsable
  <1>1. ProducerInv => ProducerUsable
    BY DEF ProducerInv, ProducerUsable
  <1>. QED
    BY <1>1, ProducerSound, PTL

-----------------------------------------------------------------------------
\* The rest of TypeOK: the answers of the tasks, and the bound on faults.
EndTyped ==
  /\ records \in Topics
  /\ phase \in {"up", "closing"}
  /\ ignored \subseteq sent
  /\ answered \subseteq Task
  /\ unsent \subseteq Task
  /\ faults \in 0..MaxFaults

\* Every step preserves it.
LEMMA EndTypedStep == EndTyped /\ [Next]_vars => EndTyped'
  <1>. SUFFICES ASSUME EndTyped, [Next]_vars PROVE EndTyped'
    OBVIOUS
  <1>. USE DEF EndTyped, Fault
  <1>1. CASE Read \/ Start \/ Commit \/ Rebalance \/ Shutdown
    BY <1>1 DEF Read, Start, Commit, Rebalance, Shutdown, callVars, endVars
  <1>2. ASSUME NEW t \in Task, Steps(t) \/ RequestFails(t) \/ Panic(t) \/ Ignore(t)
        PROVE  EndTyped'
    <2>1. CASE RequestWritten(t) \/ Receive(t) \/ Upload(t) \/ SendAnswer(t)
      BY <2>1 DEF RequestWritten, Receive, Upload, SendAnswer, claimVars, callVars, endVars
    <2>2. CASE RequestFails(t) \/ Panic(t) \/ Ignore(t)
      BY <2>2, ExportAssumption DEF RequestFails, Panic, Ignore, claimVars, callVars, endVars
    <2>3. CASE NoAnswer(t) \/ AnswerSent(t) \/ AnswerFails(t)
      BY <2>3, ExportAssumption DEF NoAnswer, AnswerSent, AnswerFails, Finish, callVars
    <2>. QED
      BY <1>2, <2>1, <2>2, <2>3 DEF Steps
  <1>3. ASSUME NEW a \in Answer, HandleResponse(a) \/ Serve(a)
        PROVE  EndTyped'
    BY <1>3, ExportAssumption DEF HandleResponse, Serve, claimVars, endVars
  <1>4. CASE Reconnecting \/ Unreachable \/ CloseProducer
    BY <1>4, ExportAssumption DEF Reconnecting, Unreachable, CloseProducer, claimVars, callVars,
                                  endVars
  <1>5. CASE Exit \/ Crash
    BY <1>5 DEF Exit, Crash, End, endVars
  <1>6. CASE UNCHANGED vars
    BY <1>6 DEF vars, claimVars, callVars, endVars
  <1>. QED
    BY <1>1, <1>2, <1>3, <1>4, <1>5, <1>6 DEF Next

\* Every state of the service is well-typed.
THEOREM TypeCorrect == Spec => []TypeOK
  <1>1. Init => RInv /\ EndTyped
    <2>1. Init => CallsSound
      BY DEF Init, CallsSound
    <2>2. Init => EndTyped
      BY ExportAssumption DEF Init, EndTyped
    <2>. QED
      BY <2>1, <2>2, InitInv DEF RInv
  <1>2. Spec => [](RInv /\ EndTyped)
    BY <1>1, CallsStep, EndTypedStep, PTL DEF Spec
  <1>3. RInv /\ EndTyped /\ Producer!TypeOK => TypeOK
    BY DEF RInv, IInv, ClaimTyped, CallsSound, EndTyped, TypeOK
  <1>4. ProducerInv => Producer!TypeOK
    BY DEF ProducerInv
  <1>. QED
    BY <1>2, <1>3, <1>4, ProducerSound, PTL
=============================================================================

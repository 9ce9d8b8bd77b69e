-------------------------------- MODULE Rpc --------------------------------
(***************************************************************************)
(* What a caller may expect of a request over Kafka, however it is carried:*)
(* its promise settles once; it is fulfilled, or rejected with the other   *)
(* side's error, only with an answer that the other side gave to a request *)
(* that reached it; and when the caller gives up instead, it knows nothing *)
(* of what the other side did or will still do.                            *)
(***************************************************************************)
CONSTANTS Request    \* calls, each with a message id of its own

VARIABLES
  promise,  \* what the caller of each request sees
  sent,     \* the requests that reached the topic of the other side
  answers   \* the answers given

vars == <<promise, sent, answers>>

Outcome == {"ok", "error", "timeout", "failed", "gone"}
Answer  == [to: Request, ok: BOOLEAN]

TypeOK ==
  /\ promise \in [Request -> {"none", "pending"} \cup Outcome]
  /\ sent \subseteq Request
  /\ answers \subseteq Answer

Init ==
  /\ promise = [r \in Request |-> "none"]
  /\ sent = {}
  /\ answers = {}

Call(r) ==
  /\ promise[r] = "none"
  /\ promise' = [promise EXCEPT ![r] = "pending"]
  /\ UNCHANGED <<sent, answers>>

\* The request reaches the other side, though the caller may have given up.
Write(r) ==
  /\ promise[r] # "none"
  /\ sent' = sent \cup {r}
  /\ UNCHANGED <<promise, answers>>

\* The other side answers a request it has, perhaps more than once.
Serve(a) ==
  /\ a.to \in sent
  /\ answers' = answers \cup {a}
  /\ UNCHANGED <<promise, sent>>

\* An answer settles the promise of the request.
Receive(a) ==
  /\ a \in answers
  /\ promise[a.to] = "pending"
  /\ promise' = [promise EXCEPT ![a.to] = IF a.ok THEN "ok" ELSE "error"]
  /\ UNCHANGED <<sent, answers>>

\* Timeouts, failed sends and the death of the caller.
GiveUp(outcome) ==
  /\ promise' \in [Request -> {"none", "pending"} \cup Outcome]
  /\ \A r \in Request :
       promise'[r] # promise[r] => promise[r] = "pending" /\ promise'[r] = outcome
  /\ UNCHANGED <<sent, answers>>

Next ==
  \/ \E r \in Request : Call(r) \/ Write(r)
  \/ \E a \in Answer : Serve(a) \/ Receive(a)
  \/ \E o \in {"timeout", "failed", "gone"} : GiveUp(o)

Spec == Init /\ [][Next]_vars

-----------------------------------------------------------------------------
\* A fulfilled or refused request was answered so, after it was sent
\* (KafkaClient.handleResponse).
OutcomeTruthful ==
  \A r \in Request :
    /\ promise[r] = "ok"    => r \in sent /\ [to |-> r, ok |-> TRUE] \in answers
    /\ promise[r] = "error" => r \in sent /\ [to |-> r, ok |-> FALSE] \in answers
=============================================================================

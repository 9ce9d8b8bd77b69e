--------------------------- MODULE MCOrderService ---------------------------
(***************************************************************************)
(* Small instances of OrderService for TLC: which requests the clients may *)
(* send, and how many faults of each kind may happen.                      *)
(***************************************************************************)
EXTENDS OrderService, TLC

CONSTANTS u1, p1, s1

Create(id) == [id |-> id, uri |-> "create", headers |-> FALSE, answer |-> TRUE,
               user |-> u1, product |-> p1]
Update(id, o, st, s) == [id |-> id, uri |-> "update", headers |-> FALSE,
                         answer |-> TRUE, order |-> o, status |-> st, session |-> s]
Other(id, uri, h, a) == [id |-> id, uri |-> uri, headers |-> h, answer |-> a]

\* A client that sets the headers field is not heard (run envelope): the create
\* and the updates are those of a client that does not, as the Go and the Java
\* ones, and "h" is the request of one that does.
\* The gateway's create, the two outcomes the payment service reports, an update
\* that would reopen the order, the export's list, an unknown uri whose sender
\* waits for nothing, and a list in an envelope with headers.
MCMessageId == {"c", "p", "r", "n", "l", "x", "h"}
MCMessages ==
  { Create("c"), Update("p", 1, "PAID", s1), Update("r", 1, "REJECTED", NoSession),
    Update("n", 1, "PENDING", s1), Other("l", "list", FALSE, TRUE),
    Other("x", "other", FALSE, FALSE), Other("h", "list", TRUE, TRUE) }

\* A create and its two outcomes.
CheckoutMessages == {m \in MCMessages : m.id \in {"c", "p", "r"}}

Faults(c, d, s, t) ==
  [f \in Fault |-> CASE f = "crash" -> c [] f = "database" -> d
                     [] f = "send" -> s  [] f = "timeout" -> t]
AllFaults  == Faults(1, 1, 1, 2)
CrashFault == Faults(1, 0, 0, 0)

\* Any two requests, or three of which each is a create or one of its outcomes.
Short ==
  Len(requests) < MaxRequests \/ \A i \in DOMAIN requests : requests[i] \in CheckoutMessages
MCSpec == Init /\ [][Next /\ Short']_vars /\ Fairness
=============================================================================

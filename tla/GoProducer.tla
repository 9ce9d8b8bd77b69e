----------------------------- MODULE GoProducer -----------------------------
(***************************************************************************)
(* common-golang's Producer: a sarama producer behind an atomic value that *)
(* a reconnect replaces while goroutines send through it.                  *)
(*                                                                         *)
(* Any number of goroutines send, ask for a reconnect and, once, close;    *)
(* the compare-and-swap on "reconnecting" lets one reconnect run.  Sarama  *)
(* producers are numbered in the order they are made.                      *)
(***************************************************************************)
EXTENDS Naturals

CONSTANT Sender    \* the goroutines that send, one message at a time

VARIABLES
  inner,      \* the sarama producer stored in the atomic value
  made,       \* how many were made
  open,       \* those that are not closed
  using,      \* the one each goroutine has taken for its send, or 0
  asked,      \* reconnects that were asked for and have not begun
  reconnect,  \* where the reconnect that runs is, or "idle"
  closing     \* Close: not called, channel closed, inner producer closed too

vars == <<inner, made, open, using, asked, reconnect, closing>>

TypeOK ==
  /\ made \in Nat \ {0}
  /\ inner \in 1..made
  /\ open \subseteq 1..made
  /\ using \in [Sender -> 0..made]
  /\ asked \in Nat
  /\ reconnect \in {"idle", "check", "dial", "store", "retire"}
  /\ closing \in {"no", "channel", "inner"}

\* NewProducer.
Init ==
  /\ inner = 1
  /\ made = 1
  /\ open = {1}
  /\ using = [s \in Sender |-> 0]
  /\ asked = 0
  /\ reconnect = "idle"
  /\ closing = "no"

Closed == closing # "no"

-----------------------------------------------------------------------------
\* Send as far as p.get(): it has not seen the closed channel.
Take(s) ==
  /\ using[s] = 0
  /\ ~Closed
  /\ using' = [using EXCEPT ![s] = inner]
  /\ UNCHANGED <<inner, made, open, asked, reconnect, closing>>

\* SendMessage returns without an error: not through a producer that is closed,
\* for Close waits for what is in flight.
Sent(s) ==
  /\ using[s] \in open
  /\ using' = [using EXCEPT ![s] = 0]
  /\ UNCHANGED <<inner, made, open, asked, reconnect, closing>>

\* It returns an error; ErrOutOfBrokers and ErrClosedClient ask for a reconnect.
SendFails(s, reconnects) ==
  /\ using[s] # 0
  /\ using' = [using EXCEPT ![s] = 0]
  /\ asked' = IF reconnects THEN asked + 1 ELSE asked
  /\ UNCHANGED <<inner, made, open, reconnect, closing>>

\* Or it panics: sarama closes the input channel of a producer with it.
SendPanics(s) ==
  /\ using[s] \notin open \cup {0}
  /\ using' = [using EXCEPT ![s] = 0]
  /\ UNCHANGED <<inner, made, open, asked, reconnect, closing>>

\* The health check of the monitor fails.
Unhealthy ==
  /\ asked' = asked + 1
  /\ UNCHANGED <<inner, made, open, using, reconnect, closing>>

-----------------------------------------------------------------------------
\* Mutant: without the compare-and-swap a reconnect begins over another.
BeginAlways ==
  /\ asked > 0
  /\ asked' = asked - 1
  /\ reconnect' = "check"
  /\ UNCHANGED <<inner, made, open, using, closing>>

\* reconnect: the compare-and-swap lets it in, or it returns.
BeginReconnect ==
  /\ asked > 0
  /\ asked' = asked - 1
  /\ reconnect' = IF reconnect = "idle" THEN "check" ELSE reconnect
  /\ UNCHANGED <<inner, made, open, using, closing>>

\* The top of its loop: it ends if the channel is closed.
CheckClosed ==
  /\ reconnect = "check"
  /\ reconnect' = IF Closed THEN "idle" ELSE "dial"
  /\ UNCHANGED <<inner, made, open, using, asked, closing>>

Dial ==
  /\ reconnect = "dial"
  /\ made' = made + 1
  /\ open' = open \cup {made + 1}
  /\ reconnect' = "store"
  /\ UNCHANGED <<inner, using, asked, closing>>

\* NewSyncProducer fails: the loop sleeps ReconnectInterval and goes round.
DialFails ==
  /\ reconnect = "dial"
  /\ reconnect' = "check"
  /\ UNCHANGED <<inner, made, open, using, asked, closing>>

\* old := p.get() and p.inner.Store(sp).  Nothing looks at the channel again.
Store ==
  /\ reconnect = "store"
  /\ inner' = made
  /\ reconnect' = "retire"
  /\ UNCHANGED <<made, open, using, asked, closing>>

\* old.Close(): the one stored before.
Retire ==
  /\ reconnect = "retire"
  /\ open' = open \ {inner - 1}
  /\ reconnect' = "idle"
  /\ UNCHANGED <<inner, made, using, asked, closing>>

Reconnect == BeginReconnect \/ CheckClosed \/ Dial \/ DialFails \/ Store \/ Retire

-----------------------------------------------------------------------------
\* Close, under closeOnce: first the channel, then the producer stored by then.
CloseChannel ==
  /\ closing = "no"
  /\ closing' = "channel"
  /\ UNCHANGED <<inner, made, open, using, asked, reconnect>>

CloseInner ==
  /\ closing = "channel"
  /\ closing' = "inner"
  /\ open' = open \ {inner}
  /\ UNCHANGED <<inner, made, using, asked, reconnect>>

\* The process ends and another one starts.
Restart ==
  /\ inner' = 1
  /\ made' = 1
  /\ open' = {1}
  /\ using' = [s \in Sender |-> 0]
  /\ asked' = 0
  /\ reconnect' = "idle"
  /\ closing' = "no"

Next ==
  \/ \E s \in Sender : \/ Take(s) \/ Sent(s) \/ SendPanics(s)
                       \/ \E reconnects \in BOOLEAN : SendFails(s, reconnects)
  \/ Unhealthy \/ Reconnect
  \/ CloseChannel \/ CloseInner
  \/ Restart

Spec == Init /\ [][Next]_vars

-----------------------------------------------------------------------------
\* The goroutines that send get a producer that is open, whatever reconnect is
\* under way, until Close; and a reconnect leaves one open producer behind, not
\* two.  (One that runs while Close does may leave one that nobody closes: it
\* looks at the channel before it dials, and stores after.)
ProducerUsable ==
  /\ ~Closed => inner \in open
  /\ open \subseteq {inner}
       \cup (IF reconnect = "store" THEN {made} ELSE {})
       \cup (IF reconnect = "retire" THEN {inner - 1} ELSE {})
=============================================================================

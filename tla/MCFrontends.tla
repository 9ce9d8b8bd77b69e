----------------------------- MODULE MCFrontends -----------------------------
(***************************************************************************)
(* A small instance of Frontends for TLC: a customer with a one-time code  *)
(* and an administrator.                                                   *)
(***************************************************************************)
EXTENDS Frontends, TLC

CONSTANTS alice, bob, s2

MCRole == [u \in User |-> IF u = bob THEN "ADMIN" ELSE "USER"]

\* One frontend at a time: they have neither tabs nor storage in common. And one
\* tab of the storefront in a run with a fault.
Loaded == \E n \in DOMAIN sessions : sessions[n].app = "admin"
InUse(t) ==
  /\ t \in Admin <=> Loaded
  /\ faults = 0 \/ t # s2
Bounded ==
  /\ \A c \in calls : c.tab # NoTab => InUse(c.tab)
  /\ \A t \in Tab : page[t] # Blank => InUse(t)
MCSpec == Init /\ [][Next /\ Bounded']_vars /\ Fairness
=============================================================================

-------------------------------- MODULE MCIdp -------------------------------
(* The identity provider with short scripts of calls, for TLC. *)
EXTENDS Idp

CONSTANTS alice, bob, carol, dave

MCSeed == <<alice, bob>>

Registers(n) == About("register", n, 0)

\* Registrations and a login that overlap with the services' start.
MCFresh == {
  <<Registers(carol), Registers(dave)>>,
  <<Registers(alice), About("password", alice, 1)>>,
  <<About("password", alice, 0), About("forgot", alice, 0)>>}

\* Calls that race for one token, one code or one account.
MCScripts == MCFresh \cup {
  <<Registers(carol), Registers(dave), Registers(carol)>>,
  <<Registers(carol), About("password", carol, 1), Uses("mfa", 2), Uses("mfa", 2)>>,
  <<About("password", alice, 0), Uses("refresh", 1), Uses("refresh", 1)>>,
  <<About("password", alice, 0), Uses("revoke", 1), Uses("check", 1)>>,
  <<About("password", alice, 0), Uses("revoke", 1), Uses("refresh", 1)>>,
  <<About("forgot", alice, 0), About("reset", alice, 1), About("reset", alice, 1)>>,
  <<About("forgot", alice, 0), About("forgot", alice, 0), About("reset", alice, 1)>>,
  <<About("forgot", alice, 0), About("reset", alice, 1), About("password", alice, 0),
    About("password", alice, 2)>>}
=============================================================================

--------------------------- MODULE FrontendsProofs ---------------------------
(***************************************************************************)
(* Proofs about Frontends: what a tab shows is of who is signed in at it,  *)
(* and a session that nobody holds is over, for any tabs, users, sessions  *)
(* and calls in flight.                                                    *)
(***************************************************************************)
EXTENDS Frontends, SequenceTheorems, TLAPS

\* A session that was opened: not one that waits for its one-time code.
Open(n) == n \in DOMAIN sessions /\ sessions[n].access # "challenge"

\* Whom a call is of, and what its answer carries.
CallSound(c) ==
  /\ c.what \in {"buy", "orders", "export", "logout"} =>
       Open(c.session) /\ c.user = sessions[c.session].user
  /\ c.what \in {"login", "mfa"} /\ c.at = "ok" => Open(c.session)
  /\ c.what = "mfa" \/ c.at = "challenge" => c.session \in DOMAIN sessions
  /\ c.what = "buy" => c.tab \notin Admin
  /\ c.what = "orders" /\ c.at = "ok" => Role[c.user] = "ADMIN"
  /\ c.at # "empty"

\* A call in flight agrees with its tab, unless it was crossed.
Fits(c) ==
  c.tab \in Tab /\ c.tab \notin crossed =>
    /\ c.what \in {"buy", "orders"} => c.session = page[c.tab].token
    /\ c.what \in {"login", "mfa", "register"} => page[c.tab].token = 0

PageSound(p) ==
  /\ p.token # 0 => Open(p.token)
  /\ p.mfa # 0 => p.mfa \in DOMAIN sessions
  /\ p.shows # 0 => p.shows \in DOMAIN sessions

Shown(t) ==
  page[t].shows # 0 =>
    /\ t \in Admin => Role[sessions[page[t].shows].user] = "ADMIN"
    /\ t \in crossed \/ page[t].shows = page[t].token

\* The inductive invariant.
IInv ==
  /\ TypeOK
  /\ \A t \in Tab : PageSound(page[t]) /\ Shown(t)
  /\ \A a \in {"shop", "admin"} : stored[a].token # 0 => Open(stored[a].token)
  /\ \A c \in calls : CallSound(c) /\ Fits(c)

-----------------------------------------------------------------------------
\* What every step does to the sessions: they stay whose they are, and open.
Grow ==
  /\ sessions' \in Seq(Issued) /\ Len(sessions') <= MaxSessions
  /\ Len(sessions) <= Len(sessions')
  /\ \A n \in DOMAIN sessions :
       /\ n \in DOMAIN sessions'
       /\ sessions'[n].user = sessions[n].user
       /\ sessions[n].access # "challenge" => sessions'[n].access # "challenge"

\* Numbers and domains.
LEMMA Lengths ==
  ASSUME TypeOK
  PROVE  /\ Len(sessions) \in Nat /\ DOMAIN sessions = 1..Len(sessions)
         /\ DOMAIN sessions \subseteq 1..MaxSessions
         /\ \A n \in DOMAIN sessions : sessions[n] \in Issued
         /\ MaxSessions \in Nat \ {0} /\ MaxInFlight \in Nat
  <1>1. sessions \in Seq(Issued) /\ Len(sessions) <= MaxSessions
    BY DEF TypeOK
  <1>2. MaxSessions \in Nat \ {0} /\ MaxInFlight \in Nat
    BY FrontendsAssumption
  <1>3. Len(sessions) \in Nat /\ DOMAIN sessions = 1..Len(sessions)
    BY <1>1, LenProperties
  <1>4. \A n \in DOMAIN sessions : sessions[n] \in Issued
    BY <1>1, <1>3, ElementOfSeq
  <1>. QED
    BY <1>1, <1>2, <1>3, <1>4

\* A step that leaves the sessions alone.
LEMMA GrowSame ==
  ASSUME TypeOK, UNCHANGED sessions
  PROVE  Grow
  BY Lengths DEF TypeOK, Grow

\* A step that changes one session, but not whose it is.
LEMMA GrowOne ==
  ASSUME TypeOK, NEW n \in DOMAIN sessions, NEW s \in Issued,
         sessions' = [sessions EXCEPT ![n] = s],
         s.user = sessions[n].user, s.access # "challenge"
  PROVE  Grow
  <1>1. n \in 1..Len(sessions) /\ sessions \in Seq(Issued)
    BY Lengths DEF TypeOK
  <1>2. /\ sessions' \in Seq(Issued) /\ Len(sessions') = Len(sessions)
        /\ \A m \in 1..Len(sessions) : sessions'[m] = IF m = n THEN s ELSE sessions[m]
    BY <1>1, ExceptSeq
  <1>3. DOMAIN sessions' = 1..Len(sessions')
    BY <1>2, LenProperties
  <1>. QED
    BY <1>1, <1>2, <1>3, Lengths DEF Grow, TypeOK

\* A revocation.
LEMMA GrowRevoked ==
  ASSUME TypeOK, NEW n, NEW r, sessions' = Revoked(sessions, n, r)
  PROVE  Grow
  <1>1. /\ DOMAIN sessions' = 1..Len(sessions)
        /\ \A m \in 1..Len(sessions) :
             /\ sessions'[m] \in Issued
             /\ sessions'[m].user = sessions[m].user
             /\ sessions[m].access # "challenge" => sessions'[m].access # "challenge"
    <2>1. DOMAIN sessions' = 1..Len(sessions)
      BY Lengths DEF Revoked
    <2>2. ASSUME NEW m \in 1..Len(sessions)
          PROVE  /\ sessions'[m] \in Issued
                 /\ sessions'[m].user = sessions[m].user
                 /\ sessions[m].access # "challenge" => sessions'[m].access # "challenge"
      <3>1. sessions[m] \in Issued /\ m \in DOMAIN sessions
        BY <2>2, Lengths
      <3>2. sessions'[m] =
              [sessions[m] EXCEPT !.access = IF m = n /\ @ = "good" THEN "revoked" ELSE @,
                                  !.refresh = @ /\ m # r]
        BY <3>1 DEF Revoked
      <3>. QED
        BY <3>1, <3>2 DEF Issued
    <2>. QED
      BY <2>1, <2>2
  <1>2. sessions' \in [1..Len(sessions) -> Issued]
    BY <1>1, Lengths DEF Revoked
  <1>3. sessions' \in Seq(Issued) /\ Len(sessions') = Len(sessions)
    BY <1>2, Lengths
  <1>. QED
    BY <1>1, <1>3, Lengths DEF Grow, TypeOK

\* A session that is issued.
LEMMA GrowAppend ==
  ASSUME TypeOK, NEW s \in Issued, Len(sessions) < MaxSessions,
         sessions' = Append(sessions, s)
  PROVE  /\ Grow
         /\ Len(sessions) + 1 \in DOMAIN sessions' /\ sessions'[Len(sessions) + 1] = s
  <1>1. /\ sessions' \in Seq(Issued) /\ Len(sessions') = Len(sessions) + 1
        /\ \A m \in 1..Len(sessions) : sessions'[m] = sessions[m]
        /\ sessions'[Len(sessions) + 1] = s
    BY AppendProperties DEF TypeOK
  <1>2. DOMAIN sessions' = 1..Len(sessions')
    BY <1>1, LenProperties
  <1>. QED
    BY <1>1, <1>2, Lengths DEF Grow

-----------------------------------------------------------------------------
\* What is open stays open, and what a call knows stays true.
LEMMA OpenStays ==
  ASSUME Grow, NEW n, Open(n)
  PROVE  Open(n)' /\ sessions'[n].user = sessions[n].user
  BY DEF Grow, Open

\* What is sound of a call stays so while sessions grow.
LEMMA CallStays ==
  ASSUME Grow, NEW c, CallSound(c)
  PROVE  CallSound(c)'
  BY OpenStays DEF CallSound, Grow

\* A step that leaves pages and storage alone.
LEMMA Quiet ==
  ASSUME IInv, Grow, UNCHANGED <<page, stored>>,
         crossed \subseteq crossed', crossed' \subseteq Tab, interrupted' \subseteq Tab,
         clicks' \in 0..MaxClicks, faults' \in 0..MaxFaults,
         \A c \in calls' : c \in calls \/ (c \in Call /\ CallSound(c)' /\ Fits(c)')
  PROVE  IInv'
  <1>1. TypeOK'
    BY OpenStays DEF IInv, TypeOK, PageSound, Grow, Open
  <1>2. ASSUME NEW t \in Tab PROVE PageSound(page[t])' /\ Shown(t)'
    <2>1. page'[t] = page[t] /\ page[t] \in Page /\ PageSound(page[t]) /\ Shown(t)
      BY <1>2 DEF IInv, TypeOK
    <2>2. PageSound(page[t])'
      BY <2>1, OpenStays DEF PageSound, Grow
    <2>3. Shown(t)'
      BY <2>1 DEF PageSound, Shown, Grow
    <2>. QED
      BY <2>2, <2>3
  <1>3. ASSUME NEW a \in {"shop", "admin"}, stored'[a].token # 0 PROVE Open(stored[a].token)'
    BY <1>3, OpenStays DEF IInv
  <1>4. ASSUME NEW c \in calls' PROVE CallSound(c)' /\ Fits(c)'
    BY <1>4, CallStays DEF IInv, Fits
  <1>. QED
    BY <1>1, <1>2, <1>3, <1>4 DEF IInv

\* A step of one tab.
LEMMA Turned ==
  ASSUME IInv, NEW t \in Tab, NEW p \in Page, UNCHANGED sessions,
         page' = [page EXCEPT ![t] = p], PageSound(p),
         p.shows # 0 => /\ t \in Admin => Role[sessions[p.shows].user] = "ADMIN"
                        /\ t \in crossed' \/ p.shows = p.token,
         stored' \in [{"shop", "admin"} -> [token : 0..MaxSessions, refresh : 0..MaxSessions]],
         \A a \in {"shop", "admin"} : stored'[a].token # 0 => Open(stored'[a].token),
         crossed \subseteq crossed', crossed' \subseteq Tab, interrupted' \subseteq Tab,
         clicks' \in 0..MaxClicks, faults' \in 0..MaxFaults,
         \A c \in calls' : c \in calls \/ (c \in Call /\ CallSound(c)),
         \A c \in calls' : c \notin calls \/ c.tab = t => Fits(c)'
  PROVE  IInv'
  <1>0. Grow /\ TypeOK
    BY GrowSame DEF IInv
  <1>1. /\ page \in [Tab -> Page] /\ page' \in [Tab -> Page]
        /\ page'[t] = p /\ \A u \in Tab : u # t => page'[u] = page[u]
    BY <1>0 DEF TypeOK
  <1>2. ASSUME NEW u \in Tab PROVE PageSound(page[u])' /\ Shown(u)'
    <2>1. CASE u = t
      BY <1>1, <2>1 DEF PageSound, Shown, Open
    <2>2. CASE u # t
      <3>1. page'[u] = page[u] /\ PageSound(page[u]) /\ Shown(u)
        BY <1>1, <1>2, <2>2 DEF IInv
      <3>. QED
        BY <3>1 DEF PageSound, Shown, Open
    <2>. QED
      BY <2>1, <2>2
  <1>3. ASSUME NEW a \in {"shop", "admin"}, stored'[a].token # 0 PROVE Open(stored[a].token)'
    BY <1>3 DEF Open
  <1>4. ASSUME NEW c \in calls' PROVE CallSound(c)' /\ Fits(c)'
    <2>1. CallSound(c)'
      BY <1>0, <1>4, CallStays DEF IInv
    <2>2. CASE c \notin calls \/ c.tab = t
      BY <1>4, <2>1, <2>2
    <2>3. CASE c \in calls /\ c.tab # t
      BY <1>1, <2>1, <2>3 DEF IInv, Fits
    <2>. QED
      BY <2>1, <2>2, <2>3
  <1>5. TypeOK'
    <2>1. \A u \in Tab : page'[u].token # 0 => /\ page'[u].token \in DOMAIN sessions'
                                              /\ sessions'[page'[u].token].access # "challenge"
      BY <1>2 DEF PageSound, Open
    <2>. QED
      BY <1>0, <1>1, <2>1 DEF TypeOK
  <1>. QED
    BY <1>2, <1>3, <1>4, <1>5 DEF IInv


-----------------------------------------------------------------------------
\* A call as it is made.
LEMMA NewCallTyped ==
  ASSUME NEW i \in 0..MaxInFlight, NEW t \in Tab,
         NEW what \in {"login", "mfa", "register", "buy", "orders", "export", "logout"},
         NEW n \in 0..MaxSessions, NEW r \in 0..MaxSessions, NEW u \in User
  PROVE  LET c == NewCall(i, t, what, n, r, u)
         IN  /\ c \in Call /\ c.id = i /\ c.tab = t /\ c.what = what
             /\ c.session = n /\ c.user = u /\ c.at = "sent"
  BY DEF NewCall, Call

\* A sign-out as it is made.
LEMMA LogoutSound ==
  ASSUME IInv, NEW i \in 0..MaxInFlight, NEW t \in Tab, NEW n, Open(n)
  PROVE  /\ Logout(i, t, n) \in Call /\ CallSound(Logout(i, t, n))
         /\ Logout(i, t, n).what = "logout"
  <1>1. n \in 0..MaxSessions /\ sessions[n].user \in User
    BY Lengths DEF IInv, Open, Issued
  <1>2. stored[App(t)].refresh \in 0..MaxSessions
    BY DEF IInv, TypeOK, App
  <1>. DEFINE c == Logout(i, t, n)
  <1>3. c \in Call /\ c.what = "logout" /\ c.session = n
        /\ c.user = sessions[n].user /\ c.at = "sent"
    BY <1>1, <1>2, NewCallTyped DEF Logout
  <1>. QED
    BY <1>3 DEF CallSound

\* A tab makes a call.
LEMMA Started ==
  ASSUME IInv, NEW t \in Tab, NEW what \in {"login", "mfa", "register", "buy", "orders", "export"},
         NEW n \in 0..MaxSessions, NEW u \in User, Start(t, what, n, 0, u),
         UNCHANGED <<sessions, page, stored, faults, crossed, interrupted>>,
         what \in {"buy", "orders", "export"} =>
           n = page[t].token /\ n # 0 /\ u = sessions[n].user,
         what = "mfa" => n \in DOMAIN sessions,
         what = "buy" => t \in Shop,
         what \in {"login", "mfa", "register"} => page[t].token = 0
  PROVE  IInv'
  <1>1. PICK i \in NewIds : calls' = calls \cup {NewCall(i, t, what, n, 0, u)}
    BY DEF Start
  <1>. DEFINE c == NewCall(i, t, what, n, 0, u)
  <1>2. i \in 0..MaxInFlight /\ 0 \in 0..MaxSessions
    BY Lengths DEF NewIds, IInv
  <1>3. /\ c \in Call /\ c.tab = t /\ c.what = what
        /\ c.session = n /\ c.user = u /\ c.at = "sent"
    BY <1>2, NewCallTyped
  <1>4. what \in {"buy", "orders", "export"} => Open(n)
    BY DEF IInv, PageSound
  <1>5. Grow /\ CallSound(c)
    BY <1>3, <1>4, GrowSame, FrontendsAssumption DEF CallSound, IInv
  <1>6. CallSound(c)'
    BY <1>5, CallStays
  <1>7. Fits(c)'
    BY <1>3 DEF Fits
  <1>8. clicks' \in 0..MaxClicks
    BY FrontendsAssumption DEF Start, Click, IInv, TypeOK
  <1>. HIDE DEF c
  <1>. QED
    BY <1>1, <1>3, <1>5, <1>6, <1>7, <1>8, Quiet DEF IInv, TypeOK, c

\* Clicks preserve the invariant.
LEMMA ClicksInv ==
  ASSUME IInv, NEW t \in Tab,
         \/ \E u \in User : SignIn(t, u) \/ SignUp(t, u)
         \/ Verify(t) \/ CancelMfa(t)
         \/ \E what \in {"buy", "orders", "export"} : Ask(t, what)
         \/ Back(t) \/ SignOut(t)
  PROVE  IInv'
  <1>0. /\ TypeOK /\ page[t] \in Page /\ PageSound(page[t]) /\ Shown(t)
        /\ 0 \in 0..MaxSessions
        /\ \A n \in DOMAIN sessions : n \in 1..MaxSessions /\ sessions[n].user \in User
    BY Lengths DEF IInv, TypeOK, Issued
  <1>1. ASSUME NEW u \in User, SignIn(t, u) \/ SignUp(t, u) PROVE IInv'
    BY <1>0, <1>1, Started DEF SignIn, SignUp, SignedOut
  <1>2. CASE Verify(t)
    <2>1. page[t].mfa \in DOMAIN sessions
      BY <1>0, <1>2 DEF Verify, PageSound
    <2>. QED
      BY <1>0, <1>2, <2>1, Started DEF Verify, SignedOut
  <1>3. CASE CancelMfa(t)
    <2>. DEFINE p == [page[t] EXCEPT !.mfa = 0]
    <2>1. p \in Page /\ p.token = page[t].token /\ p.shows = page[t].shows /\ p.mfa = 0
      BY <1>0 DEF Page
    <2>2. page' = [page EXCEPT ![t] = p] /\ page'[t] = p
      BY <1>0, <1>3 DEF CancelMfa, TypeOK
    <2>3. \A c \in calls : Fits(c) /\ (c.tab = t => Fits(c)')
      BY <1>3, <2>1, <2>2 DEF Fits, CancelMfa, IInv
    <2>4. PageSound(p)
      BY <1>0, <2>1 DEF PageSound
    <2>5. p.shows # 0 => /\ t \in Admin => Role[sessions[p.shows].user] = "ADMIN"
                         /\ t \in crossed' \/ p.shows = p.token
      BY <1>0, <1>3, <2>1 DEF CancelMfa, Shown
    <2>6. /\ clicks' \in 0..MaxClicks /\ faults' \in 0..MaxFaults
          /\ crossed' = crossed /\ crossed \subseteq Tab /\ interrupted' \subseteq Tab
          /\ calls' = calls /\ UNCHANGED sessions
          /\ stored' = stored
          /\ stored' \in [{"shop", "admin"} -> [token : 0..MaxSessions, refresh : 0..MaxSessions]]
      BY <1>0, <1>3 DEF CancelMfa, TypeOK
    <2>. HIDE DEF p
    <2>. QED
      BY <2>1, <2>2, <2>3, <2>4, <2>5, <2>6, Turned DEF IInv
  <1>4. ASSUME NEW what \in {"buy", "orders", "export"}, Ask(t, what) PROVE IInv'
    <2>1. page[t].token \in DOMAIN sessions
      BY <1>0, <1>4 DEF Ask, PageSound, Open
    <2>2. what = "buy" => t \in Shop
      BY <1>4 DEF Ask
    <2>. QED
      BY <1>0, <1>4, <2>1, <2>2, Started DEF Ask
  <1>5. CASE Back(t)
    <2>. DEFINE p == [page[t] EXCEPT !.shows = 0]
    <2>1. p \in Page /\ p.token = page[t].token /\ p.shows = 0 /\ p.mfa = page[t].mfa
      BY <1>0 DEF Page
    <2>2. page' = [page EXCEPT ![t] = p] /\ page'[t] = p
      BY <1>0, <1>5 DEF Back, TypeOK
    <2>3. \A c \in calls : Fits(c) /\ (c.tab = t => Fits(c)')
      BY <1>5, <2>1, <2>2 DEF Fits, Back, IInv
    <2>4. PageSound(p)
      BY <1>0, <2>1 DEF PageSound
    <2>5. /\ clicks' \in 0..MaxClicks /\ faults' \in 0..MaxFaults
          /\ crossed' = crossed /\ crossed \subseteq Tab /\ interrupted' \subseteq Tab
          /\ calls' = calls /\ UNCHANGED sessions
          /\ stored' = stored
          /\ stored' \in [{"shop", "admin"} -> [token : 0..MaxSessions, refresh : 0..MaxSessions]]
      BY <1>0, <1>5 DEF Back, TypeOK
    <2>6. \A a \in {"shop", "admin"} : stored'[a].token # 0 => Open(stored'[a].token)
      BY <2>5 DEF IInv
    <2>. HIDE DEF p
    <2>. QED
      BY <2>1, <2>2, <2>3, <2>4, <2>5, <2>6, Turned
  <1>6. CASE SignOut(t)
    <2>1. Open(page[t].token)
      BY <1>0, <1>6 DEF SignOut, PageSound
    <2>2. PICK i \in NewIds : calls' = calls \cup {Logout(i, t, page[t].token)}
      BY <1>6 DEF SignOut
    <2>3. i \in 0..MaxInFlight
      BY Lengths, <1>0 DEF NewIds
    <2>4. PICK c \in Call : c = Logout(i, t, page[t].token) /\ CallSound(c) /\ c.what = "logout"
      BY <2>1, <2>3, LogoutSound
    <2>5. Grow
      BY <1>0, <1>6, GrowSame DEF SignOut
    <2>6. CallSound(c)' /\ Fits(c)'
      BY <2>4, <2>5, CallStays DEF Fits
    <2>7. clicks' \in 0..MaxClicks
      BY <1>0, <1>6, FrontendsAssumption DEF SignOut, Click, TypeOK
    <2>8. crossed \subseteq crossed' /\ crossed' \subseteq Tab
      BY <1>0, <1>6 DEF SignOut, Mixed, TypeOK
    <2>. QED
      BY <1>0, <1>6, <2>2, <2>4, <2>5, <2>6, <2>7, <2>8, Quiet DEF SignOut, TypeOK
  <1>. QED
    BY <1>1, <1>2, <1>3, <1>4, <1>5, <1>6


\* A call whose tab was reloaded knows what it knew.
LEMMA Untabbed ==
  ASSUME NEW c \in Call, CallSound(c)
  PROVE  LET d == [c EXCEPT !.tab = NoTab]
         IN  d \in Call /\ CallSound(d) /\ Fits(d)'
  BY FrontendsAssumption DEF Call, CallSound, Fits, Tab

\* A reload preserves the invariant.
LEMMA ReloadInv ==
  ASSUME IInv, NEW t \in Tab, Reload(t)
  PROVE  IInv'
  <1>. DEFINE n == stored[App(t)].token
              p == [Blank EXCEPT !.token = n]
              own == {c \in calls : c.tab = t}
              left == (calls \ own) \cup
                        {[c EXCEPT !.tab = NoTab] : c \in {c \in own : HasEffect(c) /\ c.at \notin Final}}
  <1>1. /\ n \in 0..MaxSessions /\ (n # 0 => Open(n) /\ sessions[n].user \in User)
        /\ stored \in [{"shop", "admin"} -> [token : 0..MaxSessions, refresh : 0..MaxSessions]]
        /\ 0 \in 0..MaxSessions
    BY Lengths DEF IInv, TypeOK, App, Open, Issued
  <1>2. p \in Page /\ p.token = n /\ p.mfa = 0 /\ p.shows = 0 /\ PageSound(p)
    BY <1>1 DEF Blank, Page, PageSound
  <1>3. page' = [page EXCEPT ![t] = p] /\ page'[t] = p
    BY DEF Reload, IInv, TypeOK
  <1>4. ASSUME NEW c \in left
        PROVE  c \in Call /\ CallSound(c) /\ (c \notin calls \/ c.tab = t => Fits(c)')
    <2>1. CASE c \in calls \ own
      BY <2>1 DEF IInv, TypeOK
    <2>2. CASE c \in {[d EXCEPT !.tab = NoTab] : d \in {d \in own : HasEffect(d) /\ d.at \notin Final}}
      <3>1. PICK d \in calls : c = [d EXCEPT !.tab = NoTab]
        BY <2>2
      <3>2. d \in Call /\ CallSound(d)
        BY DEF IInv, TypeOK
      <3>. QED
        BY <3>1, <3>2, Untabbed
    <2>. QED
      BY <1>4, <2>1, <2>2
  <1>5. ASSUME NEW c \in calls', c \notin left
        PROVE  c \in Call /\ CallSound(c) /\ Fits(c)'
    <2>1. PICK i \in NewIds :
            n # 0 /\ t \in Admin /\ c = NewCall(i, t, "orders", n, 0, sessions[n].user)
      BY <1>5 DEF Reload
    <2>2. i \in 0..MaxInFlight
      BY Lengths DEF NewIds, IInv
    <2>3. /\ c \in Call /\ c.tab = t /\ c.what = "orders" /\ c.session = n
          /\ c.user = sessions[n].user /\ c.at = "sent"
      <3>1. n \in 0..MaxSessions /\ 0 \in 0..MaxSessions /\ sessions[n].user \in User
        BY <1>1, <2>1
      <3>. QED
        BY <2>1, <2>2, <3>1, NewCallTyped
    <2>4. CallSound(c)
      BY <1>1, <2>1, <2>3 DEF CallSound
    <2>5. Fits(c)'
      BY <1>2, <1>3, <2>3 DEF Fits
    <2>. QED
      BY <2>3, <2>4, <2>5
  <1>6. /\ UNCHANGED <<sessions, stored, faults>> /\ clicks' \in 0..MaxClicks
        /\ crossed \subseteq crossed' /\ crossed' \subseteq Tab /\ interrupted' \subseteq Tab
    BY FrontendsAssumption DEF Reload, Click, Mixed, IInv, TypeOK
  <1>7. faults' \in 0..MaxFaults
    BY <1>6 DEF IInv, TypeOK
  <1>8. \A c \in calls' : c \in calls \/ (c \in Call /\ CallSound(c))
    BY <1>4, <1>5
  <1>9. \A c \in calls' : c \notin calls \/ c.tab = t => Fits(c)'
    BY <1>4, <1>5
  <1>10. \A a \in {"shop", "admin"} : stored'[a].token # 0 => Open(stored'[a].token)
    BY <1>6 DEF IInv
  <1>. HIDE DEF n, p, own, left
  <1>. QED
    BY <1>1, <1>2, <1>3, <1>6, <1>7, <1>8, <1>9, <1>10, Turned


-----------------------------------------------------------------------------
\* A call comes to a stage.
LEMMA Moved ==
  ASSUME IInv, NEW c \in calls, NEW at \in {"authenticated", "ok", "refused", "denied", "failed"},
         Grow, Becomes(c, at), UNCHANGED <<page, stored, clicks, crossed, interrupted>>,
         faults' \in 0..MaxFaults,
         at = "ok" /\ c.what \in {"login", "mfa"} => Open(c.session)',
         at = "ok" /\ c.what = "orders" => Role[c.user] = "ADMIN"
  PROVE  IInv'
  <1>. DEFINE d == [c EXCEPT !.at = at]
  <1>1. c \in Call /\ CallSound(c)' /\ Fits(c)
    BY CallStays DEF IInv, TypeOK
  <1>2. /\ d \in Call /\ d.what = c.what /\ d.tab = c.tab /\ d.session = c.session
        /\ d.user = c.user /\ d.at = at
    BY <1>1 DEF Call, Final
  <1>3. CallSound(d)' /\ Fits(d)'
    BY <1>1, <1>2 DEF CallSound, Fits
  <1>4. \A e \in calls' : e \in calls \/ e = d
    BY DEF Becomes
  <1>5. /\ clicks' \in 0..MaxClicks /\ crossed \subseteq crossed' /\ crossed' \subseteq Tab
        /\ interrupted' \subseteq Tab
    BY DEF IInv, TypeOK
  <1>. HIDE DEF d
  <1>. QED
    BY <1>2, <1>3, <1>4, <1>5, Quiet

\* The gateway answers only administrators with data, and nobody with an empty file.
LEMMA AnswersSound ==
  ASSUME IInv, NEW c \in calls, NEW at \in Answers(c), c.what \in {"buy", "orders", "export"}
  PROVE  /\ at \in {"ok", "refused", "denied", "failed"}
         /\ at = "ok" /\ c.what = "orders" => Role[c.user] = "ADMIN"
  <1>1. c \in Call /\ Role[c.user] \in {"ADMIN", "USER"}
    BY FrontendsAssumption DEF IInv, TypeOK, Call, Roles
  <1>2. /\ "orders:read" \in RolePermissions["ADMIN"]
        /\ "orders:read" \notin RolePermissions["USER"]
    BY DEF RolePermissions
  <1>3. CASE Role[c.user] = "ADMIN"
    BY <1>2, <1>3 DEF Answers, Authenticated, Permissions, EvaluateRules
  <1>4. CASE Role[c.user] = "USER"
    BY <1>2, <1>4 DEF Answers, Authenticated, Permissions, EvaluateRules
  <1>. QED
    BY <1>1, <1>3, <1>4

\* The services preserve the invariant.
LEMMA ServicesInv ==
  ASSUME IInv, NEW c \in calls, Process(c) \/ Lose(c)
  PROVE  IInv'
  <1>0. /\ TypeOK /\ c \in Call /\ CallSound(c) /\ Fits(c) /\ faults \in 0..MaxFaults
        /\ MaxFaults \in Nat
    BY FrontendsAssumption DEF IInv, TypeOK
  <1>1. CASE Serve(c)
    BY <1>0, <1>1, AnswersSound, GrowSame, Moved DEF Serve
  <1>2. CASE ServeFails(c)
    BY <1>0, <1>2, GrowSame, Moved DEF ServeFails, Fault
  <1>3. CASE Authenticate(c)
    BY <1>0, <1>3, GrowSame, Moved DEF Authenticate, Authenticated
  <1>4. CASE Revoke(c)
    <2>1. Grow
      BY <1>0, <1>4, GrowSame, GrowRevoked DEF Revoke
    <2>. QED
      BY <1>0, <1>4, <2>1, Moved DEF Revoke, Fault
  <1>5. CASE Grant(c)
    <2>1. CASE Becomes(c, "refused") /\ UNCHANGED sessions
      BY <1>0, <1>5, <2>1, GrowSame, Moved DEF Grant
    <2>2. CASE ~(Becomes(c, "refused") /\ UNCHANGED sessions)
      <3>. DEFINE new == IF c.user \in WithMfa
             THEN [user |-> c.user, app |-> "shop", refresh |-> FALSE, access |-> "challenge"]
             ELSE [user |-> c.user, app |-> "shop", refresh |-> TRUE, access |-> "good"]
      <3>1. PICK s \in Issued :
              /\ Len(sessions) < MaxSessions /\ sessions' = Append(sessions, s)
              /\ s.access = IF c.user \in WithMfa THEN "challenge" ELSE "good"
        <4>1. new \in Issued /\ new.access = IF c.user \in WithMfa THEN "challenge" ELSE "good"
          BY <1>0 DEF Issued, Call
        <4>2. Len(sessions) < MaxSessions /\ sessions' = Append(sessions, new)
          BY <1>5, <2>2 DEF Grant
        <4>. HIDE DEF new
        <4>. QED
          BY <4>1, <4>2
      <3>2. PICK n : n = Len(sessions) + 1
        OBVIOUS
      <3>. DEFINE at == IF c.user \in WithMfa THEN "challenge" ELSE "ok"
                  d  == [c EXCEPT !.session = n, !.at = at]
      <3>3. calls' = (calls \ {c}) \cup {d} /\ c.what = "login"
        BY <1>5, <2>2, <3>2 DEF Grant
      <3>4. /\ Grow /\ n \in DOMAIN sessions' /\ sessions'[n] = s /\ n \in 1..MaxSessions
        BY <1>0, <3>1, <3>2, GrowAppend, Lengths
      <3>5. at \in Final /\ at # "empty" /\ (at = "ok" => c.user \notin WithMfa)
        BY DEF Final
      <3>. HIDE DEF at
      <3>6. /\ d \in Call /\ d.what = "login" /\ d.tab = c.tab /\ d.session = n
            /\ d.at = at /\ d.user = c.user
        <4>1. MaxSessions \in Nat /\ n \in 0..MaxSessions
          BY <1>0, <3>4, Lengths
        <4>. QED
          BY <1>0, <3>3, <3>5, <4>1 DEF Call
      <3>7. CallSound(d)'
        BY <3>1, <3>4, <3>6, <3>5 DEF CallSound, Open
      <3>8. Fits(d)'
        BY <1>0, <1>5, <3>3, <3>6 DEF Fits, Grant
      <3>9. UNCHANGED <<page, stored, clicks, faults, crossed, interrupted>>
        BY <1>5 DEF Grant
      <3>. HIDE DEF d
      <3>. QED
        BY <1>0, <3>3, <3>4, <3>6, <3>7, <3>8, <3>9, Quiet DEF TypeOK
    <2>. QED
      BY <2>1, <2>2
  <1>6. CASE GrantMfa(c)
    <2>1. CASE Becomes(c, "refused") /\ UNCHANGED sessions
      BY <1>0, <1>6, <2>1, GrowSame, Moved DEF GrantMfa
    <2>2. CASE ~(Becomes(c, "refused") /\ UNCHANGED sessions)
      <3>1. c.session \in DOMAIN sessions
        BY <1>0, <1>6 DEF GrantMfa, CallSound
      <3>. DEFINE s == [sessions[c.session] EXCEPT !.access = "good", !.refresh = TRUE]
      <3>2. sessions[c.session] \in Issued
        BY <1>0, <3>1, Lengths
      <3>3. s \in Issued /\ s.user = sessions[c.session].user /\ s.access = "good"
        BY <3>2 DEF Issued
      <3>4. sessions' = [sessions EXCEPT ![c.session] = s] /\ Becomes(c, "ok")
        BY <1>6, <2>2, <3>1, <3>2 DEF GrantMfa, Issued
      <3>5. Grow
        BY <1>0, <3>1, <3>3, <3>4, GrowOne
      <3>6. Open(c.session)'
        BY <3>1, <3>3, <3>4, <3>5 DEF Open, Grow
      <3>. QED
        BY <1>0, <1>6, <3>4, <3>5, <3>6, Moved DEF GrantMfa
    <2>. QED
      BY <2>1, <2>2
  <1>7. CASE Enrol(c)
    BY <1>0, <1>7, GrowSame, Moved DEF Enrol
  <1>8. CASE Lose(c)
    <2>. DEFINE d == [c EXCEPT !.at = "failed"]
    <2>1. /\ d \in Call /\ d.what = c.what /\ d.tab = c.tab /\ d.session = c.session
          /\ d.user = c.user /\ d.at = "failed"
      BY <1>0 DEF Call, Final
    <2>2. Grow /\ CallSound(c)'
      BY <1>0, <1>8, GrowSame, CallStays DEF Lose
    <2>3. CallSound(d)' /\ Fits(d)'
      BY <1>0, <1>8, <2>1, <2>2 DEF CallSound, Fits, Lose
    <2>. DEFINE e == [c EXCEPT !.tab = NoTab]
    <2>4. e \in Call /\ CallSound(e) /\ Fits(e)'
      BY <1>0, Untabbed
    <2>5. CallSound(e)'
      BY <2>2, <2>4, CallStays
    <2>6. \A f \in calls' : f \in calls \/ f = d \/ f = e
      BY <1>8 DEF Lose
    <2>7. faults' \in 0..MaxFaults /\ UNCHANGED <<page, stored, clicks, crossed, interrupted>>
      BY <1>0, <1>8 DEF Lose, Fault
    <2>. HIDE DEF d, e
    <2>. QED
      BY <1>0, <2>1, <2>2, <2>3, <2>4, <2>5, <2>6, <2>7, Quiet DEF TypeOK
  <1>. QED
    BY <1>1, <1>2, <1>3, <1>4, <1>5, <1>6, <1>7, <1>8 DEF Process


\* The clock preserves the invariant.
LEMMA ExpireInv ==
  ASSUME IInv, NEW n \in Session, Expire(n)
  PROVE  IInv'
  <1>. DEFINE s == [sessions[n] EXCEPT !.access = "expired"]
  <1>1. n \in DOMAIN sessions /\ sessions[n] \in Issued
    BY Lengths DEF Expire, IInv
  <1>2. s \in Issued /\ s.user = sessions[n].user /\ s.access = "expired"
    BY <1>1 DEF Issued
  <1>3. sessions' = [sessions EXCEPT ![n] = s]
    BY <1>1 DEF Expire
  <1>. HIDE DEF s
  <1>4. Grow
    BY <1>1, <1>2, <1>3, GrowOne DEF IInv
  <1>. QED
    BY <1>4, Quiet DEF Expire, IInv, TypeOK

-----------------------------------------------------------------------------
\* When a tab handles an answer that changes who is signed in, its other calls
\* are crossed.
LEMMA OthersCrossed ==
  ASSUME NEW c \in calls, NEW d \in calls \ {c}, d.tab = c.tab,
         crossed' = crossed \cup Others(c)
  PROVE  Fits(d)'
  BY DEF Others, Fits

\* Pages that handle an answer preserve the invariant.
LEMMA AnswersInv ==
  ASSUME IInv, NEW c \in calls, Handle(c)
  PROVE  IInv'
  <1>. DEFINE t == c.tab
  <1>0. /\ TypeOK /\ c \in Call /\ CallSound(c) /\ Fits(c)
        /\ stored \in [{"shop", "admin"} -> [token : 0..MaxSessions, refresh : 0..MaxSessions]]
        /\ clicks \in 0..MaxClicks /\ faults \in 0..MaxFaults
        /\ crossed \subseteq Tab /\ interrupted \subseteq Tab /\ page \in [Tab -> Page]
        /\ 0 \in 0..MaxSessions
    BY Lengths DEF IInv, TypeOK
  <1>1. c.tab \in Tab
    BY <1>0 DEF Handle, SignedIn, SignedUp, Got, LoggedOut, Ends, Call
  <1>2. page[t] \in Page /\ PageSound(page[t]) /\ Shown(t)
    BY <1>0, <1>1 DEF IInv
  <1>3. Others(c) \subseteq Tab
    BY <1>1 DEF Others
  <1>4. \A a \in {"shop", "admin"} : stored[a].token # 0 => Open(stored[a].token)
    BY DEF IInv
  <1>5. CASE SignedIn(c)
    <2>0. /\ UNCHANGED <<sessions, clicks, faults, interrupted>>
          /\ calls' = calls \ {c} /\ c.what \in {"login", "mfa"}
      BY <1>5 DEF SignedIn, Ends
    <2>1. CASE c.at = "ok"
      <3>1. PICK m \in 0..MaxSessions : m = IF c.what = "mfa" THEN 0 ELSE page[t].mfa
        BY <1>0, <1>2 DEF Page
      <3>2. PICK p \in Page : /\ p.token = c.session /\ p.mfa = m /\ p.shows = page[t].shows
                              /\ p = [page[t] EXCEPT !.token = c.session, !.mfa = m]
        BY <1>0, <1>2 DEF Page, Call
      <3>3. /\ page' = [page EXCEPT ![t] = p]
            /\ stored' = [stored EXCEPT !["shop"] = [token |-> c.session, refresh |-> c.session]]
            /\ crossed' = crossed \cup Others(c)
        BY <1>0, <1>1, <1>5, <2>1, <3>1, <3>2 DEF SignedIn, Page
      <3>4. Open(c.session) /\ c.session \in 0..MaxSessions
        BY <1>0, <2>0, <2>1 DEF CallSound, Call
      <3>5. PageSound(p)
        BY <1>2, <3>1, <3>2, <3>4 DEF PageSound
      <3>6. p.shows # 0 => /\ t \in Admin => Role[sessions[p.shows].user] = "ADMIN"
                           /\ t \in crossed' \/ p.shows = p.token
        BY <1>0, <1>1, <1>2, <2>0, <3>2, <3>3 DEF Fits, Shown
      <3>7. /\ stored' \in [{"shop", "admin"} -> [token : 0..MaxSessions, refresh : 0..MaxSessions]]
            /\ \A a \in {"shop", "admin"} : stored'[a].token # 0 => Open(stored'[a].token)
        BY <1>0, <1>4, <3>3, <3>4
      <3>8. \A d \in calls' : d \in calls /\ (d \notin calls \/ d.tab = t => Fits(d)')
        BY <2>0, <3>3, OthersCrossed
      <3>. QED
        BY <1>0, <1>1, <1>3, <2>0, <3>2, <3>3, <3>5, <3>6, <3>7, <3>8, Turned
    <2>2. CASE c.at = "challenge"
      <3>1. PICK p \in Page : /\ p.token = page[t].token /\ p.mfa = c.session
                              /\ p.shows = page[t].shows
                              /\ p = [page[t] EXCEPT !.mfa = c.session]
        BY <1>0, <1>2 DEF Page, Call
      <3>2. page' = [page EXCEPT ![t] = p] /\ UNCHANGED <<stored, crossed>>
        BY <1>0, <1>1, <1>5, <2>2, <3>1 DEF SignedIn
      <3>3. PageSound(p)
        BY <1>0, <1>2, <2>2, <3>1 DEF PageSound, CallSound
      <3>4. p.shows # 0 => /\ t \in Admin => Role[sessions[p.shows].user] = "ADMIN"
                           /\ t \in crossed' \/ p.shows = p.token
        BY <1>2, <3>1, <3>2 DEF Shown
      <3>5. page'[t] = p
        BY <1>0, <1>1, <3>2
      <3>6. \A d \in calls' : d \in calls /\ (d \notin calls \/ d.tab = t => Fits(d)')
        BY <1>1, <2>0, <3>1, <3>2, <3>5 DEF IInv, Fits
      <3>. QED
        BY <1>0, <1>1, <1>4, <2>0, <3>1, <3>2, <3>3, <3>4, <3>6, Turned
    <2>3. CASE c.at \notin {"ok", "challenge"}
      <3>1. UNCHANGED <<page, stored, crossed>>
        BY <1>5, <2>3 DEF SignedIn
      <3>. QED
        BY <1>0, <2>0, <3>1, GrowSame, Quiet
    <2>. QED
      BY <2>1, <2>2, <2>3
  <1>6. CASE SignedUp(c)
    <2>1. UNCHANGED <<sessions, page, stored, clicks, faults, crossed, interrupted>>
      BY <1>6 DEF SignedUp
    <2>2. Grow /\ c.id \in 0..MaxInFlight /\ c.user \in User
      BY <1>0, <2>1, GrowSame DEF Call
    <2>. DEFINE d == NewCall(c.id, t, "login", 0, 0, c.user)
    <2>3. d \in Call /\ d.tab = t /\ d.what = "login" /\ d.at = "sent"
      BY <1>0, <1>1, <2>2 DEF NewCall, Call
    <2>4. CallSound(d)' /\ Fits(d)'
      BY <1>0, <1>6, <2>1, <2>3 DEF CallSound, Fits, SignedUp
    <2>5. \A e \in calls' : e \in calls \/ e = d
      BY <1>6 DEF SignedUp
    <2>. HIDE DEF d
    <2>. QED
      BY <1>0, <2>1, <2>2, <2>3, <2>4, <2>5, Quiet
  <1>7. CASE Got(c)
    <2>0. /\ UNCHANGED <<sessions, stored, clicks, faults, interrupted>>
          /\ c.what \in {"buy", "orders", "export"} /\ Open(c.session)
          /\ c.session \in 0..MaxSessions /\ c.user = sessions[c.session].user
      BY <1>0, <1>7 DEF Got, CallSound, Call
    <2>1. CASE SignsOut(c)
      <3>1. c.id \in 0..MaxInFlight /\ Grow
        BY <1>0, <2>0, GrowSame DEF Call
      <3>2. PICK d \in Call : d = Logout(c.id, t, c.session) /\ CallSound(d) /\ d.what = "logout"
        BY <1>1, <2>0, <3>1, LogoutSound
      <3>3. CallSound(d)' /\ Fits(d)'
        BY <3>1, <3>2, CallStays DEF Fits
      <3>4. /\ page' = page /\ crossed' = crossed \cup Mixed(t, c.session)
            /\ \A e \in calls' : e \in calls \/ e = d
        BY <1>7, <2>1, <3>2 DEF Got, SignsOut
      <3>5. crossed \subseteq crossed' /\ crossed' \subseteq Tab
        BY <1>0, <1>1, <3>4 DEF Mixed
      <3>. QED
        BY <1>0, <2>0, <3>1, <3>2, <3>3, <3>4, <3>5, Quiet
    <2>2. CASE ~SignsOut(c)
      <3>1. calls' = calls \ {c} /\ UNCHANGED crossed
        BY <1>7, <2>2 DEF Got
      <3>2. CASE page' = page
        BY <1>0, <2>0, <3>1, <3>2, GrowSame, Quiet
      <3>3. CASE page' # page
        <4>0. c.what \in {"buy", "orders"} /\ c.at = "ok"
          BY <1>7, <3>3 DEF Got
        <4>1. PICK p \in Page : /\ p.token = page[t].token /\ p.mfa = page[t].mfa
                                /\ p.shows = c.session
                                /\ p = [page[t] EXCEPT !.shows = c.session]
          BY <1>2, <2>0 DEF Page
        <4>2. page' = [page EXCEPT ![t] = p]
          BY <1>0, <1>1, <1>7, <4>0, <4>1 DEF Got
        <4>3. PageSound(p)
          BY <1>2, <2>0, <4>1 DEF PageSound, Open
        <4>4. p.shows # 0 => /\ t \in Admin => Role[sessions[p.shows].user] = "ADMIN"
                             /\ t \in crossed' \/ p.shows = p.token
          BY <1>0, <1>1, <2>0, <3>1, <4>0, <4>1 DEF Fits, CallSound
        <4>5. page'[t] = p
          BY <1>0, <1>1, <4>2
        <4>6. \A d \in calls' : d \in calls /\ (d \notin calls \/ d.tab = t => Fits(d)')
          BY <1>1, <3>1, <4>1, <4>5 DEF IInv, Fits
        <4>. QED
          BY <1>0, <1>1, <1>4, <2>0, <3>1, <4>2, <4>3, <4>4, <4>6, Turned
      <3>. QED
        BY <3>2, <3>3
    <2>. QED
      BY <2>1, <2>2
  <1>8. CASE LoggedOut(c)
    <2>0. /\ UNCHANGED <<sessions, clicks, faults, interrupted>> /\ calls' = calls \ {c}
          /\ crossed' = crossed \cup Others(c)
          /\ stored' = [stored EXCEPT ![App(t)] = Empty]
      BY <1>8 DEF LoggedOut, Ends
    <2>1. PICK p \in Page : /\ p.token = 0 /\ p.mfa = page[t].mfa /\ p.shows = 0
                            /\ p = [page[t] EXCEPT !.token = 0, !.shows = 0]
      BY <1>0, <1>2 DEF Page
    <2>2. page' = [page EXCEPT ![t] = p]
      BY <1>0, <1>1, <1>8, <2>1 DEF LoggedOut, Page
    <2>3. PageSound(p)
      BY <1>2, <2>1 DEF PageSound
    <2>4. /\ stored' \in [{"shop", "admin"} -> [token : 0..MaxSessions, refresh : 0..MaxSessions]]
          /\ \A a \in {"shop", "admin"} : stored'[a].token # 0 => Open(stored'[a].token)
      BY <1>0, <1>4, <2>0 DEF Empty, App
    <2>5. \A d \in calls' : d \in calls /\ (d \notin calls \/ d.tab = t => Fits(d)')
      BY <2>0, OthersCrossed
    <2>. QED
      BY <1>0, <1>1, <1>3, <2>0, <2>1, <2>2, <2>3, <2>4, <2>5, Turned
  <1>. QED
    BY <1>5, <1>6, <1>7, <1>8 DEF Handle


\* Every step preserves the invariant.
LEMMA StepInv == IInv /\ [Next]_vars => IInv'
  <1>. SUFFICES ASSUME IInv, [Next]_vars PROVE IInv'
    OBVIOUS
  <1>1. ASSUME NEW t \in Tab,
               \/ \E u \in User : SignIn(t, u) \/ SignUp(t, u)
               \/ Verify(t) \/ CancelMfa(t)
               \/ \E what \in {"buy", "orders", "export"} : Ask(t, what)
               \/ Back(t) \/ SignOut(t)
        PROVE  IInv'
    BY <1>1, ClicksInv
  <1>2. ASSUME NEW t \in Tab, Reload(t) PROVE IInv'
    BY <1>2, ReloadInv
  <1>3. ASSUME NEW c \in calls, Process(c) \/ Lose(c) PROVE IInv'
    BY <1>3, ServicesInv
  <1>4. ASSUME NEW c \in calls, Handle(c) PROVE IInv'
    BY <1>4, AnswersInv
  <1>5. ASSUME NEW n \in Session, Expire(n) PROVE IInv'
    BY <1>5, ExpireInv
  <1>6. CASE UNCHANGED vars
    BY <1>6, GrowSame, Quiet DEF vars, IInv, TypeOK
  <1>. QED
    BY <1>1, <1>2, <1>3, <1>4, <1>5, <1>6 DEF Next

\* A browser that starts: nobody signed in, or an older admin session.
LEMMA InitInv == Init => IInv
  <1>. SUFFICES ASSUME Init PROVE IInv
    OBVIOUS
  <1>0. MaxSessions \in Nat \ {0} /\ MaxClicks \in Nat /\ MaxInFlight \in Nat /\ MaxFaults \in Nat
    BY FrontendsAssumption
  <1>1. Blank \in Page /\ Empty \in [token : 0..MaxSessions, refresh : 0..MaxSessions]
    BY <1>0 DEF Blank, Empty, Page
  <1>2. CASE sessions = <<>> /\ calls = {} /\ page = [t \in Tab |-> Blank]
             /\ stored = [a \in {"shop", "admin"} |-> Empty]
    <2>1. TypeOK
      BY <1>0, <1>1, <1>2, EmptySeq DEF Init, TypeOK, Blank
    <2>. QED
      BY <1>2, <2>1 DEF IInv, PageSound, Shown, Blank, Empty
  <1>3. ASSUME NEW u \in User, sessions = <<Older(u)>>,
               calls = {NewCall(0, t, "orders", 1, 0, u) : t \in Admin},
               page = [t \in Tab |-> IF t \in Admin THEN [Blank EXCEPT !.token = 1] ELSE Blank],
               stored = [a \in {"shop", "admin"} |->
                           IF a = "admin" THEN [Empty EXCEPT !.token = 1] ELSE Empty]
        PROVE  IInv
    <2>1. /\ Older(u) \in Issued /\ Older(u).user = u /\ Older(u).access = "good"
      BY DEF Older, Issued
    <2>2. /\ sessions \in Seq(Issued) /\ Len(sessions) = 1 /\ DOMAIN sessions = {1}
          /\ sessions[1] = Older(u)
      BY <1>3, <2>1
    <2>3. Open(1)
      BY <2>1, <2>2 DEF Open
    <2>4. /\ [Blank EXCEPT !.token = 1] \in Page
          /\ [Blank EXCEPT !.token = 1].token = 1
          /\ [Blank EXCEPT !.token = 1].mfa = 0 /\ [Blank EXCEPT !.token = 1].shows = 0
          /\ [Empty EXCEPT !.token = 1] \in [token : 0..MaxSessions, refresh : 0..MaxSessions]
      BY <1>0 DEF Blank, Empty, Page
    <2>5. /\ page \in [Tab -> Page]
          /\ \A t \in Tab : /\ page[t].token \in {0, 1} /\ page[t].mfa = 0 /\ page[t].shows = 0
                            /\ t \in Admin => page[t].token = 1
      BY <1>1, <1>3, <2>4 DEF Blank
    <2>6. ASSUME NEW c \in calls PROVE c \in Call /\ CallSound(c) /\ Fits(c)
      <3>1. PICK t \in Admin : c = NewCall(0, t, "orders", 1, 0, u)
        BY <1>3
      <3>2. /\ c \in Call /\ c.tab = t /\ c.what = "orders" /\ c.session = 1
            /\ c.user = u /\ c.at = "sent"
        BY <1>0, <3>1, NewCallTyped DEF Tab
      <3>. QED
        BY <2>1, <2>2, <2>3, <2>5, <3>2 DEF CallSound, Fits
    <2>7. TypeOK
      BY <1>0, <1>1, <1>3, <2>2, <2>3, <2>4, <2>5, <2>6 DEF Init, TypeOK, Open
    <2>8. \A t \in Tab : PageSound(page[t]) /\ Shown(t)
      BY <2>3, <2>5 DEF PageSound, Shown
    <2>9. \A a \in {"shop", "admin"} : stored[a].token # 0 => Open(stored[a].token)
      BY <1>3, <2>3 DEF Empty
    <2>. QED
      BY <2>6, <2>7, <2>8, <2>9 DEF IInv
  <1>. QED
    BY <1>2, <1>3 DEF Init

\* The inductive invariant: tokens are of sessions that were opened, calls know
\* whose they are, and agree with their tab unless they were crossed.
THEOREM Invariance == Spec => []IInv
  BY InitInv, StepInv, PTL DEF Spec

\* The state of the tabs, their storage and their calls has its types.
THEOREM TypeCorrect == Spec => []TypeOK
  <1>1. IInv => TypeOK
    BY DEF IInv
  <1>. QED
    BY <1>1, Invariance, PTL

\* What a tab shows was fetched by who is signed in at it, unless calls crossed;
\* the admin's data by an administrator; and no call is let through to be turned
\* away behind the gateway.
THEOREM OwnIsShown == Spec => []ShownIsOwn
  <1>1. IInv => ShownIsOwn
    BY DEF IInv, ShownIsOwn, Shown, CallSound
  <1>. QED
    BY <1>1, Invariance, PTL

-----------------------------------------------------------------------------
(* How sessions end. *)

\* The admin frontend holds no session of the storefront, and no refresh token; the
\* two tokens that the storefront stores are of one session.
OfAdmin(n) == sessions[n].app = "admin"

AdminCall(c) ==
  c.tab \in Admin =>
    /\ c.what # "mfa" /\ (c.what = "login" => c.at \notin {"ok", "challenge"})
    /\ c.what \in {"buy", "orders", "export", "logout"} => OfAdmin(c.session)

AppsApart ==
  /\ stored["shop"].token = stored["shop"].refresh /\ stored["admin"].refresh = 0
  /\ stored["admin"].token # 0 => OfAdmin(stored["admin"].token)
  /\ \A t \in Admin : page[t].mfa = 0 /\ (page[t].token # 0 => OfAdmin(page[t].token))
  /\ \A c \in calls : AdminCall(c)

\* Until a call fails, a tab is reloaded under a call or calls cross,
Undisturbed == faults = 0 /\ crossed = {} /\ interrupted = {}

\* a sign-out takes both tokens of its tab's session, and its answer finds that over;
EndsSession(c) ==
  /\ c.tab # NoTab
  /\ c.what = "logout" =>
       /\ c.session = page[c.tab].token
       /\ c.refresh = IF c.tab \in Shop THEN c.session ELSE 0
       /\ c.at \in Final => Access(c.session) # "good"

\* and a good session is a page's, or on its way to one in an answer.
Brings(c, n) == c.session = n /\ c.what \in {"login", "mfa"} /\ c.at = "ok"
Held(n) == (\E t \in Tab : page[t].token = n) \/ \E c \in calls : Brings(c, n)

BothTokens(n) ==
  sessions[n].app = "shop" =>
    /\ Access(n) \in {"challenge", "revoked"} => ~sessions[n].refresh
    /\ Access(n) = "good" => sessions[n].refresh /\ Held(n)

SessionInv ==
  /\ AppsApart
  /\ Undisturbed => /\ \A c \in calls : EndsSession(c)
                    /\ \A n \in DOMAIN sessions : BothTokens(n)

\* What a step may do to a session: one that is over is not good again.
Over == {"revoked", "expired"}
Turns ==
  \A n \in DOMAIN sessions :
    /\ n \in DOMAIN sessions' /\ sessions'[n].app = sessions[n].app
    /\ Access(n) \in Over => Access(n)' \in Over

\* A step that leaves the sessions alone.
LEMMA TurnsSame == ASSUME UNCHANGED sessions PROVE Turns
  BY DEF Turns, Access

\* A step that changes one session, which is over if it was.
LEMMA TurnsOne ==
  ASSUME TypeOK, NEW n \in DOMAIN sessions, NEW s,
         sessions' = [sessions EXCEPT ![n] = s], s.app = sessions[n].app,
         Access(n) \in Over => s.access \in Over
  PROVE  Turns
  BY Lengths DEF Turns, Access

\* A revocation.
LEMMA TurnsRevoked ==
  ASSUME TypeOK, NEW n, NEW r, sessions' = Revoked(sessions, n, r)
  PROVE  /\ Turns /\ DOMAIN sessions' = DOMAIN sessions
         /\ \A m \in DOMAIN sessions :
              /\ Access(m)' = IF m = n /\ Access(m) = "good" THEN "revoked" ELSE Access(m)
              /\ sessions'[m].refresh = (sessions[m].refresh /\ m # r)
  <1>1. \A m \in DOMAIN sessions :
          sessions[m] \in [user : User, app : {"shop", "admin"}, refresh : BOOLEAN,
                           access : {"challenge", "good", "revoked", "expired"}]
    BY Lengths DEF Issued
  <1>. QED
    BY <1>1 DEF Turns, Access, Over, Revoked

\* A new session.
LEMMA TurnsAppend ==
  ASSUME TypeOK, NEW s \in Issued, Len(sessions) < MaxSessions, sessions' = Append(sessions, s)
  PROVE  /\ Turns
         /\ \A m \in DOMAIN sessions' :
              \/ m \in DOMAIN sessions /\ sessions'[m] = sessions[m]
              \/ m = Len(sessions) + 1 /\ sessions'[m] = s
  <1>1. /\ Len(sessions') = Len(sessions) + 1 /\ sessions' \in Seq(Issued)
        /\ \A m \in 1..Len(sessions) : sessions'[m] = sessions[m]
        /\ sessions'[Len(sessions) + 1] = s
    BY AppendProperties DEF TypeOK
  <1>2. DOMAIN sessions' = 1..Len(sessions') /\ DOMAIN sessions = 1..Len(sessions)
        /\ Len(sessions) \in Nat
    BY <1>1, LenProperties, Lengths
  <1>. QED
    BY <1>1, <1>2 DEF Turns, Access

\* The frontends stay apart.
LEMMA ApartStays ==
  ASSUME IInv, AppsApart, Turns,
         stored'["shop"].token = stored'["shop"].refresh, stored'["admin"].refresh = 0,
         stored'["admin"].token \in {0, stored["admin"].token},
         \A t \in Admin : /\ page'[t].mfa = 0
                          /\ page'[t].token \in {0, page[t].token, stored["admin"].token},
         \A c \in calls' : c \in calls \/ AdminCall(c)'
  PROVE  AppsApart'
  <1>1. \A n \in DOMAIN sessions : OfAdmin(n) => OfAdmin(n)'
    BY DEF Turns, OfAdmin
  <1>2. stored["admin"].token # 0 => OfAdmin(stored["admin"].token) /\ stored["admin"].token \in DOMAIN sessions
    BY DEF IInv, AppsApart, Open
  <1>3. ASSUME NEW t \in Admin, page'[t].token # 0 PROVE OfAdmin(page[t].token)'
    <2>1. page[t].token # 0 => OfAdmin(page[t].token) /\ page[t].token \in DOMAIN sessions
      BY <1>3 DEF IInv, AppsApart, PageSound, Open, Tab
    <2>. QED
      BY <1>1, <1>2, <1>3, <2>1 DEF OfAdmin
  <1>4. ASSUME NEW c \in calls' PROVE AdminCall(c)'
    <2>1. CASE c \in calls
      <3>1. AdminCall(c) /\ CallSound(c)
        BY <2>1 DEF AppsApart, IInv
      <3>2. c.what \in {"buy", "orders", "export", "logout"} => c.session \in DOMAIN sessions
        BY <3>1 DEF CallSound, Open
      <3>. QED
        BY <1>1, <3>1, <3>2 DEF AdminCall, OfAdmin
    <2>. QED
      BY <1>4, <2>1
  <1>5. (stored["admin"].token # 0 => OfAdmin(stored["admin"].token))'
    BY <1>1, <1>2 DEF OfAdmin
  <1>. QED
    BY <1>3, <1>4, <1>5 DEF AppsApart, OfAdmin

\* A sign-out goes on to end its session, while its tab has it.
LEMMA EndsStill ==
  ASSUME IInv, Turns, NEW c \in calls, EndsSession(c), page'[c.tab].token = page[c.tab].token
  PROVE  EndsSession(c)'
  <1>1. CASE c.what = "logout"
    <2>1. c.session \in DOMAIN sessions /\ Access(c.session) # "challenge"
      BY <1>1 DEF IInv, CallSound, Open, Access
    <2>2. sessions[c.session] \in Issued
      BY <2>1, Lengths DEF IInv
    <2>3. Access(c.session) # "good" => Access(c.session)' # "good"
      BY <2>1, <2>2 DEF Issued, Access, Turns, Over
    <2>. QED
      BY <1>1, <2>3 DEF EndsSession, Access
  <1>. QED
    BY <1>1 DEF EndsSession

\* What is held is held on.
LEMMA HeldStill ==
  ASSUME \A t \in Tab : page'[t].token = page[t].token, NEW n, Held(n),
         \A c \in calls : Brings(c, n) => c \in calls'
  PROVE  Held(n)'
  BY DEF Held, Brings

\* A step that changes neither a session nor whose it is.
LEMMA Calm ==
  ASSUME IInv, SessionInv, UNCHANGED sessions, AppsApart',
         Undisturbed' => /\ Undisturbed
                         /\ \A t \in Tab : page'[t].token = page[t].token
                         /\ \A c \in calls' : c \in calls \/ EndsSession(c)'
                         /\ \A c \in calls : \A n \in DOMAIN sessions : Brings(c, n) => c \in calls'
  PROVE  SessionInv'
  <1>. SUFFICES ASSUME Undisturbed'
                PROVE  /\ \A c \in calls' : EndsSession(c)'
                       /\ \A n \in DOMAIN sessions : BothTokens(n)'
    BY DEF SessionInv
  <1>1. Undisturbed /\ \A c \in calls : EndsSession(c)
    BY DEF SessionInv
  <1>2. ASSUME NEW c \in calls' PROVE EndsSession(c)'
    <2>1. CASE c \in calls
      <3>1. c \in Call /\ c.tab # NoTab
        BY <1>1, <2>1 DEF IInv, TypeOK, EndsSession
      <3>2. page'[c.tab].token = page[c.tab].token
        BY <3>1 DEF Call
      <3>. QED
        BY <1>1, <2>1, <3>2, EndsStill, TurnsSame
    <2>. QED
      BY <1>2, <2>1
  <1>3. ASSUME NEW n \in DOMAIN sessions PROVE BothTokens(n)'
    <2>1. BothTokens(n) /\ Access(n)' = Access(n)
      BY <1>1 DEF SessionInv, Access
    <2>2. Held(n) => Held(n)'
      BY HeldStill
    <2>. QED
      BY <2>1, <2>2 DEF BothTokens
  <1>. QED
    BY <1>2, <1>3

\* What a user starts.
LEMMA ClicksKeep ==
  ASSUME IInv, SessionInv, NEW t \in Tab,
         \/ \E u \in User : SignIn(t, u) \/ SignUp(t, u)
         \/ Verify(t) \/ CancelMfa(t)
         \/ \E what \in {"buy", "orders", "export"} : Ask(t, what)
         \/ Back(t) \/ SignOut(t)
  PROVE  SessionInv'
  <1>0. /\ UNCHANGED <<sessions, stored, faults, interrupted>> /\ crossed \subseteq crossed'
        /\ Turns /\ AppsApart /\ page \in [Tab -> Page] /\ calls \subseteq calls'
        /\ (t \in Admin => page[t].mfa = 0)
        /\ Shop \cap Admin = {} /\ Tab = Shop \cup Admin /\ NoTab \notin Tab
    BY TurnsSame, FrontendsAssumption
       DEF SignIn, SignUp, Verify, CancelMfa, Ask, Back, SignOut, Start, SessionInv, AppsApart,
           IInv, TypeOK, Tab
  <1>1. Undisturbed' => Undisturbed
    BY <1>0 DEF Undisturbed
  <1>2. \A u \in Tab : /\ page'[u].token = page[u].token
                       /\ page'[u].mfa = page[u].mfa \/ page'[u].mfa = 0
    BY <1>0 DEF SignIn, SignUp, Verify, CancelMfa, Ask, Back, SignOut, Page
  <1>3. ASSUME NEW what \in {"login", "mfa", "register", "buy", "orders", "export"}, NEW n, NEW u,
               Start(t, what, n, 0, u), what = "mfa" => t \notin Admin,
               what \in {"buy", "orders", "export"} => n = page[t].token /\ n # 0
        PROVE  \A c \in calls' : c \in calls \/ (AdminCall(c)' /\ EndsSession(c)')
    <2>1. PICK i : calls' = calls \cup {NewCall(i, t, what, n, 0, u)}
      BY <1>3 DEF Start
    <2>2. PICK c : c = NewCall(i, t, what, n, 0, u)
      OBVIOUS
    <2>3. c.tab = t /\ c.what = what /\ c.session = n /\ c.at = "sent"
      BY <2>2 DEF NewCall
    <2>4. AdminCall(c)' /\ EndsSession(c)'
      BY <1>0, <1>3, <2>3 DEF AdminCall, EndsSession, AppsApart, OfAdmin
    <2>. QED
      BY <2>1, <2>2, <2>4
  <1>4. ASSUME SignOut(t)
        PROVE  /\ \A c \in calls' : c \in calls \/ AdminCall(c)'
               /\ Undisturbed' => \A c \in calls' : c \in calls \/ EndsSession(c)'
    <2>1. PICK i : calls' = calls \cup {Logout(i, t, page[t].token)}
      BY <1>4 DEF SignOut
    <2>2. PICK c : c = Logout(i, t, page[t].token)
      OBVIOUS
    <2>3. /\ c.tab = t /\ c.what = "logout" /\ c.session = page[t].token /\ c.at = "sent"
          /\ c.refresh = stored[App(t)].refresh
      BY <2>2 DEF Logout, NewCall
    <2>4. AdminCall(c)'
      BY <1>0, <1>4, <2>3 DEF AdminCall, AppsApart, OfAdmin, SignOut
    <2>5. ASSUME Undisturbed' PROVE EndsSession(c)'
      <3>1. stored[App(t)].token = page[t].token
        BY <1>4, <2>5 DEF SignOut, Mixed, Undisturbed
      <3>2. c.refresh = IF t \in Shop THEN page[t].token ELSE 0
        BY <1>0, <2>3, <3>1 DEF AppsApart, App
      <3>. QED
        BY <1>0, <1>2, <2>3, <3>2 DEF EndsSession, Final
    <2>. QED
      BY <2>1, <2>2, <2>4, <2>5
  <1>5. /\ \A c \in calls' : c \in calls \/ AdminCall(c)'
        /\ Undisturbed' => \A c \in calls' : c \in calls \/ EndsSession(c)'
    <2>1. ASSUME NEW u \in User, SignIn(t, u) \/ SignUp(t, u)
          PROVE  \A c \in calls' : c \in calls \/ (AdminCall(c)' /\ EndsSession(c)')
      BY <2>1, <1>3 DEF SignIn, SignUp
    <2>2. ASSUME Verify(t)
          PROVE  \A c \in calls' : c \in calls \/ (AdminCall(c)' /\ EndsSession(c)')
      BY <1>0, <2>2, <1>3 DEF Verify
    <2>3. ASSUME NEW what \in {"buy", "orders", "export"}, Ask(t, what)
          PROVE  \A c \in calls' : c \in calls \/ (AdminCall(c)' /\ EndsSession(c)')
      BY <2>3, <1>3 DEF Ask
    <2>4. ASSUME CancelMfa(t) \/ Back(t) PROVE calls' = calls
      BY <2>4 DEF CancelMfa, Back
    <2>. QED
      BY <1>4, <2>1, <2>2, <2>3, <2>4
  <1>6. AppsApart'
    BY <1>0, <1>2, <1>5, ApartStays DEF AppsApart, Tab
  <1>. QED
    BY <1>0, <1>1, <1>2, <1>5, <1>6, Calm

\* A reload, which disturbs a tab with calls in flight.
LEMMA ReloadKeeps == ASSUME IInv, SessionInv, NEW t \in Tab, Reload(t) PROVE SessionInv'
  <1>. DEFINE n == stored[App(t)].token
              own == {c \in calls : c.tab = t}
  <1>0. /\ UNCHANGED <<sessions, stored, faults>> /\ crossed' = crossed \cup Mixed(t, page[t].token)
        /\ Turns /\ AppsApart /\ page \in [Tab -> Page]
        /\ page' = [page EXCEPT ![t] = [Blank EXCEPT !.token = n]]
        /\ interrupted' = interrupted \cup {c.tab : c \in own}
        /\ Shop \cap Admin = {} /\ Tab = Shop \cup Admin /\ NoTab \notin Tab
    BY TurnsSame, FrontendsAssumption DEF Reload, SessionInv, IInv, TypeOK, Tab
  <1>1. ASSUME NEW c \in calls', c \notin calls
        PROVE  c.tab = NoTab \/ (t \in Admin /\ n # 0 /\ c.tab = t /\ c.what = "orders" /\ c.session = n)
    <2>1. \/ c \in {[d EXCEPT !.tab = NoTab] : d \in {d \in own : HasEffect(d) /\ d.at \notin Final}}
          \/ t \in Admin /\ n # 0 /\ \E i \in NewIds : c = NewCall(i, t, "orders", n, 0, sessions[n].user)
      BY <1>1 DEF Reload
    <2>2. \A d \in own : [d EXCEPT !.tab = NoTab].tab = NoTab
      BY DEF IInv, TypeOK, Call
    <2>3. CASE c \in {[d EXCEPT !.tab = NoTab] : d \in {d \in own : HasEffect(d) /\ d.at \notin Final}}
      <3>1. PICK d \in own : c = [d EXCEPT !.tab = NoTab]
        BY <2>3
      <3>. QED
        BY <2>2, <3>1
    <2>4. ASSUME t \in Admin, n # 0, NEW i, c = NewCall(i, t, "orders", n, 0, sessions[n].user)
          PROVE  c.tab = t /\ c.what = "orders" /\ c.session = n
      BY <2>4 DEF NewCall
    <2>. QED
      BY <2>1, <2>3, <2>4
  <1>2. \A c \in calls' : c \in calls \/ AdminCall(c)'
    BY <1>0, <1>1, FrontendsAssumption DEF AdminCall, AppsApart, OfAdmin, App, Tab
  <1>3. page'[t].token = n /\ page'[t].mfa = 0 /\ \A u \in Tab : u # t => page'[u] = page[u]
    BY <1>0 DEF Blank
  <1>4. AppsApart'
    <2>1. ASSUME NEW u \in Admin
          PROVE  page'[u].mfa = 0 /\ page'[u].token \in {0, page[u].token, stored["admin"].token}
      BY <1>0, <1>3, <2>1 DEF AppsApart, App, Tab
    <2>. QED
      BY <1>0, <1>2, <2>1, ApartStays DEF AppsApart
  <1>5. ASSUME Undisturbed'
        PROVE  /\ Undisturbed /\ own = {}
               /\ \A u \in Tab : page'[u].token = page[u].token
    <2>1. Undisturbed /\ own = {} /\ n = page[t].token
      BY <1>0, <1>5 DEF Undisturbed, Mixed
    <2>. QED
      BY <1>3, <2>1
  <1>6. ASSUME own = {}
        PROVE  /\ calls \subseteq calls'
               /\ \A c \in calls' : c \in calls \/ (c.what = "orders" /\ c.tab = t)
    BY <1>6 DEF Reload, NewCall
  <1>7. \A c \in calls' : Undisturbed' => c \in calls \/ EndsSession(c)'
    BY <1>0, <1>5, <1>6 DEF EndsSession
  <1>. QED
    BY <1>0, <1>4, <1>5, <1>6, <1>7, Calm

\* A call comes to a stage: nothing else happens but to sessions.
LEMMA Advances ==
  ASSUME IInv, SessionInv, NEW c \in calls, NEW at, Becomes(c, at), Turns,
         UNCHANGED <<page, stored>>, c.at \notin Final,
         c.tab \in Admin /\ c.what = "login" => at \notin {"ok", "challenge"}
  PROVE  /\ AppsApart'
         /\ Undisturbed /\ (c.what = "logout" /\ at \in Final => Access(c.session)' # "good") =>
              \A d \in calls' : EndsSession(d)'
         /\ \A n : Held(n) => Held(n)'
  <1>0. c \in Call /\ CallSound(c) /\ AdminCall(c) /\ AppsApart
    BY DEF IInv, TypeOK, SessionInv, AppsApart
  <1>1. PICK e : e = [c EXCEPT !.at = at]
    OBVIOUS
  <1>2. /\ e.tab = c.tab /\ e.what = c.what /\ e.session = c.session /\ e.refresh = c.refresh
        /\ e.at = at
    BY <1>0, <1>1 DEF Call
  <1>3. \A d \in calls' : d \in calls \/ d = e
    BY <1>1 DEF Becomes
  <1>4. AdminCall(e)'
    BY <1>0, <1>2 DEF AdminCall, CallSound, Open, OfAdmin, Turns
  <1>5. AppsApart'
    BY <1>0, <1>3, <1>4, ApartStays DEF AppsApart
  <1>6. ASSUME Undisturbed, c.what = "logout" /\ at \in Final => Access(c.session)' # "good",
               NEW d \in calls'
        PROVE  EndsSession(d)'
    <2>1. CASE d \in calls
      BY <1>6, <2>1, EndsStill DEF SessionInv
    <2>2. CASE d = e
      <3>1. EndsSession(c)
        BY <1>6 DEF SessionInv
      <3>. QED
        BY <1>2, <1>6, <2>2, <3>1 DEF EndsSession, Access
    <2>. QED
      BY <1>3, <1>6, <2>1, <2>2
  <1>7. ASSUME NEW n, Held(n) PROVE Held(n)'
    <2>1. \A d \in calls : Brings(d, n) => d \in calls'
      BY DEF Brings, Becomes, Final
    <2>. QED
      BY <1>7, <2>1, HeldStill
  <1>. QED
    BY <1>5, <1>6, <1>7

\* What the services do.
LEMMA ServicesKeep == ASSUME IInv, SessionInv, NEW c \in calls, Process(c) PROVE SessionInv'
  <1>0. /\ TypeOK /\ c \in Call /\ CallSound(c) /\ AdminCall(c) /\ AppsApart
        /\ Undisturbed => EndsSession(c) /\ \A n \in DOMAIN sessions : BothTokens(n)
        /\ \A n \in DOMAIN sessions : sessions[n] \in Issued
        /\ faults \in Nat
        /\ UNCHANGED <<page, stored, crossed, interrupted>> /\ c.at \notin Final
    BY Lengths DEF IInv, TypeOK, SessionInv, AppsApart, Process, Serve, ServeFails, Authenticate,
                   Revoke, Grant, GrantMfa, Enrol, Final
  <1>1. ASSUME UNCHANGED sessions,
               NEW at, Becomes(c, at), c.tab \in Admin /\ c.what = "login" => at \notin {"ok", "challenge"},
               Undisturbed' => /\ Undisturbed
                               /\ c.what = "logout" /\ at \in Final => Access(c.session)' # "good"
        PROVE  SessionInv'
    <2>1. /\ AppsApart' /\ \A n : Held(n) => Held(n)'
          /\ Undisturbed' => \A d \in calls' : EndsSession(d)'
      BY <1>0, <1>1, TurnsSame, Advances
    <2>2. ASSUME Undisturbed', NEW n \in DOMAIN sessions PROVE BothTokens(n)'
      BY <1>0, <1>1, <2>1, <2>2 DEF BothTokens, Access
    <2>. QED
      BY <1>1, <2>1, <2>2 DEF SessionInv
  <1>2. CASE Serve(c)
    BY <1>0, <1>1, <1>2 DEF Serve, Undisturbed
  <1>3. CASE ServeFails(c)
    BY <1>0, <1>1, <1>3 DEF ServeFails, Fault, Undisturbed
  <1>4. CASE Authenticate(c)
    <2>1. Authenticated(c) \in Final => Access(c.session)' # "good"
      BY <1>4 DEF Authenticate, Authenticated, Final, Access
    <2>. QED
      BY <1>0, <1>1, <1>4, <2>1 DEF Authenticate, Undisturbed
  <1>5. CASE Revoke(c)
    <2>1. ASSUME sessions' = Revoked(sessions, c.session, c.refresh), Becomes(c, "ok"), UNCHANGED faults
          PROVE  SessionInv'
      <3>1. /\ Turns /\ DOMAIN sessions' = DOMAIN sessions /\ c.session \in DOMAIN sessions
            /\ \A m \in DOMAIN sessions :
                 /\ Access(m)' = IF m = c.session /\ Access(m) = "good" THEN "revoked" ELSE Access(m)
                 /\ sessions'[m].refresh = (sessions[m].refresh /\ m # c.refresh)
                 /\ sessions'[m].app = sessions[m].app
        BY <1>0, <1>5, <2>1, TurnsRevoked DEF Revoke, CallSound, Open, Turns
      <3>2. /\ AppsApart' /\ \A n : Held(n) => Held(n)'
            /\ Undisturbed => \A d \in calls' : EndsSession(d)'
        BY <1>0, <1>5, <2>1, <3>1, Advances DEF Revoke
      <3>3. ASSUME Undisturbed, NEW n \in DOMAIN sessions PROVE BothTokens(n)'
        <4>1. /\ c.tab \in Tab /\ c.refresh = IF c.tab \in Shop THEN c.session ELSE 0
              /\ c.tab \notin Shop => OfAdmin(c.session)
              /\ BothTokens(n) /\ n # 0
          BY <1>0, <1>5, <3>3, Lengths DEF Revoke, EndsSession, Call, AdminCall, Tab
        <4>2. sessions[n].app = "shop" /\ n = c.session => c.refresh = n
          BY <4>1 DEF OfAdmin
        <4>3. n # c.session => n # c.refresh
          BY <4>1
        <4>. QED
          BY <3>1, <3>2, <3>3, <4>1, <4>2, <4>3 DEF BothTokens
      <3>. QED
        BY <1>0, <2>1, <3>1, <3>2, <3>3 DEF SessionInv, Undisturbed
    <2>2. ASSUME Fault, Becomes(c, "failed"), sessions' \in {sessions, Revoked(sessions, c.session, 0)}
          PROVE  SessionInv'
      <3>1. Turns
        BY <1>0, <2>2, TurnsSame, TurnsRevoked
      <3>2. AppsApart'
        BY <1>0, <1>5, <2>2, <3>1, Advances DEF Revoke
      <3>3. ~Undisturbed'
        BY <1>0, <2>2 DEF Fault, Undisturbed
      <3>. QED
        BY <3>2, <3>3 DEF SessionInv
    <2>. QED
      BY <1>5, <2>1, <2>2 DEF Revoke
  <1>6. CASE GrantMfa(c)
    <2>1. CASE Becomes(c, "refused") /\ UNCHANGED sessions
      BY <1>0, <1>1, <1>6, <2>1 DEF GrantMfa, Undisturbed
    <2>2. CASE Access(c.session) = "challenge" /\ Becomes(c, "ok")
               /\ sessions' = [sessions EXCEPT ![c.session].access = "good", ![c.session].refresh = TRUE]
      <3>1. c.session \in DOMAIN sessions
        BY <1>0, <1>6 DEF GrantMfa, CallSound
      <3>2. PICK s : s = [sessions[c.session] EXCEPT !.access = "good", !.refresh = TRUE]
        OBVIOUS
      <3>3. s.app = sessions[c.session].app /\ s.access = "good" /\ s.refresh
            /\ sessions' = [sessions EXCEPT ![c.session] = s]
        BY <1>0, <2>2, <3>1, <3>2 DEF Issued
      <3>4. /\ Turns /\ DOMAIN sessions' = DOMAIN sessions /\ sessions'[c.session] = s
            /\ \A n \in DOMAIN sessions : n # c.session => sessions'[n] = sessions[n]
        BY <1>0, <2>2, <3>1, <3>3, TurnsOne DEF Over
      <3>5. /\ AppsApart' /\ \A n : Held(n) => Held(n)'
            /\ Undisturbed => \A d \in calls' : EndsSession(d)'
        BY <1>0, <1>6, <2>2, <3>4, Advances DEF GrantMfa
      <3>6. ASSUME c.tab # NoTab PROVE Held(c.session)'
        <4>1. PICK e : e = [c EXCEPT !.at = "ok"]
          OBVIOUS
        <4>2. Brings(e, c.session) /\ (e.tab # NoTab => e \in calls')
          BY <1>0, <1>6, <2>2, <4>1 DEF GrantMfa, Brings, Call, Becomes
        <4>3. e.tab = c.tab
          BY <1>0, <4>1 DEF Call
        <4>. QED
          BY <3>6, <4>2, <4>3 DEF Held, Brings
      <3>7. ASSUME Undisturbed, NEW n \in DOMAIN sessions PROVE BothTokens(n)'
        BY <1>0, <3>3, <3>4, <3>5, <3>6, <3>7 DEF BothTokens, Access, EndsSession
      <3>. QED
        BY <1>0, <1>6, <3>4, <3>5, <3>7 DEF SessionInv, Undisturbed, GrantMfa
    <2>. QED
      BY <1>6, <2>1, <2>2 DEF GrantMfa
  <1>7. CASE Grant(c)
    <2>1. CASE Becomes(c, "refused") /\ UNCHANGED sessions
      BY <1>0, <1>1, <1>7, <2>1 DEF Grant, Undisturbed
    <2>2. CASE ~(Becomes(c, "refused") /\ UNCHANGED sessions)
      <3>1. PICK s : s = IF c.user \in WithMfa
             THEN [user |-> c.user, app |-> "shop", refresh |-> FALSE, access |-> "challenge"]
             ELSE [user |-> c.user, app |-> "shop", refresh |-> TRUE, access |-> "good"]
        OBVIOUS
      <3>2. /\ s \in Issued /\ s.app = "shop"
            /\ \/ c.user \in WithMfa /\ s.access = "challenge" /\ s.refresh = FALSE
               \/ c.user \notin WithMfa /\ s.access = "good" /\ s.refresh = TRUE
        BY <1>0, <3>1 DEF Issued, Call
      <3>3. PICK n : n = Len(sessions) + 1
        OBVIOUS
      <3>4. PICK e : e = [c EXCEPT !.session = n,
                                   !.at = IF c.user \in WithMfa THEN "challenge" ELSE "ok"]
        OBVIOUS
      <3>5. /\ e.tab = c.tab /\ e.what = "login" /\ e.session = n
            /\ c.user \notin WithMfa => e.at = "ok"
        BY <1>0, <1>7, <3>4 DEF Grant, Call
      <3>6. /\ c.tab \notin Admin /\ Len(sessions) < MaxSessions /\ sessions' = Append(sessions, s)
            /\ calls' = (calls \ {c}) \cup {e} /\ c.at = "sent"
        BY <1>7, <2>2, <3>1, <3>3, <3>4 DEF Grant
      <3>7. /\ Turns
            /\ \A m \in DOMAIN sessions' :
                 \/ m \in DOMAIN sessions /\ sessions'[m] = sessions[m]
                 \/ m = n /\ sessions'[m] = s
        BY <1>0, <3>2, <3>3, <3>6, TurnsAppend
      <3>8. AppsApart'
        <4>1. AdminCall(e)'
          BY <3>5, <3>6 DEF AdminCall
        <4>. QED
          BY <1>0, <3>6, <3>7, <4>1, ApartStays DEF AppsApart
      <3>9. \A m : Held(m) => Held(m)'
        BY <1>0, <3>6, HeldStill DEF Brings
      <3>10. c.user \notin WithMfa => Held(n)'
        BY <3>5, <3>6 DEF Held, Brings
      <3>11. ASSUME Undisturbed, NEW d \in calls' PROVE EndsSession(d)'
        <4>1. d \in calls => EndsSession(d)'
          BY <1>0, <3>7, <3>11, EndsStill DEF SessionInv
        <4>2. EndsSession(e)'
          BY <1>0, <3>5, <3>11 DEF EndsSession
        <4>. QED
          BY <3>6, <3>11, <4>1, <4>2
      <3>12. ASSUME Undisturbed, NEW m \in DOMAIN sessions' PROVE BothTokens(m)'
        BY <1>0, <3>2, <3>7, <3>9, <3>10, <3>12 DEF BothTokens, Access
      <3>. QED
        BY <1>0, <1>7, <3>8, <3>11, <3>12 DEF SessionInv, Undisturbed, Grant
    <2>. QED
      BY <2>1, <2>2
  <1>8. CASE Enrol(c)
    BY <1>0, <1>1, <1>8 DEF Enrol, Undisturbed
  <1>. QED
    BY <1>2, <1>3, <1>4, <1>5, <1>6, <1>7, <1>8 DEF Process

\* A page that signs in or out changes whose sessions are: its own calls are crossed.
LEMMA TurnedOver ==
  ASSUME IInv, SessionInv, NEW c \in calls, c.tab \in Tab, UNCHANGED <<sessions, faults, interrupted>>,
         calls' = calls \ {c}, crossed' = crossed \cup Others(c), AppsApart',
         \A u \in Tab : u # c.tab => page'[u].token = page[u].token,
         Undisturbed =>
           \A n \in DOMAIN sessions :
             Access(n) = "good" /\ (page[c.tab].token = n \/ Brings(c, n)) => page'[c.tab].token = n
  PROVE  SessionInv'
  <1>. SUFFICES ASSUME Undisturbed'
                PROVE  /\ \A d \in calls' : EndsSession(d)'
                       /\ \A n \in DOMAIN sessions : BothTokens(n)'
    BY DEF SessionInv
  <1>1. Undisturbed /\ Others(c) = {}
    BY DEF Undisturbed
  <1>2. ASSUME NEW d \in calls' PROVE EndsSession(d)'
    <2>0. d.tab = c.tab => d.tab \in Others(c)
      BY <1>2 DEF Others
    <2>1. d \in calls /\ d.tab # c.tab /\ EndsSession(d) /\ d \in Call
      BY <1>1, <1>2, <2>0 DEF SessionInv, IInv, TypeOK
    <2>2. page'[d.tab].token = page[d.tab].token
      BY <2>1 DEF Call, EndsSession
    <2>. QED
      BY <2>1, <2>2, EndsStill, TurnsSame
  <1>3. ASSUME NEW n \in DOMAIN sessions PROVE BothTokens(n)'
    <2>1. BothTokens(n) /\ Access(n)' = Access(n)
      BY <1>1 DEF SessionInv, Access
    <2>2. Held(n) /\ Access(n) = "good" => Held(n)'
      BY <1>1 DEF Held, Brings
    <2>. QED
      BY <2>1, <2>2 DEF BothTokens
  <1>. QED
    BY <1>2, <1>3

\* What the pages do with answers.
LEMMA AnswersKeep == ASSUME IInv, SessionInv, NEW c \in calls, Handle(c) PROVE SessionInv'
  <1>. DEFINE t == c.tab
  <1>0. /\ TypeOK /\ c \in Call /\ CallSound(c) /\ AdminCall(c) /\ AppsApart /\ Fits(c)
        /\ page \in [Tab -> Page]
        /\ stored \in [{"shop", "admin"} -> [token : 0..MaxSessions, refresh : 0..MaxSessions]]
        /\ Undisturbed => EndsSession(c)
        /\ UNCHANGED <<sessions, faults, interrupted>> /\ Turns
        /\ t \in Tab /\ c.at \in Final /\ crossed \subseteq crossed'
        /\ Shop \cap Admin = {} /\ Tab = Shop \cup Admin
        /\ \A n \in DOMAIN sessions : n # 0
    BY Lengths, TurnsSame, FrontendsAssumption
       DEF IInv, TypeOK, SessionInv, AppsApart, Handle, SignedIn, SignedUp, Got, LoggedOut, Ends, Tab,
           Call
  <1>1. Undisturbed' => Undisturbed
    BY <1>0 DEF Undisturbed
  <1>2. CASE SignedIn(c)
    <2>0. calls' = calls \ {c} /\ c.what \in {"login", "mfa"}
      BY <1>2 DEF SignedIn, Ends
    <2>1. CASE c.at = "ok"
      <3>1. /\ page' = [page EXCEPT ![t].token = c.session, ![t].mfa = IF c.what = "mfa" THEN 0 ELSE @]
            /\ stored' = [stored EXCEPT !["shop"] = [token |-> c.session, refresh |-> c.session]]
            /\ crossed' = crossed \cup Others(c)
        BY <1>2, <2>1 DEF SignedIn
      <3>2. page'[t].token = c.session /\ \A u \in Tab : u # t => page'[u] = page[u]
        BY <1>0, <3>1 DEF Page
      <3>3. t \in Shop
        BY <1>0, <2>0, <2>1 DEF AdminCall
      <3>4. /\ stored'["shop"].token = stored'["shop"].refresh
            /\ stored'["admin"] = stored["admin"]
        BY <1>0, <3>1
      <3>5. AppsApart'
        BY <1>0, <2>0, <3>2, <3>3, <3>4, ApartStays DEF AppsApart
      <3>6. Undisturbed => page[t].token = 0
        BY <1>0, <2>0 DEF Undisturbed, Fits
      <3>. QED
        BY <1>0, <2>0, <3>1, <3>2, <3>5, <3>6, TurnedOver DEF Brings
    <2>2. CASE c.at # "ok"
      <3>1. /\ UNCHANGED <<stored, crossed>>
            /\ page' = page \/ (c.at = "challenge" /\ page' = [page EXCEPT ![t].mfa = c.session])
        BY <1>2, <2>2 DEF SignedIn
      <3>2. /\ \A u \in Tab : page'[u].token = page[u].token
            /\ \A u \in Admin : page'[u] = page[u]
        BY <1>0, <2>0, <3>1 DEF Page, AdminCall
      <3>3. AppsApart'
        BY <1>0, <2>0, <3>1, <3>2, ApartStays DEF AppsApart
      <3>. QED
        BY <1>0, <1>1, <2>0, <2>2, <3>2, <3>3, Calm DEF Brings
    <2>. QED
      BY <2>1, <2>2
  <1>3. CASE SignedUp(c)
    <2>1. UNCHANGED <<page, stored>> /\ c.what = "register"
      BY <1>3 DEF SignedUp
    <2>2. ASSUME NEW d \in calls', d \notin calls PROVE AdminCall(d)' /\ EndsSession(d)'
      <3>1. d = NewCall(c.id, t, "login", 0, 0, c.user)
        BY <1>3, <2>2 DEF SignedUp
      <3>2. d.tab = t /\ d.what = "login" /\ d.at = "sent"
        BY <3>1 DEF NewCall
      <3>. QED
        BY <1>0, <3>2, FrontendsAssumption DEF AdminCall, EndsSession
    <2>3. AppsApart'
      BY <1>0, <2>1, <2>2, ApartStays DEF AppsApart
    <2>4. calls \ {c} \subseteq calls'
      BY <1>3 DEF SignedUp
    <2>. QED
      BY <1>0, <1>1, <2>1, <2>2, <2>3, <2>4, Calm DEF Brings
  <1>4. CASE Got(c)
    <2>0. stored' = stored /\ c.what \in {"buy", "orders", "export"} /\ calls \ {c} \subseteq calls'
      BY <1>4 DEF Got
    <2>1. \A u \in Tab : page'[u].token = page[u].token /\ page'[u].mfa = page[u].mfa
      BY <1>0, <1>4 DEF Got, Page
    <2>2. ASSUME NEW d \in calls', d \notin calls
          PROVE  AdminCall(d)' /\ (Undisturbed' => EndsSession(d)')
      <3>1. /\ SignsOut(c) /\ d = Logout(c.id, t, c.session)
            /\ crossed' = crossed \cup Mixed(t, c.session)
        BY <1>4, <2>2 DEF Got
      <3>2. /\ d.tab = t /\ d.what = "logout" /\ d.session = c.session /\ d.at = "sent"
            /\ d.refresh = stored[App(t)].refresh
        BY <3>1 DEF Logout, NewCall
      <3>3. AdminCall(d)'
        BY <1>0, <2>0, <3>2 DEF AdminCall, OfAdmin
      <3>4. ASSUME Undisturbed' PROVE EndsSession(d)'
        <4>1. stored[App(t)].token = c.session
          BY <3>1, <3>4 DEF Mixed, Undisturbed
        <4>2. c.session = page[t].token
          BY <1>0, <1>1, <3>1, <3>4 DEF Fits, SignsOut, Undisturbed
        <4>3. d.refresh = IF t \in Shop THEN c.session ELSE 0
          BY <1>0, <3>2, <4>1 DEF AppsApart, App
        <4>. QED
          BY <1>0, <2>1, <3>2, <4>2, <4>3, FrontendsAssumption DEF EndsSession, Final
      <3>. QED
        BY <3>3, <3>4
    <2>3. AppsApart'
      BY <1>0, <2>0, <2>1, <2>2, ApartStays DEF AppsApart
    <2>. QED
      BY <1>0, <1>1, <2>0, <2>1, <2>2, <2>3, Calm DEF Brings
  <1>5. CASE LoggedOut(c)
    <2>0. /\ calls' = calls \ {c} /\ crossed' = crossed \cup Others(c) /\ c.what = "logout"
          /\ page' = [page EXCEPT ![t].token = 0, ![t].shows = 0]
          /\ stored' = [stored EXCEPT ![App(t)] = Empty]
      BY <1>5 DEF LoggedOut, Ends
    <2>1. /\ page'[t].token = 0 /\ page'[t].mfa = page[t].mfa
          /\ \A u \in Tab : u # t => page'[u] = page[u]
      BY <1>0, <2>0 DEF Page
    <2>2. /\ stored'["shop"].token = stored'["shop"].refresh /\ stored'["admin"].refresh = 0
          /\ stored'["admin"].token \in {0, stored["admin"].token}
      BY <1>0, <2>0 DEF AppsApart, App, Empty
    <2>3. \A u \in Admin : page'[u].mfa = 0 /\ page'[u].token \in {0, page[u].token}
      BY <1>0, <2>1 DEF AppsApart
    <2>4. AppsApart'
      BY <1>0, <2>0, <2>2, <2>3, ApartStays
    <2>5. Undisturbed => page[t].token = c.session /\ Access(c.session) # "good"
      BY <1>0, <2>0 DEF EndsSession
    <2>. QED
      BY <1>0, <2>0, <2>1, <2>4, <2>5, TurnedOver DEF Brings
  <1>. QED
    BY <1>2, <1>3, <1>4, <1>5 DEF Handle

\* A call that fails disturbs.
LEMMA LosesKeep == ASSUME IInv, SessionInv, NEW c \in calls, Lose(c) PROVE SessionInv'
  <1>0. /\ UNCHANGED <<sessions, page, stored>> /\ Turns
        /\ AppsApart /\ AdminCall(c) /\ c \in Call
        /\ faults \in Nat /\ NoTab \notin Admin
    BY TurnsSame, FrontendsAssumption DEF Lose, SessionInv, AppsApart, IInv, TypeOK, Tab
  <1>1. ~Undisturbed'
    BY <1>0 DEF Lose, Fault, Undisturbed
  <1>2. ASSUME NEW d \in calls', d \notin calls PROVE AdminCall(d)'
    <2>1. d = [c EXCEPT !.at = "failed"] \/ d = [c EXCEPT !.tab = NoTab]
      BY <1>2 DEF Lose
    <2>2. CASE d = [c EXCEPT !.at = "failed"]
      <3>1. d.tab = c.tab /\ d.what = c.what /\ d.session = c.session /\ d.at = "failed"
        BY <1>0, <2>2 DEF Call
      <3>. QED
        BY <1>0, <3>1 DEF AdminCall, OfAdmin
    <2>3. CASE d = [c EXCEPT !.tab = NoTab]
      <3>1. d.tab = NoTab
        BY <1>0, <2>3 DEF Call
      <3>. QED
        BY <1>0, <3>1 DEF AdminCall
    <2>. QED
      BY <2>1, <2>2, <2>3
  <1>3. AppsApart'
    BY <1>0, <1>2, ApartStays DEF AppsApart
  <1>. QED
    BY <1>1, <1>3 DEF SessionInv

\* The clock.
LEMMA ExpiryKeeps == ASSUME IInv, SessionInv, NEW n \in Session, Expire(n) PROVE SessionInv'
  <1>0. /\ UNCHANGED <<page, stored, calls, faults, crossed, interrupted>> /\ AppsApart
        /\ n \in DOMAIN sessions /\ sessions[n] \in Issued /\ TypeOK
    BY Lengths DEF Expire, SessionInv, IInv
  <1>1. PICK s : s = [sessions[n] EXCEPT !.access = "expired"]
    OBVIOUS
  <1>2. /\ sessions' = [sessions EXCEPT ![n] = s] /\ s.app = sessions[n].app
        /\ s.access = "expired" /\ s.refresh = sessions[n].refresh
    BY <1>0, <1>1 DEF Expire, Issued
  <1>3. /\ Turns /\ DOMAIN sessions' = DOMAIN sessions /\ sessions'[n] = s
        /\ \A m \in DOMAIN sessions : m # n => sessions'[m] = sessions[m]
    BY <1>0, <1>2, TurnsOne DEF Over
  <1>4. AppsApart'
    BY <1>0, <1>3, ApartStays DEF AppsApart
  <1>5. ASSUME Undisturbed, NEW c \in calls PROVE EndsSession(c)'
    BY <1>0, <1>3, <1>5, EndsStill DEF SessionInv
  <1>6. ASSUME Undisturbed, NEW m \in DOMAIN sessions PROVE BothTokens(m)'
    <2>1. BothTokens(m) /\ Held(m)' = Held(m)
      BY <1>0, <1>6 DEF SessionInv, Held, Brings
    <2>. QED
      BY <1>2, <1>3, <2>1 DEF BothTokens, Access
  <1>. QED
    BY <1>0, <1>3, <1>4, <1>5, <1>6 DEF SessionInv, Undisturbed

\* Every step keeps what is known of how sessions end.
LEMMA SessionStep == IInv /\ SessionInv /\ [Next]_vars => SessionInv'
  <1>. SUFFICES ASSUME IInv, SessionInv, [Next]_vars PROVE SessionInv'
    OBVIOUS
  <1>1. CASE UNCHANGED vars
    BY <1>1 DEF vars, SessionInv, AppsApart, AdminCall, OfAdmin, Undisturbed, EndsSession, BothTokens,
                Held, Brings, Access
  <1>. QED
    BY <1>1, ClicksKeep, ReloadKeeps, ServicesKeep, AnswersKeep, LosesKeep, ExpiryKeeps DEF Next

\* It is so at the start.
LEMMA SessionInit == Init => SessionInv
  <1>. SUFFICES ASSUME Init PROVE SessionInv
    OBVIOUS
  <1>1. CASE sessions = <<>> /\ calls = {} /\ page = [t \in Tab |-> Blank]
             /\ stored = [a \in {"shop", "admin"} |-> Empty]
    BY <1>1 DEF SessionInv, AppsApart, Blank, Empty, Tab
  <1>2. ASSUME NEW u \in User, sessions = <<Older(u)>>,
               calls = {NewCall(0, t, "orders", 1, 0, u) : t \in Admin},
               page = [t \in Tab |-> IF t \in Admin THEN [Blank EXCEPT !.token = 1] ELSE Blank],
               stored = [a \in {"shop", "admin"} |->
                           IF a = "admin" THEN [Empty EXCEPT !.token = 1] ELSE Empty]
        PROVE  SessionInv
    <2>1. DOMAIN sessions = {1} /\ sessions[1].app = "admin"
      BY <1>2 DEF Older
    <2>2. ASSUME NEW c \in calls
          PROVE  c.tab \in Admin /\ c.what = "orders" /\ c.session = 1
      BY <1>2, <2>2 DEF NewCall
    <2>3. /\ stored["shop"] = Empty /\ stored["admin"].token = 1 /\ stored["admin"].refresh = 0
          /\ \A t \in Admin : page[t].mfa = 0 /\ page[t].token = 1
      BY <1>2 DEF Empty, Blank, Tab
    <2>4. AppsApart
      BY <2>1, <2>2, <2>3 DEF AppsApart, AdminCall, OfAdmin, Empty
    <2>5. (\A c \in calls : EndsSession(c)) /\ \A n \in DOMAIN sessions : BothTokens(n)
      BY <2>1, <2>2, FrontendsAssumption DEF EndsSession, BothTokens, Tab
    <2>. QED
      BY <2>4, <2>5 DEF SessionInv
  <1>. QED
    BY <1>1, <1>2 DEF Init

\* A session of the storefront that nobody holds is over, both of its tokens, unless
\* a call failed, calls crossed, a tab was reloaded under one, or its access token
\* had expired (handleLogout, authenticateToken, /oauth/revoke).
THEOREM SessionsAreEnded == Spec => []SessionsEnd
  <1>1. ASSUME IInv, SessionInv PROVE SessionsEnd
    <2>1. ASSUME Undisturbed, NEW n \in DOMAIN sessions, sessions[n].app = "shop"
          PROVE  /\ ~Known(n) => Access(n) # "good" /\ (Access(n) # "expired" => ~sessions[n].refresh)
                 /\ Access(n) = "good" => sessions[n].refresh
      <3>1. BothTokens(n) /\ sessions[n] \in Issued
        BY <1>1, <2>1, Lengths DEF SessionInv, IInv
      <3>2. Held(n) => Known(n)
        BY DEF Held, Known, Brings
      <3>. QED
        BY <2>1, <3>1, <3>2 DEF BothTokens, Access, Issued
    <2>2. faults \in Nat
      BY <1>1 DEF IInv, TypeOK
    <2>. QED
      BY <2>1, <2>2 DEF SessionsEnd, Undisturbed
  <1>. QED
    BY <1>1, SessionInit, SessionStep, Invariance, PTL DEF Spec
=============================================================================

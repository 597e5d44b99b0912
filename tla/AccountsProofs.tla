--------------------------- MODULE AccountsProofs ---------------------------
(***************************************************************************)
(* Logouts, expiries, accounts and tokens, for any number of accounts and  *)
(* requests and any time and number of random values.                      *)
(***************************************************************************)
EXTENDS Accounts, TLAPS

\* What a request holds of a session: its expiry, as read or about to be stored,
\* is no later than the session's last use allows.
SessionAtHand(d) ==
    /\ "step" \in DOMAIN d
    /\ d.step = "judge" =>
           /\ d.session \in DOMAIN used
           /\ d.expires \in Nat /\ d.expires <= used[d.session] + Inactivity
    /\ d.step = "slide" =>
           /\ d.session \in DOMAIN used
           /\ d.until \in Nat /\ d.until <= used[d.session] + Inactivity

\* The sessions in the table were issued, not logged out, and expire no later
\* than their last use allows.
SessionsInv ==
    /\ clock \in Nat /\ minted \in Nat
    /\ DOMAIN used \subseteq 1..minted
    /\ DOMAIN sessions \subseteq DOMAIN used
    /\ loggedOut \subseteq DOMAIN used
    /\ \A s \in DOMAIN used : used[s] \in 0..clock
    /\ \A s \in DOMAIN sessions :
           sessions[s].expires \in Nat /\ sessions[s].expires <= used[s] + Inactivity
    /\ LogoutIsFinal
    /\ DOMAIN doing = Handlers
    /\ \A h \in Handlers : SessionAtHand(doing[h])

LEMMA InactivityIsNat == Inactivity \in Nat \ {0} /\ MaxMinted \in Nat /\ MaxClock \in Nat
  BY AccountsAssumption DEF AccountsAssumption

\* Steps that leave the sessions alone and the handlers but one.
LEMMA SessionsAside ==
  ASSUME SessionsInv, NEW h \in Handlers, NEW d, doing' = [doing EXCEPT ![h] = d],
         UNCHANGED <<sessions, clock, used, loggedOut>>,
         minted' \in Nat, minted <= minted',
         SessionAtHand(d)
  PROVE  SessionsInv'
<1>1. \A g \in Handlers : doing'[g] = IF g = h THEN d ELSE doing[g]
  BY DEF SessionsInv
<1>2. DOMAIN used' \subseteq 1..minted'
  BY DEF SessionsInv
<1>3. \A g \in Handlers : SessionAtHand(doing[g])'
  BY <1>1 DEF SessionsInv, SessionAtHand
<1> QED
  BY <1>1, <1>2, <1>3 DEF SessionsInv, LogoutIsFinal

LEMMA JudgeKeeps ==
  ASSUME SessionsInv, NEW h \in Handlers, Judge(h)
  PROVE  SessionsInv'
<1> DEFINE s == doing[h].session
<1>1. CASE doing[h].expires <= clock /\ Goto(h, [step |-> "drop", session |-> s]) /\ UNCHANGED used
  <2> DEFINE d == [step |-> "drop", session |-> s]
  <2>1. SessionAtHand(d)
    BY DEF SessionAtHand
  <2>2. doing' = [doing EXCEPT ![h] = d]
    BY <1>1 DEF Goto
  <2>3. UNCHANGED <<sessions, clock, used, loggedOut>> /\ minted' \in Nat /\ minted <= minted'
    BY <1>1 DEF Judge, tables, SessionsInv
  <2> HIDE DEF d
  <2> QED
    BY <2>1, <2>2, <2>3, SessionsAside
<1>2. CASE /\ doing[h].expires > clock
           /\ Goto(h, [step |-> "slide", session |-> s, until |-> clock + Inactivity])
           /\ used' = [used EXCEPT ![s] = clock]
  <2>1. s \in DOMAIN used
    BY DEF Judge, At, SessionsInv, SessionAtHand
  <2>2. /\ DOMAIN used' = DOMAIN used
        /\ \A r \in DOMAIN used : used'[r] \in 0..clock /\ used[r] \in Nat /\ used[r] <= used'[r]
    BY <1>2, <2>1 DEF SessionsInv
  <2>3. \A g \in Handlers \ {h} : SessionAtHand(doing[g])'
    BY <1>2, <2>2, InactivityIsNat DEF Goto, SessionsInv, SessionAtHand
  <2>4. SessionAtHand(doing[h])'
    BY <1>2, <2>1, InactivityIsNat DEF Goto, SessionsInv, SessionAtHand
  <2>5. \A r \in DOMAIN sessions : sessions[r].expires <= used'[r] + Inactivity
    BY <2>2, InactivityIsNat DEF SessionsInv
  <2>6. UNCHANGED <<sessions, clock, minted, loggedOut>> /\ DOMAIN doing' = Handlers
    BY <1>2 DEF Judge, Goto, tables, SessionsInv
  <2>7. \A g \in Handlers : SessionAtHand(doing[g])'
    BY <2>3, <2>4
  <2> QED
    BY <2>2, <2>5, <2>6, <2>7 DEF SessionsInv, LogoutIsFinal
<1> QED
  BY <1>1, <1>2 DEF Judge

LEMMA StartKeeps ==
  ASSUME SessionsInv, NEW h \in Handlers, Start(h)
  PROVE  SessionsInv'
<1> DEFINE m == minted + 1
<1>1. m \in Nat /\ m \notin DOMAIN used /\ m \notin DOMAIN sessions /\ m \notin loggedOut
  BY DEF SessionsInv
<1>2. /\ DOMAIN used' = DOMAIN used \cup {m} /\ used'[m] = clock
      /\ \A r \in DOMAIN used : used'[r] = used[r]
      /\ DOMAIN sessions' = DOMAIN sessions \cup {m}
      /\ sessions'[m].expires = clock + Inactivity
      /\ \A r \in DOMAIN sessions : sessions'[r] = sessions[r]
      /\ minted' = m /\ UNCHANGED <<clock, loggedOut>>
  BY <1>1 DEF Start, With
<1>3. \A g \in Handlers : doing'[g] = IF g = h THEN Idle ELSE doing[g]
  BY DEF Start, Goto, SessionsInv
<1>4. DOMAIN used' \subseteq 1..minted'
  BY <1>1, <1>2 DEF SessionsInv
<1>5. \A g \in Handlers : SessionAtHand(doing[g])'
  BY <1>2, <1>3 DEF SessionsInv, SessionAtHand, Idle
<1>6. \A r \in DOMAIN sessions' :
          sessions'[r].expires \in Nat /\ sessions'[r].expires <= used'[r] + Inactivity
  BY <1>1, <1>2, InactivityIsNat DEF SessionsInv
<1>7. \A r \in DOMAIN used' : used'[r] \in 0..clock
  BY <1>1, <1>2 DEF SessionsInv
<1>8. DOMAIN doing' = Handlers
  BY DEF Start, Goto, SessionsInv
<1> QED
  BY <1>1, <1>2, <1>4, <1>5, <1>6, <1>7, <1>8 DEF SessionsInv, LogoutIsFinal

LEMMA SessionsInductive == SessionsInv /\ [Next]_vars => SessionsInv'
<1> SUFFICES ASSUME SessionsInv, [Next]_vars PROVE SessionsInv'
  OBVIOUS
<1> USE InactivityIsNat
<1>1. ASSUME NEW h \in Handlers, NEW s \in Minted, Query(h, s) PROVE SessionsInv'
  <2> DEFINE d == [step |-> "judge", session |-> s, expires |-> sessions[s].expires]
  <2>1. SessionAtHand(d)
    BY <1>1 DEF Query, SessionsInv, SessionAtHand
  <2>2. doing' = [doing EXCEPT ![h] = d]
    BY <1>1 DEF Query, Goto
  <2>3. UNCHANGED <<sessions, clock, used, loggedOut>> /\ minted' \in Nat /\ minted <= minted'
    BY <1>1 DEF Query, tables, history, SessionsInv
  <2> HIDE DEF d
  <2> QED
    BY <2>1, <2>2, <2>3, SessionsAside
<1>2. ASSUME NEW h \in Handlers, NEW e \in Emails, Find(h, e) \/ Count(h, e) PROVE SessionsInv'
  <2>1. PICK d : /\ doing' = [doing EXCEPT ![h] = d]
                 /\ "step" \in DOMAIN d /\ d.step \in {"start", "mint", "insert"}
                 /\ minted' \in {minted, minted + 1}
    <3> DEFINE Found(d) == /\ doing' = [doing EXCEPT ![h] = d]
                           /\ minted' \in {minted, minted + 1}
               start == [step |-> "start", email |-> e, user |-> users[e].id,
                         token |-> users[e].token]
               mint == [step |-> "mint", email |-> e, user |-> users[e].id,
                        token |-> minted + 1]
               insert == [step |-> "insert", email |-> e, user |-> minted + 1,
                          token |-> minted + 1]
    <3>1. Found(start) \/ Found(mint) \/ Found(insert)
      BY <1>2 DEF Find, Count, Goto
    <3>2. \A d \in {start, mint, insert} :
              "step" \in DOMAIN d /\ d.step \in {"start", "mint", "insert"}
      OBVIOUS
    <3> HIDE DEF start, mint, insert
    <3> QED
      BY <3>1, <3>2
  <2>2. SessionAtHand(d)
    BY <2>1 DEF SessionAtHand
  <2>3. UNCHANGED <<sessions, clock, used, loggedOut>> /\ minted' \in Nat /\ minted <= minted'
    BY <1>2, <2>1 DEF Find, Count, tables, history, SessionsInv
  <2> QED
    BY <2>1, <2>2, <2>3, SessionsAside
<1>3. ASSUME NEW h \in Handlers, Drop(h) PROVE SessionsInv'
  BY <1>3 DEF Drop, Goto, Without, Idle, SessionsInv, SessionAtHand, LogoutIsFinal, history
<1>4. ASSUME NEW h \in Handlers, Slide(h) PROVE SessionsInv'
  <2>1. /\ DOMAIN sessions' = DOMAIN sessions
        /\ \A s \in DOMAIN sessions :
               sessions'[s].expires = IF s = doing[h].session THEN doing[h].until
                                                              ELSE sessions[s].expires
    <3>1. \A s \in DOMAIN sessions :
              sessions'[s] = IF s = doing[h].session
                             THEN [sessions[s] EXCEPT !.expires = doing[h].until]
                             ELSE sessions[s]
      BY <1>4 DEF Slide
    <3> QED
      BY <1>4, <3>1 DEF Slide, SessionsInv
  <2>2. doing[h].session \in DOMAIN used /\ doing[h].until \in Nat
        /\ doing[h].until <= used[doing[h].session] + Inactivity
    BY <1>4 DEF Slide, At, SessionsInv, SessionAtHand
  <2>3. UNCHANGED <<clock, minted, used, loggedOut>>
    BY <1>4 DEF Slide, history
  <2>4. \A g \in Handlers : doing'[g] = IF g = h THEN Idle ELSE doing[g]
    BY <1>4 DEF Slide, Goto, SessionsInv
  <2>5. DOMAIN doing' = Handlers /\ \A g \in Handlers : SessionAtHand(doing[g])'
    BY <1>4, <2>3, <2>4 DEF Slide, Goto, SessionsInv, SessionAtHand, Idle
  <2> QED
    BY <2>1, <2>2, <2>3, <2>5 DEF SessionsInv, LogoutIsFinal
<1>5. ASSUME NEW h \in Handlers, Mint(h) \/ Insert(h) PROVE SessionsInv'
  <2>1. PICK d : /\ doing' = [doing EXCEPT ![h] = d]
                 /\ d = Idle \/ d = [doing[h] EXCEPT !.step = "start"]
    BY <1>5 DEF Mint, Insert, Goto
  <2>2. "step" \in DOMAIN d /\ d.step \notin {"judge", "slide"}
    <3>1. "step" \in DOMAIN doing[h]
      BY DEF SessionsInv, SessionAtHand
    <3>2. CASE d = Idle
      BY <3>2 DEF Idle
    <3>3. CASE d = [doing[h] EXCEPT !.step = "start"]
      BY <3>1, <3>3
    <3> QED
      BY <2>1, <3>2, <3>3
  <2>3. UNCHANGED <<sessions, clock, used, loggedOut>> /\ minted' \in Nat /\ minted <= minted'
    BY <1>5 DEF Mint, Insert, history, SessionsInv
  <2>4. SessionAtHand(d)
    BY <2>2 DEF SessionAtHand
  <2> QED
    BY <2>1, <2>3, <2>4, SessionsAside
<1>6. ASSUME NEW h \in Handlers, Fail(h) PROVE SessionsInv'
  <2>1. SessionAtHand(Idle)
    BY DEF SessionAtHand, Idle
  <2>2. doing' = [doing EXCEPT ![h] = Idle]
    BY <1>6 DEF Fail, Goto
  <2>3. UNCHANGED <<sessions, clock, used, loggedOut>> /\ minted' \in Nat /\ minted <= minted'
    BY <1>6 DEF Fail, tables, history, SessionsInv
  <2> QED
    BY <2>1, <2>2, <2>3, SessionsAside
<1>7. ASSUME NEW s \in Minted, Logout(s) PROVE SessionsInv'
  BY <1>7 DEF Logout, Without, SessionsInv, SessionAtHand, LogoutIsFinal
<1>8. CASE PurgeNow
  BY <1>8 DEF PurgeNow, SessionsInv, SessionAtHand, LogoutIsFinal, tables, history
<1>9. CASE PurgeExpired
  BY <1>9 DEF PurgeExpired, Without, SessionsInv, SessionAtHand, LogoutIsFinal, history
<1>10. CASE Tick
  BY <1>10 DEF Tick, SessionsInv, SessionAtHand, LogoutIsFinal, tables, history
<1>11. CASE UNCHANGED vars
  BY <1>11 DEF vars, SessionsInv, SessionAtHand, LogoutIsFinal
<1> QED
  BY <1>1, <1>2, <1>3, <1>4, <1>5, <1>6, <1>7, <1>8, <1>9, <1>10, <1>11, JudgeKeeps, StartKeeps
  DEF Next

\* No order of the statements of requests, logouts and the purge brings a session
\* back that was logged out (fCurrentUserId's UPDATE, fDestroy).
THEOREM LogoutsAreFinal == Spec => []LogoutIsFinal
<1>1. Init => SessionsInv
  BY DEF Init, SessionsInv, SessionAtHand, LogoutIsFinal, Idle
<1>2. SessionsInv => LogoutIsFinal
  BY DEF SessionsInv
<1> QED
  BY <1>1, <1>2, SessionsInductive, PTL DEF Spec

\* A request is accepted only by a session used less than cInactivityDays before,
\* in whatever order concurrent requests stored its expiry.
THEOREM IdleSessionsAreRefused == Spec => IdleSessionsRefused
<1>1. Init => SessionsInv
  BY DEF Init, SessionsInv, SessionAtHand, LogoutIsFinal, Idle
<1>2. SessionsInv /\ [Next]_vars =>
          [\A h \in Handlers : doing'[h].step = "slide" /\ doing[h].step = "judge" =>
               clock < used[doing[h].session] + Inactivity]_vars
  <2> SUFFICES ASSUME SessionsInv, Next, NEW h \in Handlers,
                      doing'[h].step = "slide", doing[h].step = "judge"
               PROVE  clock < used[doing[h].session] + Inactivity
    BY DEF vars
  <2>1. ASSUME NEW g \in Handlers, doing' = [doing EXCEPT ![g] = Idle] PROVE FALSE
    BY <2>1 DEF Idle, SessionsInv
  <2>2. ASSUME NEW g \in Handlers, doing[g].step # "judge", NEW d,
               doing' = [doing EXCEPT ![g] = d]
        PROVE  FALSE
    BY <2>2 DEF SessionsInv
  <2>3. ASSUME doing' = doing PROVE FALSE
    BY <2>3
  <2>4. PICK g \in Handlers : Judge(g)
    BY <2>1, <2>2, <2>3
    DEF Next, Query, Find, Count, Drop, Slide, Mint, Insert, Start, Fail, Logout, PurgeNow,
        PurgeExpired, Tick, Goto, At
  <2>5. g = h
    BY <2>2, <2>4 DEF Judge, Goto, SessionsInv
  <2>6. doing[h].expires > clock
    BY <2>1, <2>4, <2>5 DEF Judge, Goto, SessionsInv
  <2>7. /\ doing[h].session \in DOMAIN used /\ doing[h].expires \in Nat
        /\ doing[h].expires <= used[doing[h].session] + Inactivity
    BY DEF SessionsInv, SessionAtHand
  <2> QED
    BY <2>6, <2>7, InactivityIsNat DEF SessionsInv
<1> QED
  BY <1>1, <1>2, SessionsInductive, PTL DEF Spec, IdleSessionsRefused
----------------------------------------------------------------------------
(* Accounts and tokens *)

\* What a login or a registration holds of an account: once it is in the table
\* it is the row that the table has.
AccountAtHand(d, table) ==
    /\ d.step \in {"mint", "insert", "start"} =>
           DOMAIN d = {"step", "email", "user", "token"} /\ d.token # NoToken
    /\ d.step = "insert" => d.email \notin Legacy
    /\ d.step = "mint" => d.email \in Legacy
    /\ d.step \in {"mint", "start"} =>
           d.email \in DOMAIN table /\ table[d.email].id = d.user
    /\ d.step = "start" =>
           /\ table[d.email].token # NoToken
           /\ d.email \notin Legacy => table[d.email].token = d.token

AccountsInv ==
    /\ minted \in Nat
    /\ Legacy \subseteq DOMAIN users
    /\ \A e \in DOMAIN users :
           /\ DOMAIN users[e] = {"id", "token"}
           /\ e \notin Legacy => users[e].token # NoToken
    /\ AccountsLast /\ TokensStay
    /\ DOMAIN doing = Handlers
    /\ \A h \in Handlers : AccountAtHand(doing[h], users)

\* Rows are only added, and only a legacy row changes: it gets a token.
Grows ==
    \A e \in DOMAIN users :
        /\ e \in DOMAIN users' /\ users'[e].id = users[e].id
        /\ users[e].token # NoToken => users'[e].token # NoToken
        /\ e \notin Legacy => users'[e].token = users[e].token

\* A step of one handler on a table that grows, with what it then holds.
LEMMA AccountsKept ==
  ASSUME AccountsInv, Grows, NEW h \in Handlers, NEW d, doing' = [doing EXCEPT ![h] = d],
         AccountAtHand(d, users'),
         minted' \in Nat,
         \A e \in DOMAIN users' :
             /\ DOMAIN users'[e] = {"id", "token"}
             /\ e \notin Legacy => users'[e].token # NoToken,
         \A a \in answered' \ answered :
             /\ a.email \in DOMAIN users' /\ users'[a.email].id = a.user
             /\ users'[a.email].token # NoToken
             /\ a.email \notin Legacy => users'[a.email].token = a.token
  PROVE  AccountsInv'
<1>1. \A g \in Handlers : doing'[g] = IF g = h THEN d ELSE doing[g]
  BY DEF AccountsInv
<1>2. \A g \in Handlers : AccountAtHand(doing'[g], users')
  <2>1. \A g \in Handlers \ {h} : AccountAtHand(doing'[g], users')
    BY <1>1 DEF AccountsInv, Grows, AccountAtHand
  <2>2. AccountAtHand(doing'[h], users')
    BY <1>1
  <2> QED
    BY <2>1, <2>2
<1>3. AccountsLast' /\ TokensStay'
  BY DEF AccountsInv, AccountsLast, TokensStay, Grows
<1>4. Legacy \subseteq DOMAIN users'
  BY DEF AccountsInv, Grows
<1>5. DOMAIN doing' = Handlers
  BY DEF AccountsInv
<1> QED
  BY <1>2, <1>3, <1>4, <1>5 DEF AccountsInv

LEMMA AccountsInductive == AccountsInv /\ [Next]_vars => AccountsInv'
<1> SUFFICES ASSUME AccountsInv, [Next]_vars PROVE AccountsInv'
  OBVIOUS
\* Steps that leave the accounts alone and hold nothing of one.
<1>0. ASSUME UNCHANGED <<users, answered>>, minted' \in Nat, NEW h \in Handlers, NEW d,
             d.step \notin {"mint", "insert", "start"}, doing' = [doing EXCEPT ![h] = d]
      PROVE  AccountsInv'
  <2>1. Grows /\ AccountAtHand(d, users')
    BY <1>0 DEF Grows, AccountAtHand
  <2>2. \A e \in DOMAIN users' :
            /\ DOMAIN users'[e] = {"id", "token"}
            /\ e \notin Legacy => users'[e].token # NoToken
    BY <1>0 DEF AccountsInv
  <2> QED
    BY <1>0, <2>1, <2>2, AccountsKept
<1>1. ASSUME NEW h \in Handlers, NEW s \in Minted, Query(h, s) PROVE AccountsInv'
  <2> DEFINE d == [step |-> "judge", session |-> s, expires |-> sessions[s].expires]
  <2>1. doing' = [doing EXCEPT ![h] = d] /\ d.step = "judge"
    BY <1>1 DEF Query, Goto
  <2>2. UNCHANGED <<users, answered>> /\ minted' \in Nat
    BY <1>1 DEF Query, tables, history, AccountsInv
  <2> HIDE DEF d
  <2> QED
    BY <1>0, <2>1, <2>2
<1>2. ASSUME NEW h \in Handlers, Judge(h) PROVE AccountsInv'
  <2> DEFINE drop == [step |-> "drop", session |-> doing[h].session]
             slide == [step |-> "slide", session |-> doing[h].session,
                       until |-> clock + Inactivity]
  <2>1. \/ doing' = [doing EXCEPT ![h] = drop]
        \/ doing' = [doing EXCEPT ![h] = slide]
    BY <1>2 DEF Judge, Goto
  <2>2. UNCHANGED <<users, answered>> /\ minted' \in Nat
    BY <1>2 DEF Judge, tables, AccountsInv
  <2>3. drop.step = "drop" /\ slide.step = "slide"
    OBVIOUS
  <2> HIDE DEF drop, slide
  <2> QED
    BY <1>0, <2>1, <2>2, <2>3
<1>3. ASSUME NEW h \in Handlers, Drop(h) \/ Slide(h) \/ Fail(h) PROVE AccountsInv'
  <2>1. doing' = [doing EXCEPT ![h] = Idle] /\ Idle.step = "idle"
    BY <1>3 DEF Drop, Slide, Fail, Goto, Idle
  <2>2. UNCHANGED <<users, answered>> /\ minted' \in Nat
    BY <1>3 DEF Drop, Slide, Fail, tables, history, AccountsInv
  <2> QED
    BY <1>0, <2>1, <2>2
<1>4. ASSUME NEW h \in Handlers, NEW e \in Emails, Find(h, e) PROVE AccountsInv'
  <2>1. e \in DOMAIN users /\ minted' \in Nat /\ UNCHANGED <<users, answered>>
    BY <1>4 DEF Find, tables, history, AccountsInv
  <2>2. /\ Grows
        /\ \A f \in DOMAIN users' :
               /\ DOMAIN users'[f] = {"id", "token"}
               /\ f \notin Legacy => users'[f].token # NoToken
    BY <2>1 DEF Grows, AccountsInv
  <2>3. CASE users[e].token # NoToken
    <3> DEFINE d == [step |-> "start", email |-> e, user |-> users[e].id,
                     token |-> users[e].token]
    <3>1. doing' = [doing EXCEPT ![h] = d]
      BY <1>4, <2>3 DEF Find, Goto
    <3>2. AccountAtHand(d, users')
      BY <2>1, <2>3 DEF AccountAtHand
    <3> HIDE DEF d
    <3> QED
      BY <2>1, <2>2, <3>1, <3>2, AccountsKept
  <2>4. CASE users[e].token = NoToken
    <3> DEFINE d == [step |-> "mint", email |-> e, user |-> users[e].id, token |-> minted + 1]
    <3>1. doing' = [doing EXCEPT ![h] = d]
      BY <1>4, <2>4 DEF Find, Goto
    <3>2. e \in Legacy /\ minted + 1 # NoToken
      BY <2>1, <2>4 DEF AccountsInv, NoToken
    <3>3. AccountAtHand(d, users')
      BY <2>1, <3>2 DEF AccountAtHand
    <3> HIDE DEF d
    <3> QED
      BY <2>1, <2>2, <3>1, <3>3, AccountsKept
  <2> QED
    BY <2>3, <2>4
<1>5. ASSUME NEW h \in Handlers, NEW e \in Emails, Count(h, e) PROVE AccountsInv'
  <2> DEFINE d == [step |-> "insert", email |-> e, user |-> minted + 1, token |-> minted + 1]
  <2>1. /\ e \notin DOMAIN users /\ minted' \in Nat /\ UNCHANGED <<users, answered>>
        /\ doing' = [doing EXCEPT ![h] = d]
    BY <1>5 DEF Count, Goto, tables, history, AccountsInv
  <2>2. /\ Grows
        /\ \A f \in DOMAIN users' :
               /\ DOMAIN users'[f] = {"id", "token"}
               /\ f \notin Legacy => users'[f].token # NoToken
    BY <2>1 DEF Grows, AccountsInv
  <2>3. e \notin Legacy /\ minted + 1 # NoToken
    BY <2>1 DEF AccountsInv, NoToken
  <2>4. AccountAtHand(d, users')
    BY <2>3 DEF AccountAtHand
  <2> HIDE DEF d
  <2> QED
    BY <2>1, <2>2, <2>4, AccountsKept
<1>6. ASSUME NEW h \in Handlers, Mint(h) PROVE AccountsInv'
  <2> DEFINE d == [doing[h] EXCEPT !.step = "start"]
             email == doing[h].email
  <2>1. /\ DOMAIN doing[h] = {"step", "email", "user", "token"} /\ doing[h].token # NoToken
        /\ email \in Legacy /\ email \in DOMAIN users /\ users[email].id = doing[h].user
    BY <1>6 DEF Mint, At, AccountsInv, AccountAtHand
  <2>2. /\ doing' = [doing EXCEPT ![h] = d] /\ minted' \in Nat /\ answered' = answered
        /\ users' = [users EXCEPT ![email].token = doing[h].token]
    BY <1>6 DEF Mint, Goto, history, AccountsInv
  <2>3. /\ DOMAIN users' = DOMAIN users
        /\ users'[email] = [users[email] EXCEPT !.token = doing[h].token]
        /\ \A e \in DOMAIN users \ {email} : users'[e] = users[e]
    BY <2>1, <2>2
  <2>4. /\ DOMAIN users'[email] = {"id", "token"}
        /\ users'[email].id = users[email].id /\ users'[email].token = doing[h].token
    BY <2>1, <2>3 DEF AccountsInv
  <2>5. Grows
    BY <2>1, <2>3, <2>4 DEF Grows
  <2>6. \A e \in DOMAIN users' :
            /\ DOMAIN users'[e] = {"id", "token"}
            /\ e \notin Legacy => users'[e].token # NoToken
    BY <2>1, <2>3, <2>4 DEF AccountsInv
  <2>7. /\ DOMAIN d = {"step", "email", "user", "token"} /\ d.step = "start"
        /\ d.email = email /\ d.user = doing[h].user /\ d.token = doing[h].token
    BY <2>1
  <2> HIDE DEF d
  <2>8. AccountAtHand(d, users')
    BY <2>1, <2>3, <2>4, <2>7 DEF AccountAtHand
  <2> QED
    BY <2>2, <2>5, <2>6, <2>8, AccountsKept
<1>7. ASSUME NEW h \in Handlers, Insert(h) PROVE AccountsInv'
  <2> DEFINE email == doing[h].email
             row == [id |-> doing[h].user, token |-> doing[h].token]
             d == [doing[h] EXCEPT !.step = "start"]
  <2>1. /\ DOMAIN doing[h] = {"step", "email", "user", "token"} /\ doing[h].token # NoToken
        /\ email \notin Legacy
    BY <1>7 DEF Insert, At, AccountsInv, AccountAtHand
  <2>2. minted' \in Nat /\ answered' = answered
    BY <1>7 DEF Insert, history, AccountsInv
  <2>3. CASE /\ email \notin DOMAIN users /\ users' = With(users, email, row)
             /\ Goto(h, d)
    <3>1. /\ DOMAIN users' = DOMAIN users \cup {email} /\ users'[email] = row
          /\ \A e \in DOMAIN users : users'[e] = users[e]
      BY <2>3 DEF With
    <3>2. Grows
      BY <3>1 DEF Grows
    <3>3. row.id = doing[h].user /\ row.token = doing[h].token /\ DOMAIN row = {"id", "token"}
      OBVIOUS
    <3>4. \A e \in DOMAIN users' :
              /\ DOMAIN users'[e] = {"id", "token"}
              /\ e \notin Legacy => users'[e].token # NoToken
      BY <2>1, <3>1, <3>3 DEF AccountsInv
    <3>5. /\ DOMAIN d = {"step", "email", "user", "token"} /\ d.step = "start"
          /\ d.email = email /\ d.user = doing[h].user /\ d.token = doing[h].token
      BY <2>1
    <3>6. doing' = [doing EXCEPT ![h] = d]
      BY <2>3 DEF Goto
    <3> HIDE DEF d
    <3>7. AccountAtHand(d, users')
      BY <2>1, <3>1, <3>3, <3>5 DEF AccountAtHand
    <3> QED
      BY <2>2, <3>2, <3>4, <3>6, <3>7, AccountsKept
  <2>4. CASE Goto(h, Idle) /\ UNCHANGED users
    <3>1. doing' = [doing EXCEPT ![h] = Idle] /\ Idle.step = "idle"
      BY <2>4 DEF Goto, Idle
    <3> QED
      BY <1>0, <2>2, <2>4, <3>1
  <2> QED
    BY <1>7, <2>3, <2>4 DEF Insert
<1>8. ASSUME NEW h \in Handlers, Start(h) PROVE AccountsInv'
  <2> DEFINE a == [email |-> doing[h].email, user |-> doing[h].user, token |-> doing[h].token]
  <2>1. /\ doing' = [doing EXCEPT ![h] = Idle] /\ minted' \in Nat /\ users' = users
        /\ answered' = answered \cup {a}
    BY <1>8 DEF Start, Goto, AccountsInv
  <2>2. /\ Grows
        /\ \A f \in DOMAIN users' :
               /\ DOMAIN users'[f] = {"id", "token"}
               /\ f \notin Legacy => users'[f].token # NoToken
    BY <2>1 DEF Grows, AccountsInv
  <2>3. /\ a.email \in DOMAIN users' /\ users'[a.email].id = a.user
        /\ users'[a.email].token # NoToken
        /\ a.email \notin Legacy => users'[a.email].token = a.token
    BY <1>8, <2>1 DEF Start, At, AccountsInv, AccountAtHand
  <2>4. AccountAtHand(Idle, users')
    BY DEF AccountAtHand, Idle
  <2> HIDE DEF a
  <2> QED
    BY <2>1, <2>2, <2>3, <2>4, AccountsKept
<1>9. ASSUME UNCHANGED <<users, answered, doing, minted>> PROVE AccountsInv'
  BY <1>9 DEF AccountsInv, AccountAtHand, AccountsLast, TokensStay
<1>10. CASE (\E s \in Minted : Logout(s)) \/ PurgeNow \/ PurgeExpired \/ Tick \/ UNCHANGED vars
  BY <1>9, <1>10 DEF Logout, PurgeNow, PurgeExpired, Tick, vars, tables, history
<1> QED
  BY <1>1, <1>2, <1>3, <1>4, <1>5, <1>6, <1>7, <1>8, <1>10 DEF Next

LEMMA AccountsInitial == Init => AccountsInv
BY DEF Init, AccountsInv, AccountAtHand, AccountsLast, TokensStay, Idle

\* Whoever was answered an account by a registration or a login keeps it: two
\* requests that register one email never both get it (the UNIQUE email).
THEOREM AccountsAreKept == Spec => []AccountsLast
<1>1. AccountsInv => AccountsLast
  BY DEF AccountsInv
<1> QED
  BY <1>1, AccountsInitial, AccountsInductive, PTL DEF Spec

\* The token that a registration answered stays the account's token, and no
\* account that was answered is without one.
THEOREM TokensAreKept == Spec => []TokensStay
<1>1. AccountsInv => TokensStay
  BY DEF AccountsInv
<1> QED
  BY <1>1, AccountsInitial, AccountsInductive, PTL DEF Spec
============================================================================

------------------------------ MODULE Accounts ------------------------------
(***************************************************************************)
(* Accounts and cookie sessions (src/auth.cpp, src/session.cpp): the       *)
(* users and sessions tables, and the handlers that work on them with one  *)
(* SQL statement after the other.  A statement is atomic (src/db.cpp holds *)
(* a mutex); between two statements of a handler anything may happen.      *)
(*                                                                         *)
(* A request that changes nothing and gets an error (a wrong password, a   *)
(* short one, a cookie that was never issued) has no action: what it does  *)
(* to the limiter is in RateLimiter.                                       *)
(***************************************************************************)
EXTENDS Naturals, FiniteSets

CONSTANTS
    Emails,        \* the addresses in use
    Legacy,        \* those registered before there were API tokens
    Handlers,      \* requests in progress at once
    Inactivity,    \* cInactivitySeconds
    MaxClock,      \* bound: how long the clock runs
    MaxMinted      \* bound: how many random values are drawn

ASSUME AccountsAssumption ==
    /\ Legacy \subseteq Emails
    /\ Inactivity \in Nat \ {0}
    /\ MaxClock \in Nat /\ MaxMinted \in Nat

VARIABLES
    users,      \* the table: from an email to the id and API token of its row
    sessions,   \* the table: from a session id to its user and expiry
    doing,      \* what each handler has read and is about to do
    purge,      \* the time the purge has read, or NoPurge
    clock,      \* fNowS
    minted,     \* how many random ids, tokens and session ids there are
    answered,   \* history: the accounts that clients were told of
    used,       \* history: when each issued session was last started or accepted
    loggedOut   \* history: the sessions that were logged out

vars == <<users, sessions, doing, purge, clock, minted, answered, used, loggedOut>>
tables == <<users, sessions>>
history == <<answered, used, loggedOut>>

Idle == [step |-> "idle"]
NoPurge == MaxClock + 1
\* The api_token column before anything was written to it.
NoToken == 0
\* Random values never repeat (fUuidV4, fRandomHex); each takes the next number.
Minted == 1..minted
CanMint(n) == minted + n <= MaxMinted

\* The legacy users are there from the start; their ids are their emails.
Init ==
    /\ users = [e \in Legacy |-> [id |-> e, token |-> NoToken]]
    /\ sessions = [s \in {} |-> [user |-> 0, expires |-> 0]]
    /\ doing = [h \in Handlers |-> Idle]
    /\ purge = NoPurge
    /\ clock = 0
    /\ minted = 0
    /\ answered = {}
    /\ used = [s \in {} |-> 0]
    /\ loggedOut = {}

At(h, step) == doing[h].step = step
Goto(h, next) == doing' = [doing EXCEPT ![h] = next]
\* A table with a row put in or replaced, and without one.
With(table, key, row) == [k \in DOMAIN table \cup {key} |-> IF k = key THEN row ELSE table[k]]
Without(table, keys) == [k \in DOMAIN table \ keys |-> table[k]]
----------------------------------------------------------------------------
(* A request with a cookie: fCurrentUserId of session.cpp *)

\* SELECT: a request brings a cookie it was once given.
Query(h, s) ==
    /\ At(h, "idle")
    /\ s \in DOMAIN sessions
    /\ Goto(h, [step |-> "judge", session |-> s, expires |-> sessions[s].expires])
    /\ UNCHANGED <<tables, purge, clock, minted, history>>

\* Mutant: the expiry is left to the purge.
JudgeNothing(h) ==
    /\ At(h, "judge")
    /\ LET s == doing[h].session
       IN /\ Goto(h, [step |-> "slide", session |-> s, until |-> clock + Inactivity])
          /\ used' = [used EXCEPT ![s] = clock]
    /\ UNCHANGED <<tables, purge, clock, minted, answered, loggedOut>>

\* The row is compared with the clock, read only now.
Judge(h) ==
    /\ At(h, "judge")
    /\ LET s == doing[h].session
       IN \/ /\ doing[h].expires <= clock
             /\ Goto(h, [step |-> "drop", session |-> s])
             /\ UNCHANGED used
          \/ /\ doing[h].expires > clock
             /\ Goto(h, [step |-> "slide", session |-> s, until |-> clock + Inactivity])
             /\ used' = [used EXCEPT ![s] = clock]
    /\ UNCHANGED <<tables, purge, clock, minted, answered, loggedOut>>

\* DELETE of the expired row.
Drop(h) ==
    /\ At(h, "drop")
    /\ sessions' = Without(sessions, {doing[h].session})
    /\ Goto(h, Idle)
    /\ UNCHANGED <<users, purge, clock, minted, history>>

\* Mutant: the expiry is stored with an insert-or-replace.
SlideUpsert(h) ==
    /\ At(h, "slide")
    /\ \E e \in DOMAIN users :
           sessions' = With(sessions, doing[h].session,
                            [user |-> users[e].id, expires |-> doing[h].until])
    /\ Goto(h, Idle)
    /\ UNCHANGED <<users, purge, clock, minted, history>>

\* UPDATE of the expiry, of no row if it is gone; the request is served.
Slide(h) ==
    /\ At(h, "slide")
    /\ sessions' = [s \in DOMAIN sessions |->
           IF s = doing[h].session THEN [sessions[s] EXCEPT !.expires = doing[h].until]
           ELSE sessions[s]]
    /\ Goto(h, Idle)
    /\ UNCHANGED <<users, purge, clock, minted, history>>

\* fDestroy: logging out is one statement, whatever became of the session.
Logout(s) ==
    /\ s \in DOMAIN used
    /\ sessions' = Without(sessions, {s})
    /\ loggedOut' = loggedOut \cup {s}
    /\ UNCHANGED <<users, doing, purge, clock, minted, answered, used>>
----------------------------------------------------------------------------
(* Login and registration: auth.cpp *)

\* Mutant: every login mints a token.
FindToMint(h, email) ==
    /\ At(h, "idle")
    /\ email \in DOMAIN users
    /\ CanMint(2)
    /\ minted' = minted + 1
    /\ Goto(h, [step |-> "mint", email |-> email, user |-> users[email].id, token |-> minted + 1])
    /\ UNCHANGED <<tables, purge, clock, history>>

\* Login: the row of the email, with the right password.
Find(h, email) ==
    /\ At(h, "idle")
    /\ email \in DOMAIN users
    /\ LET row == users[email]
       IN \/ /\ row.token # NoToken
             /\ Goto(h, [step |-> "start", email |-> email, user |-> row.id, token |-> row.token])
             /\ UNCHANGED minted
          \/ /\ row.token = NoToken
             /\ CanMint(2)
             /\ minted' = minted + 1
             /\ Goto(h, [step |-> "mint", email |-> email, user |-> row.id, token |-> minted + 1])
    /\ UNCHANGED <<tables, purge, clock, history>>

\* UPDATE of a legacy user's token.
Mint(h) ==
    /\ At(h, "mint")
    /\ users' = [users EXCEPT ![doing[h].email].token = doing[h].token]
    /\ Goto(h, [doing[h] EXCEPT !.step = "start"])
    /\ UNCHANGED <<sessions, purge, clock, minted, history>>

\* Registration: the email is not taken, and an id and a token are drawn (one
\* number stands for both, they are never compared).
Count(h, email) ==
    /\ At(h, "idle")
    /\ email \notin DOMAIN users
    /\ CanMint(2)
    /\ minted' = minted + 1
    /\ Goto(h, [step |-> "insert", email |-> email, user |-> minted + 1, token |-> minted + 1])
    /\ UNCHANGED <<tables, purge, clock, history>>

\* Mutant: the row replaces one that came in between.
InsertOrReplace(h) ==
    /\ At(h, "insert")
    /\ users' = With(users, doing[h].email, [id |-> doing[h].user, token |-> doing[h].token])
    /\ Goto(h, [doing[h] EXCEPT !.step = "start"])
    /\ UNCHANGED <<sessions, purge, clock, minted, history>>

\* INSERT: the email is UNIQUE, and a row that came in between makes it throw.
Insert(h) ==
    /\ At(h, "insert")
    /\ \/ /\ doing[h].email \notin DOMAIN users
          /\ users' = With(users, doing[h].email,
                           [id |-> doing[h].user, token |-> doing[h].token])
          /\ Goto(h, [doing[h] EXCEPT !.step = "start"])
       \/ /\ doing[h].email \in DOMAIN users
          /\ Goto(h, Idle)
          /\ UNCHANGED users
    /\ UNCHANGED <<sessions, purge, clock, minted, history>>

\* fStart and the answer: the client has its cookie and its token.
Start(h) ==
    /\ At(h, "start")
    /\ CanMint(1)
    /\ minted' = minted + 1
    /\ sessions' = With(sessions, minted + 1,
                        [user |-> doing[h].user, expires |-> clock + Inactivity])
    /\ used' = With(used, minted + 1, clock)
    /\ answered' = answered \cup
           {[email |-> doing[h].email, user |-> doing[h].user, token |-> doing[h].token]}
    /\ Goto(h, Idle)
    /\ UNCHANGED <<users, purge, clock, loggedOut>>
----------------------------------------------------------------------------
(* The rest *)

\* A statement throws and the request gets a 500, or the process dies with it:
\* what was written stays written.
Fail(h) ==
    /\ ~At(h, "idle")
    /\ Goto(h, Idle)
    /\ UNCHANGED <<tables, purge, clock, minted, history>>

\* fPurgeExpired, on the main loop: the clock is read, then the rows go.
PurgeNow ==
    /\ purge = NoPurge
    /\ purge' = clock
    /\ UNCHANGED <<tables, doing, clock, minted, history>>
PurgeExpired ==
    /\ purge # NoPurge
    /\ sessions' = Without(sessions, {s \in DOMAIN sessions : sessions[s].expires <= purge})
    /\ purge' = NoPurge
    /\ UNCHANGED <<users, doing, clock, minted, history>>

Tick ==
    /\ clock < MaxClock
    /\ clock' = clock + 1
    /\ UNCHANGED <<tables, doing, purge, minted, history>>

Next ==
    \/ \E h \in Handlers :
           \/ \E s \in Minted : Query(h, s)
           \/ \E e \in Emails : Find(h, e) \/ Count(h, e)
           \/ Judge(h) \/ Drop(h) \/ Slide(h)
           \/ Mint(h) \/ Insert(h) \/ Start(h) \/ Fail(h)
    \/ \E s \in Minted : Logout(s)
    \/ PurgeNow \/ PurgeExpired \/ Tick

Spec == Init /\ [][Next]_vars
----------------------------------------------------------------------------
(* Properties *)

\* A session that was logged out is never in the table again, although requests
\* that had read it store its new expiry afterwards (fDestroy, fCurrentUserId).
LogoutIsFinal == loggedOut \cap DOMAIN sessions = {}

\* No request is accepted by a session that nobody used for cInactivityDays,
\* whatever order the expiries of concurrent requests were stored in
\* ("Sessions expire this long after they were last used", session.h).
IdleSessionsRefused ==
    [][\A h \in Handlers : doing'[h].step = "slide" /\ doing[h].step = "judge" =>
           clock < used[doing[h].session] + Inactivity]_vars

\* Of two clients that register an email at the same time one gets the account,
\* and whoever was told an id keeps the account it names (the COUNT and the
\* INSERT of the registration are two statements).
AccountsLast ==
    \A a \in answered : a.email \in DOMAIN users /\ users[a.email].id = a.user

\* The token a registration answered is good for ever: no later login replaces
\* it ("Users created before the api_token column existed", auth.cpp).  After a
\* login every account has one.
TokensStay ==
    \A a \in answered :
        /\ users[a.email].token # NoToken
        /\ a.email \notin Legacy => users[a.email].token = a.token
============================================================================

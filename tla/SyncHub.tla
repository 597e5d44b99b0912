------------------------------ MODULE SyncHub ------------------------------
(***************************************************************************)
(* The live-sync hub (src/sync_hub.cpp) with its WebSocket glue            *)
(* (src/sync_ws.cpp), the HTTP handlers that announce a change through it, *)
(* and the clients at the other end of the sockets.                        *)
(*                                                                         *)
(* A thread is a Drogon IO loop.  It runs one handler at a time; every     *)
(* critical section of Hub::mutex_ is one step, and so is every call the   *)
(* hub makes outside the mutex (Peer::fSend, the scheduler, the watch      *)
(* resolver, Peer::fClose).  The ack timers run on the main loop.          *)
(*                                                                         *)
(* A client is one device signed in as one user (or anonymous).  It holds  *)
(* at most one current socket; the hub may still hold older, half-open     *)
(* ones.  missed[k] is what changed since client k last looked.            *)
(***************************************************************************)
EXTENDS Naturals, Sequences, FiniteSets

CONSTANTS
    Users,              \* accounts
    NoUser,             \* the user id "" of an anonymous link viewer
    Clients,            \* devices; the X-Lectern-Device header names one
    NoDevice,           \* the device "" of a connection before its hello
    UserOf,             \* the account each client is signed in as, or NoUser
    Threads,            \* IO loop threads
    NoThread,           \* the loop of a connection not yet accepted
    Paths,              \* workspace paths, as sequences of characters
    MayFollow,          \* what fResolveWatch grants each client: targets
    Changes,            \* what one request may touch and tell, see Change
    cMaxPathsPerFrame,
    MaxConns,           \* bound: connections accepted between two restarts
    MaxFrames           \* bound: new work is taken only below this frame id

Conn == 1..MaxConns
NoConn == 0

\* Hub::Watch: an owner and the path (file or folder) followed.
Target == [owner : Users, prefix : Paths]

\* One workspace change: the paths it touches and the list given to fNotify,
\* which is that set for a file operation and empty for a folder operation.
Change == {d \in [touched : SUBSET Paths, told : SUBSET Paths] :
               d.told = {} \/ d.told = d.touched}

\* A request past its file-system work: it will call fNotify(owner, told, origin).
Operation == {o \in [owner : Users \cup {NoUser}, touched : SUBSET Paths,
                     told : SUBSET Paths, origin : Clients \cup {NoDevice}] :
                  o.told = {} \/ o.told = o.touched}
NoOperation == [owner |-> NoUser, touched |-> {}, told |-> {}, origin |-> NoDevice]

\* One tracked frame for one connection.  request_changes is a frame with the
\* client's own user and no list: like an empty "changes" it means "look at
\* everything".  id 0: not yet numbered.  The owner is not on the wire: the
\* client knows whose workspace its socket or its watch is about.
Frame == [id : Nat, conn : Conn \cup {NoConn}, owner : Users \cup {NoUser},
          paths : SUBSET Paths]
NoFrame == [id |-> 0, conn |-> NoConn, owner |-> NoUser, paths |-> {}]

\* A watch (one target) or unwatch (none) between its two critical sections.
Request == [conn : Conn \cup {NoConn}, target : SUBSET Target]
NoRequest == [conn |-> NoConn, target |-> {}]

ASSUME ConstantsAssumption ==
    /\ NoUser \notin Users
    /\ NoDevice \notin Clients
    /\ NoThread \notin Threads
    /\ UserOf \in [Clients -> Users \cup {NoUser}]
    /\ Paths \subseteq Seq(STRING)
    /\ MayFollow \in [Clients -> SUBSET Target]
    /\ Changes \subseteq Change
    /\ cMaxPathsPerFrame \in Nat
    /\ MaxConns \in Nat
    /\ MaxFrames \in Nat

VARIABLES
    \* Hub
    live,        \* the keys of connections_
    client,      \* the client at the far end of each connection (its user_id)
    device,      \* Connection::device, learnt from hello
    pending,     \* Connection::pending, ids of tracked frames not yet acked
    watch,       \* Connection::watches, at most one
    nextConn,    \* next_connection_
    nextFrame,   \* next_frame_
    \* threads
    loop,        \* the IO loop each connection belongs to
    phase,       \* where each thread is
    op,          \* "notify": the operation to announce
    todo,        \* "each": fNotify's targets still to be sent
    cur,         \* "send", "arm": the frame fSendTracked is busy with
    ask,         \* "resolve": the watch request being served
    \* main loop
    timers,      \* scheduled fExpire calls, <<connection, frame id>>
    closing,     \* connections erased by fExpire, fClose not yet called
    \* sockets and clients
    link,        \* each client's current connection, or NoConn
    wire,        \* frames sent and not received
    acks,        \* acks sent and not handled, <<connection, frame id>>
    missed       \* <<owner, path>> changed since the client last looked

hubVars    == <<live, client, device, pending, watch, nextConn, nextFrame>>
threadVars == <<loop, phase, op, todo, cur, ask>>
mainVars   == <<timers, closing>>
netVars    == <<link, wire, acks, missed>>
vars == <<hubVars, threadVars, mainVars, netVars>>

Phases == {"idle", "notify", "each", "send", "arm", "resolve"}

TypeOK ==
    /\ live \subseteq Conn
    /\ client \in [Conn -> Clients \cup {NoDevice}]
    /\ device \in [Conn -> Clients \cup {NoDevice}]
    /\ pending \in [Conn -> SUBSET Nat]
    /\ watch \in [Conn -> SUBSET Target]
    /\ nextConn \in Nat /\ nextConn >= 1
    /\ nextFrame \in Nat /\ nextFrame >= 1
    /\ loop \in [Conn -> Threads \cup {NoThread}]
    /\ phase \in [Threads -> Phases]
    /\ op \in [Threads -> Operation]
    /\ todo \in [Threads -> SUBSET Frame]
    /\ cur \in [Threads -> Frame]
    /\ ask \in [Threads -> Request]
    /\ timers \subseteq (Conn \cup {NoConn}) \X Nat
    /\ closing \subseteq Conn
    /\ link \in [Clients -> Conn \cup {NoConn}]
    /\ wire \subseteq Frame
    /\ acks \subseteq (Conn \cup {NoConn}) \X Nat
    /\ missed \in [Clients -> SUBSET (Users \X Paths)]

----------------------------------------------------------------------------
\* A fresh server process: nothing of the hub is persisted.
Fresh(live0, client0, device0, pending0, watch0) ==
    /\ live0 = {}
    /\ client0 = [c \in Conn |-> NoDevice]
    /\ device0 = [c \in Conn |-> NoDevice]
    /\ pending0 = [c \in Conn |-> {}]
    /\ watch0 = [c \in Conn |-> {}]

Init ==
    /\ Fresh(live, client, device, pending, watch)
    /\ nextConn = 1
    /\ nextFrame = 1
    /\ loop = [c \in Conn |-> NoThread]
    /\ phase = [t \in Threads |-> "idle"]
    /\ op = [t \in Threads |-> NoOperation]
    /\ todo = [t \in Threads |-> {}]
    /\ cur = [t \in Threads |-> NoFrame]
    /\ ask = [t \in Threads |-> NoRequest]
    /\ timers = {}
    /\ closing = {}
    /\ link = [k \in Clients |-> NoConn]
    /\ wire = {}
    /\ acks = {}
    /\ missed = [k \in Clients |-> {}]

\* Mutant: without the slash check, "ab" matches the prefix "a".
fMatchesPrefixText(path, prefix) ==
    /\ Len(path) >= Len(prefix)
    /\ SubSeq(path, 1, Len(prefix)) = prefix

\* path equals the prefix, or continues it after a slash.
fMatchesPrefix(path, prefix) ==
    \/ path = prefix
    \/ /\ Len(path) > Len(prefix)
       /\ SubSeq(path, 1, Len(prefix)) = prefix
       /\ path[Len(prefix) + 1] = "/"

\* Connection c's user_id.
UserId(c) == IF client[c] = NoDevice THEN NoUser ELSE UserOf[client[c]]

\* connections_.erase: the record goes with its device, pending and watches.
Erase(c) ==
    /\ live' = live \ {c}
    /\ client' = [client EXCEPT ![c] = NoDevice]
    /\ device' = [device EXCEPT ![c] = NoDevice]
    /\ pending' = [pending EXCEPT ![c] = {}]
    /\ watch' = [watch EXCEPT ![c] = {}]
    /\ loop' = [loop EXCEPT ![c] = NoThread]

\* Client k's socket is gone: what was under way on it is lost.
Unlink(k) ==
    /\ link' = [link EXCEPT ![k] = NoConn]
    /\ wire' = {f \in wire : f.conn # link[k]}
    /\ acks' = {a \in acks : a[1] # link[k]}
----------------------------------------------------------------------------
(* Connections come and go *)

\* handleNewConnection and fAdd: the client's handshake passed, the connection
\* is registered, and a signed-in one is about to be asked to catch up.
Accept(t, k) ==
    /\ phase[t] = "idle"
    /\ link[k] = NoConn
    /\ nextConn <= MaxConns /\ nextFrame <= MaxFrames
    /\ nextConn' = nextConn + 1
    /\ live' = live \cup {nextConn}
    /\ client' = [client EXCEPT ![nextConn] = k]
    /\ loop' = [loop EXCEPT ![nextConn] = t]
    /\ link' = [link EXCEPT ![k] = nextConn]
    /\ IF UserOf[k] # NoUser
         THEN /\ todo' = [todo EXCEPT ![t] =
                   {[id |-> 0, conn |-> nextConn, owner |-> UserOf[k], paths |-> {}]}]
              /\ phase' = [phase EXCEPT ![t] = "each"]
         ELSE UNCHANGED <<todo, phase>>
    /\ UNCHANGED <<device, pending, watch, nextFrame, op, cur, ask, mainVars,
                   wire, acks, missed>>

\* The client loses or leaves its socket.  The server need not notice: the
\* connection stays registered until SocketClosed or a timeout.
HangUp(k) ==
    /\ link[k] # NoConn
    /\ Unlink(k)
    /\ UNCHANGED <<hubVars, threadVars, mainVars, missed>>

\* handleConnectionClosed, on the connection's loop: fRemove.
SocketClosed(c) ==
    /\ c \in live
    /\ phase[loop[c]] = "idle"
    /\ \A k \in Clients : link[k] # c
    /\ Erase(c)
    /\ UNCHANGED <<nextConn, nextFrame, phase, op, todo, cur, ask, mainVars, netVars>>

\* The server process dies and starts again.
Restart ==
    /\ Fresh(live', client', device', pending', watch')
    /\ nextConn' = 1
    /\ nextFrame' = 1
    /\ loop' = [c \in Conn |-> NoThread]
    /\ phase' = [t \in Threads |-> "idle"]
    /\ op' = [t \in Threads |-> NoOperation]
    /\ todo' = [t \in Threads |-> {}]
    /\ cur' = [t \in Threads |-> NoFrame]
    /\ ask' = [t \in Threads |-> NoRequest]
    /\ timers' = {}
    /\ closing' = {}
    /\ link' = [k \in Clients |-> NoConn]
    /\ wire' = {}
    /\ acks' = {}
    /\ UNCHANGED missed
----------------------------------------------------------------------------
(* A workspace change is announced *)

\* Connection c's watch covers path p of owner o.
Follows(c, o, p) == \E w \in watch[c] : w.owner = o /\ fMatchesPrefix(p, w.prefix)

\* An HTTP handler has changed owner's workspace and is about to call
\* fNotifyChanges.  Every other client of the owner now holds something old,
\* and so does every other client that follows a path the handler will name.
Commit(t, owner, change, origin) ==
    /\ phase[t] = "idle"
    /\ nextFrame <= MaxFrames
    /\ phase' = [phase EXCEPT ![t] = "notify"]
    /\ op' = [op EXCEPT ![t] = [owner |-> owner, touched |-> change.touched,
                                told |-> change.told, origin |-> origin]]
    /\ missed' = [k \in Clients |->
           IF k = origin THEN missed[k]
           ELSE missed[k] \cup
                {m \in {owner} \X change.touched :
                    \/ UserOf[k] = owner
                    \/ /\ link[k] \in live
                       /\ m[2] \in change.told
                       /\ Follows(link[k], owner, m[2])}]
    /\ UNCHANGED <<hubVars, loop, todo, cur, ask, mainVars, link, wire, acks>>

\* fNotify's skip of the writer's own device.
IsOrigin(c, origin) == origin # NoDevice /\ device[c] = origin

\* Mutant: a watch matches only the very path it names.
VisibleExactly(c, o) ==
    IF UserId(c) = o.owner THEN o.told
    ELSE {p \in o.told : [owner |-> o.owner, prefix |-> p] \in watch[c]}

\* What fNotify shows connection c: everything if it is the owner's, else the
\* paths it follows.
Visible(c, o) ==
    IF UserId(c) = o.owner THEN o.told
    ELSE {p \in o.told : Follows(c, o.owner, p)}

\* The list is dropped when it is too long to send.
ListFor(c, o) ==
    IF Cardinality(Visible(c, o)) <= cMaxPathsPerFrame THEN Visible(c, o) ELSE {}

\* Mutant: only those who follow a path of somebody else's are looked up.
GatherWatchers(t) ==
    LET o == op[t]
        reached == {c \in live : UserId(c) # o.owner /\ Visible(c, o) # {}}
    IN /\ phase[t] = "notify"
       /\ todo' = [todo EXCEPT ![t] =
              {[id |-> 0, conn |-> c, owner |-> o.owner, paths |-> ListFor(c, o)] :
                   c \in reached}]
       /\ phase' = [phase EXCEPT ![t] = "each"]
       /\ op' = [op EXCEPT ![t] = NoOperation]
       /\ UNCHANGED <<hubVars, loop, cur, ask, mainVars, netVars>>

\* fNotify's locked loop over the connections.
Gather(t) ==
    LET o == op[t]
        reached == {c \in live : /\ ~IsOrigin(c, o.origin)
                                 /\ UserId(c) = o.owner \/ Visible(c, o) # {}}
    IN /\ phase[t] = "notify"
       /\ todo' = [todo EXCEPT ![t] =
              {[id |-> 0, conn |-> c, owner |-> o.owner, paths |-> ListFor(c, o)] :
                   c \in reached}]
       /\ phase' = [phase EXCEPT ![t] = "each"]
       /\ op' = [op EXCEPT ![t] = NoOperation]
       /\ UNCHANGED <<hubVars, loop, cur, ask, mainVars, netVars>>

\* The next target, in the order of connections_, a std::map.
Foremost(t, f) == f \in todo[t] /\ \A g \in todo[t] : f.conn <= g.conn

\* fSendTracked's critical section: a fresh id, pending until acked.
Track(t) ==
    /\ phase[t] = "each"
    /\ \E f \in todo[t] :
         /\ Foremost(t, f)
         /\ f.conn \in live
         /\ cur' = [cur EXCEPT ![t] = [f EXCEPT !.id = nextFrame]]
         /\ pending' = [pending EXCEPT ![f.conn] = @ \cup {nextFrame}]
         /\ todo' = [todo EXCEPT ![t] = @ \ {f}]
    /\ nextFrame' = nextFrame + 1
    /\ phase' = [phase EXCEPT ![t] = "send"]
    /\ UNCHANGED <<live, client, device, watch, nextConn, loop, op, ask, mainVars, netVars>>

\* fSendTracked's early return: the connection is gone.
SkipGone(t) ==
    /\ phase[t] = "each"
    /\ \E f \in todo[t] :
         /\ Foremost(t, f)
         /\ f.conn \notin live
         /\ todo' = [todo EXCEPT ![t] = @ \ {f}]
    /\ UNCHANGED <<hubVars, loop, phase, op, cur, ask, mainVars, netVars>>

\* Mutant: a failed send leaves fSendTracked before the timeout is armed.
SendOrThrow(t) ==
    /\ phase[t] = "send"
    /\ IF \E k \in Clients : link[k] = cur[t].conn
         THEN wire' = wire \cup {cur[t]} /\ phase' = [phase EXCEPT ![t] = "arm"]
              /\ UNCHANGED cur
         ELSE phase' = [phase EXCEPT ![t] = "each"] /\ cur' = [cur EXCEPT ![t] = NoFrame]
              /\ UNCHANGED wire
    /\ UNCHANGED <<hubVars, loop, op, todo, ask, mainVars, link, acks, missed>>

\* Peer::fSend, outside the lock; a socket that is gone swallows the frame or
\* throws, which is caught.
Send(t) ==
    /\ phase[t] = "send"
    /\ wire' = wire \cup {f \in {cur[t]} : \E k \in Clients : link[k] = f.conn}
    /\ phase' = [phase EXCEPT ![t] = "arm"]
    /\ UNCHANGED <<hubVars, loop, op, todo, cur, ask, mainVars, link, acks, missed>>

\* schedule_: the ack timeout is armed last.
Arm(t) ==
    /\ phase[t] = "arm"
    /\ timers' = timers \cup {<<cur[t].conn, cur[t].id>>}
    /\ cur' = [cur EXCEPT ![t] = NoFrame]
    /\ phase' = [phase EXCEPT ![t] = "each"]
    /\ UNCHANGED <<hubVars, loop, op, todo, ask, closing, netVars>>

\* fNotify (or fAdd) returns and the thread is free again.
Return(t) ==
    /\ phase[t] = "each"
    /\ todo[t] = {}
    /\ phase' = [phase EXCEPT ![t] = "idle"]
    /\ UNCHANGED <<hubVars, loop, op, todo, cur, ask, mainVars, netVars>>
----------------------------------------------------------------------------
(* The ack timeout, on the main loop *)

\* fExpire's critical section.
Expire(c, id) ==
    /\ closing = {}
    /\ <<c, id>> \in timers
    /\ timers' = timers \ {<<c, id>>}
    /\ IF c \in live /\ id \in pending[c]
         THEN Erase(c) /\ closing' = {c}
         ELSE UNCHANGED <<live, client, device, pending, watch, loop, closing>>
    /\ UNCHANGED <<nextConn, nextFrame, phase, op, todo, cur, ask, netVars>>

\* fExpire's fClose, outside the lock: the client's socket is shut down.
Close(c) ==
    /\ c \in closing
    /\ closing' = closing \ {c}
    /\ IF \E k \in Clients : link[k] = c
         THEN \E k \in Clients : link[k] = c /\ Unlink(k)
         ELSE UNCHANGED <<link, wire, acks>>
    /\ UNCHANGED <<hubVars, threadVars, timers, missed>>
----------------------------------------------------------------------------
(* Frames from the client, handled on the connection's loop (fHandle) *)

\* The client k's socket has a loop free to serve it.
Served(k) == link[k] \in live /\ phase[loop[link[k]]] = "idle"

\* "hello" names the device.
Hello(k) ==
    /\ Served(k)
    /\ device' = [device EXCEPT ![link[k]] = k]
    /\ UNCHANGED <<live, client, pending, watch, nextConn, nextFrame, threadVars,
                   mainVars, netVars>>

\* "ack" settles a pending frame.  On a connection the hub has dropped the
\* lookup fails and nothing happens.
Ack(c, id) ==
    /\ <<c, id>> \in acks
    /\ c \in live => phase[loop[c]] = "idle"
    /\ acks' = acks \ {<<c, id>>}
    /\ pending' = IF c \in live THEN [pending EXCEPT ![c] = @ \ {id}] ELSE pending
    /\ UNCHANGED <<live, client, device, watch, nextConn, nextFrame, threadVars,
                   mainVars, link, wire, missed>>

\* "watch" or "unwatch": the first critical section, then the resolver, which
\* grants a target (a refusal is answered with a nack and changes nothing).
AskWatch(k, target) ==
    /\ Served(k)
    /\ LET t == loop[link[k]]
       IN /\ phase' = [phase EXCEPT ![t] = "resolve"]
          /\ ask' = [ask EXCEPT ![t] = [conn |-> link[k], target |-> target]]
    /\ UNCHANGED <<hubVars, loop, op, todo, cur, mainVars, netVars>>

\* The second critical section: unless the connection is gone, the watch is
\* replaced.  The client reads the file it now follows after the ack, so what
\* it had missed of other people's files no longer counts.
SetWatch(t) ==
    LET c == ask[t].conn
    IN /\ phase[t] = "resolve"
       /\ phase' = [phase EXCEPT ![t] = "idle"]
       /\ ask' = [ask EXCEPT ![t] = NoRequest]
       /\ IF c \in live
            THEN /\ watch' = [watch EXCEPT ![c] = ask[t].target]
                 /\ missed' = [k \in Clients |->
                        IF link[k] = c THEN {m \in missed[k] : m[1] = UserOf[k]}
                        ELSE missed[k]]
            ELSE UNCHANGED <<watch, missed>>
       /\ UNCHANGED <<live, client, device, pending, nextConn, nextFrame, loop, op,
                      todo, cur, mainVars, link, wire, acks>>
----------------------------------------------------------------------------
\* Frame f tells its receiver to look at path p of owner o.
Covers(f, o, p) == f.owner = o /\ (f.paths = {} \/ p \in f.paths)

\* The client at the other end (external): it looks at what the frame names and
\* answers it.  Frames may overtake each other, and may never arrive.
Deliver(f) ==
    /\ f \in wire
    /\ wire' = wire \ {f}
    /\ acks' = acks \cup {<<f.conn, f.id>>}
    /\ missed' = [k \in Clients |->
           IF link[k] = f.conn THEN {m \in missed[k] : ~Covers(f, m[1], m[2])}
           ELSE missed[k]]
    /\ UNCHANGED <<hubVars, threadVars, mainVars, link>>

ThreadStep(t) ==
    \/ Gather(t) \/ Track(t) \/ SkipGone(t) \/ Send(t) \/ Arm(t) \/ Return(t)
    \/ SetWatch(t)

MainStep ==
    \/ \E m \in timers : Expire(m[1], m[2])
    \/ \E c \in Conn : Close(c)

Next ==
    \/ \E t \in Threads, k \in Clients : Accept(t, k)
    \/ \E t \in Threads, o \in Users, d \in Changes, s \in Clients \cup {NoDevice} :
           Commit(t, o, d, s)
    \/ \E t \in Threads : ThreadStep(t)
    \/ MainStep
    \/ \E k \in Clients : HangUp(k) \/ Hello(k) \/ AskWatch(k, {})
    \/ \E k \in Clients : \E w \in MayFollow[k] : AskWatch(k, {w})
    \/ \E c \in Conn : SocketClosed(c)
    \/ \E a \in acks : Ack(a[1], a[2])
    \/ \E f \in wire : Deliver(f)
    \/ Restart

Spec == Init /\ [][Next]_vars

\* The threads run, the timers fire and a dropped peer is closed.  Nothing is
\* assumed of the clients: they need not receive, ack, hang up or come back.
Fairness ==
    /\ \A t \in Threads : WF_vars(ThreadStep(t))
    /\ WF_vars(MainStep)

LiveSpec == Spec /\ Fairness
----------------------------------------------------------------------------
(* Properties *)

\* A handler that has changed the workspace and not yet looked at the
\* connections will reach client k about path p of owner o.
Announces(t, k, o, p) ==
    /\ phase[t] = "notify"
    /\ op[t].owner = o /\ op[t].origin # k
    /\ p \in op[t].touched
    /\ UserOf[k] = o \/ p \in op[t].told

\* Something under way in the server will tell the client at connection c about
\* path p of o: a frame it must ack, sent or being sent, or one not yet tracked.
InHand(c, o, p) ==
    \/ \E t \in Threads : \E f \in todo[t] :
           phase[t] \in {"each", "send", "arm"} /\ f.conn = c /\ Covers(f, o, p)
    \/ \E t \in Threads :
           /\ phase[t] = "send" /\ cur[t].conn = c /\ cur[t].id \in pending[c]
           /\ Covers(cur[t], o, p)
    \/ \E f \in wire : f.conn = c /\ f.id \in pending[c] /\ Covers(f, o, p)

\* What client k's connection has to do with the missed path m: it is of its own
\* workspace, or of the file or folder it follows.
Concerns(k, m) == m[1] = UserOf[k] \/ Follows(link[k], m[1], m[2])

OwedTo(k, m) ==
    \/ \E t \in Threads : Announces(t, k, m[1], m[2])
    \/ InHand(link[k], m[1], m[2])

\* No change is lost silently: whatever a client with a socket has missed, in
\* its own workspace or in the file it follows, the hub still owes it, through
\* a frame whose missing ack will drop the connection (the client then
\* reconnects and is asked to catch up); and a client whose connection the hub
\* has forgotten is about to lose its socket.  (fNotify, fAdd, fSendTracked,
\* fExpire, README "Live sync".)
OwedWhatItMissed ==
    \A k \in Clients : link[k] # NoConn =>
        IF link[k] \in live
          THEN \A m \in missed[k] : Concerns(k, m) => OwedTo(k, m)
          ELSE link[k] \in closing

\* Every frame the hub waits for has its timeout armed, or the thread that
\* numbered it is on its way to arm it: an unanswered frame always ends in
\* fExpire, also when the ack, the send or the removal of the connection runs
\* in between (fSendTracked arms after sending, outside the lock).
TrackedFramesArmed ==
    \A c \in Conn : \A id \in pending[c] :
        \/ <<c, id>> \in timers
        \/ \E t \in Threads : /\ phase[t] \in {"send", "arm"}
                              /\ cur[t].conn = c /\ cur[t].id = id

\* A frame under way to a client names only paths of its own workspace or paths
\* it is entitled to follow, although its watch may have been replaced, or the
\* connection number reused after a restart, since the list was put together
\* (fNotify's filter, fHandle's watch).
Inside(p, prefix) == p = prefix \/ \E n \in 1..Len(p) :
    p[n] = "/" /\ SubSeq(p, 1, n - 1) = prefix
NothingLeaks ==
    \A f \in wire : \A k \in Clients : link[k] = f.conn =>
        \/ f.owner = UserOf[k]
        \/ /\ \E w \in MayFollow[k] : w.owner = f.owner
           /\ \A p \in f.paths : \E w \in MayFollow[k] :
                  w.owner = f.owner /\ Inside(p, w.prefix)

\* What a connected client has missed in its own workspace is made good, whether
\* it changed before the client came or after it had caught up: the client is
\* told, or it loses that connection (and catches up on the next), whatever it
\* does (fNotify, fAdd, fSendTracked, fExpire).
ToldOrDropped ==
    \A k \in Clients, c \in Conn, o \in Users, p \in Paths :
        (link[k] = c /\ o = UserOf[k] /\ <<o, p>> \in missed[k])
            ~> (link[k] # c \/ <<o, p>> \notin missed[k])

\* A dead peer is noticed: a tracked frame is acked or its connection removed,
\* also when the socket never reports that it closed.
FramesSettle ==
    \A c \in Conn, id \in 1..MaxFrames + 1 :
        id \in pending[c] ~> id \notin pending[c]
============================================================================

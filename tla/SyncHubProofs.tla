--------------------------- MODULE SyncHubProofs ---------------------------
(***************************************************************************)
(* Proofs about SyncHub, for any number of users, clients, threads,        *)
(* connections, frames and paths.                                          *)
(***************************************************************************)
EXTENDS SyncHub, TLAPS

USE DEF Conn, NoConn

\* The variables keep their types: every handler leaves the hub's tables, the
\* threads' frames and the sockets well formed.
LEMMA TypeInit == Init => TypeOK
  BY ConstantsAssumption DEF Init, Fresh, TypeOK, Operation, NoOperation, Frame,
     NoFrame, Request, NoRequest, Phases

LEMMA EraseType ==
  ASSUME TypeOK, NEW c \in Conn, Erase(c)
  PROVE  /\ live' \subseteq Conn
         /\ client' \in [Conn -> Clients \cup {NoDevice}]
         /\ device' \in [Conn -> Clients \cup {NoDevice}]
         /\ pending' \in [Conn -> SUBSET Nat]
         /\ watch' \in [Conn -> SUBSET Target]
         /\ loop' \in [Conn -> Threads \cup {NoThread}]
  BY DEF TypeOK, Erase

LEMMA UnlinkType ==
  ASSUME TypeOK, NEW k \in Clients, Unlink(k)
  PROVE  /\ link' \in [Clients -> Conn \cup {NoConn}]
         /\ wire' \subseteq Frame
         /\ acks' \subseteq (Conn \cup {NoConn}) \X Nat
  BY DEF TypeOK, Unlink

LEMMA TypeStep == TypeOK /\ [Next]_vars => TypeOK'
<1> SUFFICES ASSUME TypeOK, [Next]_vars PROVE TypeOK'
  OBVIOUS
<1> USE ConstantsAssumption
<1>1. ASSUME NEW t \in Threads, NEW k \in Clients, Accept(t, k) PROVE TypeOK'
  <2>1. nextConn \in Conn /\ nextConn + 1 \in Nat /\ nextConn + 1 >= 1
    BY <1>1 DEF TypeOK, Accept
  <2>2. todo' \in [Threads -> SUBSET Frame] /\ phase' \in [Threads -> Phases]
    <3>1. CASE UserOf[k] # NoUser
      <4>1. [id |-> 0, conn |-> nextConn, owner |-> UserOf[k], paths |-> {}] \in Frame
        BY <2>1 DEF Frame
      <4>2. /\ todo' = [todo EXCEPT ![t] =
                   {[id |-> 0, conn |-> nextConn, owner |-> UserOf[k], paths |-> {}]}]
            /\ phase' = [phase EXCEPT ![t] = "each"]
        BY <1>1, <3>1 DEF Accept
      <4> HIDE DEF Conn, NoConn
      <4>3. todo' \in [Threads -> SUBSET Frame]
        BY <4>1, <4>2 DEF TypeOK
      <4> QED
        BY <4>2, <4>3 DEF TypeOK, Phases
    <3>2. CASE UserOf[k] = NoUser
      BY <1>1, <3>2 DEF TypeOK, Accept
    <3> QED
      BY <3>1, <3>2
  <2> QED
    BY <1>1, <2>1, <2>2 DEF TypeOK, Accept, mainVars
<1>2. ASSUME NEW t \in Threads, NEW o \in Users, NEW d \in Changes,
             NEW s \in Clients \cup {NoDevice}, Commit(t, o, d, s)
      PROVE  TypeOK'
  <2>1. d \in Change
    OBVIOUS
  <2>2. op' \in [Threads -> Operation]
    BY <1>2, <2>1 DEF TypeOK, Commit, Operation, Change
  <2>3. missed' \in [Clients -> SUBSET (Users \X Paths)]
    BY <1>2, <2>1 DEF TypeOK, Commit, Change
  <2> QED
    BY <1>2, <2>2, <2>3 DEF TypeOK, Commit, hubVars, mainVars, Phases
<1>3. ASSUME NEW t \in Threads, Gather(t) PROVE TypeOK'
  <2>1. \A c \in Conn : ListFor(c, op[t]) \in SUBSET Paths
    BY DEF TypeOK, ListFor, Visible, Operation
  <2>2. todo' \in [Threads -> SUBSET Frame]
    <3>1. op[t].owner \in Users \cup {NoUser} /\ live \subseteq Conn
      BY DEF TypeOK, Operation
    <3>2. \A c \in live : [id |-> 0, conn |-> c, owner |-> op[t].owner,
                           paths |-> ListFor(c, op[t])] \in Frame
      BY <2>1, <3>1 DEF Frame
    <3> QED
      BY <1>3, <3>2 DEF TypeOK, Gather
  <2> QED
    BY <1>3, <2>2 DEF TypeOK, Gather, hubVars, mainVars, netVars, Phases,
       NoOperation, Operation
<1>4. ASSUME NEW t \in Threads, Track(t) PROVE TypeOK'
  <2> PICK f \in todo[t] :
         /\ f.conn \in live
         /\ cur' = [cur EXCEPT ![t] = [f EXCEPT !.id = nextFrame]]
         /\ pending' = [pending EXCEPT ![f.conn] = @ \cup {nextFrame}]
         /\ todo' = [todo EXCEPT ![t] = @ \ {f}]
    BY <1>4 DEF Track
  <2>1. f \in Frame
    BY DEF TypeOK
  <2>2. [f EXCEPT !.id = nextFrame] \in Frame
    BY <2>1 DEF Frame, TypeOK
  <2>3. pending' \in [Conn -> SUBSET Nat]
    BY DEF TypeOK
  <2>4. todo' \in [Threads -> SUBSET Frame] /\ cur' \in [Threads -> Frame]
    BY <2>2 DEF TypeOK
  <2> QED
    BY <1>4, <2>3, <2>4 DEF TypeOK, Track, mainVars, netVars, Phases
<1>5. ASSUME NEW t \in Threads, SkipGone(t) PROVE TypeOK'
  BY <1>5 DEF TypeOK, SkipGone, hubVars, mainVars, netVars
<1>6. ASSUME NEW t \in Threads, Send(t) PROVE TypeOK'
  BY <1>6 DEF TypeOK, Send, hubVars, mainVars, Phases
<1>7. ASSUME NEW t \in Threads, Arm(t) PROVE TypeOK'
  BY <1>7 DEF TypeOK, Arm, hubVars, netVars, Phases, Frame, NoFrame
<1>8. ASSUME NEW t \in Threads, Return(t) PROVE TypeOK'
  BY <1>8 DEF TypeOK, Return, hubVars, mainVars, netVars, Phases
<1>9. ASSUME NEW t \in Threads, SetWatch(t) PROVE TypeOK'
  <2>1. ask[t].target \in SUBSET Target
    BY DEF TypeOK, Request
  <2>2. ask' \in [Threads -> Request]
    BY <1>9 DEF TypeOK, SetWatch, Request, NoRequest
  <2>3. watch' \in [Conn -> SUBSET Target] /\ missed' \in [Clients -> SUBSET (Users \X Paths)]
    <3>1. CASE ask[t].conn \in live
      <4>1. \A k \in Clients : missed[k] \in SUBSET (Users \X Paths)
        BY DEF TypeOK
      <4>2. \A k \in Clients :
              {m \in missed[k] : m[1] = UserOf[k]} \in SUBSET (Users \X Paths)
        BY <4>1
      <4>3. missed' = [k \in Clients |->
                        IF link[k] = ask[t].conn
                          THEN {m \in missed[k] : m[1] = UserOf[k]} ELSE missed[k]]
        BY <1>9, <3>1 DEF SetWatch
      <4>4. missed' \in [Clients -> SUBSET (Users \X Paths)]
        BY <4>1, <4>2, <4>3
      <4>5. watch' = [watch EXCEPT ![ask[t].conn] = ask[t].target]
        BY <1>9, <3>1 DEF SetWatch
      <4> QED
        BY <2>1, <4>4, <4>5 DEF TypeOK
    <3>2. CASE ask[t].conn \notin live
      BY <1>9, <3>2 DEF TypeOK, SetWatch
    <3> QED
      BY <3>1, <3>2
  <2> QED
    BY <1>9, <2>2, <2>3 DEF TypeOK, SetWatch, mainVars, Phases
<1>10. ASSUME NEW m \in timers, Expire(m[1], m[2]) PROVE TypeOK'
  <2>1. CASE m[1] \in live /\ m[2] \in pending[m[1]]
    <3>1. m[1] \in Conn /\ Erase(m[1]) /\ closing' = {m[1]}
      BY <1>10, <2>1 DEF Expire, TypeOK
    <3> QED
      BY <1>10, <3>1, EraseType DEF TypeOK, Expire, netVars
  <2>2. CASE ~(m[1] \in live /\ m[2] \in pending[m[1]])
    BY <1>10, <2>2 DEF TypeOK, Expire, netVars
  <2> QED
    BY <2>1, <2>2
<1>11. ASSUME NEW c \in Conn, Close(c) PROVE TypeOK'
  <2>1. CASE \E k \in Clients : link[k] = c
    <3> PICK k \in Clients : link[k] = c /\ Unlink(k)
      BY <1>11, <2>1 DEF Close
    <3> QED
      BY <1>11, UnlinkType DEF TypeOK, Close, hubVars, threadVars
  <2>2. CASE ~ \E k \in Clients : link[k] = c
    BY <1>11, <2>2 DEF TypeOK, Close, hubVars, threadVars
  <2> QED
    BY <2>1, <2>2
<1>12. ASSUME NEW k \in Clients, HangUp(k) PROVE TypeOK'
  BY <1>12, UnlinkType DEF TypeOK, HangUp, hubVars, threadVars, mainVars
<1>13. ASSUME NEW k \in Clients, Hello(k) PROVE TypeOK'
  BY <1>13 DEF TypeOK, Hello, Served, threadVars, mainVars, netVars
<1>14. ASSUME NEW k \in Clients, NEW w \in SUBSET MayFollow[k], AskWatch(k, w)
       PROVE  TypeOK'
  <2>1. w \in SUBSET Target
    OBVIOUS
  <2>2. ask' \in [Threads -> Request]
    BY <1>14, <2>1 DEF TypeOK, AskWatch, Served, Request
  <2> QED
    BY <1>14, <2>2 DEF TypeOK, AskWatch, hubVars, mainVars, netVars, Phases
<1>15. ASSUME NEW c \in Conn, SocketClosed(c) PROVE TypeOK'
  BY <1>15, EraseType DEF TypeOK, SocketClosed, mainVars, netVars
<1>16. ASSUME NEW a \in acks, Ack(a[1], a[2]) PROVE TypeOK'
  <2>1. pending' \in [Conn -> SUBSET Nat]
    BY <1>16 DEF TypeOK, Ack
  <2> QED
    BY <1>16, <2>1 DEF TypeOK, Ack, threadVars, mainVars
<1>17. ASSUME NEW f \in wire, Deliver(f) PROVE TypeOK'
  <2>1. f \in Frame
    BY DEF TypeOK
  <2>2. missed' \in [Clients -> SUBSET (Users \X Paths)]
    BY <1>17 DEF TypeOK, Deliver
  <2> QED
    BY <1>17, <2>1, <2>2 DEF TypeOK, Deliver, hubVars, threadVars, mainVars, Frame
<1>18. ASSUME Restart PROVE TypeOK'
  BY <1>18 DEF TypeOK, Restart, Fresh, Operation, NoOperation, Frame, NoFrame,
     Request, NoRequest, Phases
<1>19. CASE UNCHANGED vars
  BY <1>19 DEF TypeOK, vars, hubVars, threadVars, mainVars, netVars
<1> QED
  <2>1. \A k \in Clients : {} \in SUBSET MayFollow[k]
                           /\ \A w \in MayFollow[k] : {w} \in SUBSET MayFollow[k]
    OBVIOUS
  <2> QED
    BY <1>1, <1>2, <1>3, <1>4, <1>5, <1>6, <1>7, <1>8, <1>9, <1>10, <1>11, <1>12,
       <1>13, <1>14, <1>15, <1>16, <1>17, <1>18, <1>19, <2>1
    DEF Next, ThreadStep, MainStep

\* Every reachable state of the hub, its threads, timers, sockets and clients is
\* well typed, restarts included.
THEOREM TypeCorrect == Spec => []TypeOK
  BY TypeInit, TypeStep, PTL DEF Spec
----------------------------------------------------------------------------
(* The inductive invariant *)

\* A current socket belongs to one client, the one its registered connection
\* stands for; connection numbers are fresh; a hello names that client.
Linked ==
    /\ \A c \in Conn : c \notin live => device[c] = NoDevice
    /\ \A c \in live : c < nextConn /\ client[c] \in Clients
                       /\ device[c] \in {NoDevice, client[c]}
    /\ \A k \in Clients : link[k] # NoConn =>
           link[k] < nextConn /\ (link[k] \in live => client[link[k]] = k)
    /\ \A j, k \in Clients : link[j] = link[k] /\ link[k] # NoConn => j = k

\* An erased connection waits for nothing and follows nothing.
Blank == \A c \in Conn : c \notin live => pending[c] = {} /\ watch[c] = {}

\* A frame number is on its way to be sent, sent, or acked, and only once.
FrameIds ==
    /\ \A f \in wire : f.id < nextFrame
    /\ \A a \in acks : a[2] < nextFrame
    /\ \A t \in Threads : phase[t] = "send" => cur[t].id < nextFrame
    /\ \A f, g \in wire : f.id = g.id => f = g
    /\ \A f \in wire, a \in acks : f.id # a[2]
    /\ \A t \in Threads : phase[t] = "send" =>
           /\ \A f \in wire : f.id # cur[t].id
           /\ \A a \in acks : a[2] # cur[t].id
           /\ \A s \in Threads : phase[s] = "send" /\ cur[s].id = cur[t].id => s = t

LEMMA EraseLinked ==
  ASSUME TypeOK, Linked, NEW c \in Conn, Erase(c), UNCHANGED <<link, nextConn>>
  PROVE  Linked'
<1>1. /\ live' = live \ {c}
      /\ client' = [client EXCEPT ![c] = NoDevice]
      /\ device' = [device EXCEPT ![c] = NoDevice]
  BY DEF Erase
<1>2. \A d \in live' : client'[d] = client[d] /\ device'[d] = device[d]
  BY <1>1 DEF TypeOK
<1>3. device'[c] = NoDevice /\ \A d \in Conn : d # c => device'[d] = device[d]
  BY <1>1 DEF TypeOK
<1> QED
  BY <1>1, <1>2, <1>3 DEF TypeOK, Linked

LEMMA UnlinkLinked ==
  ASSUME TypeOK, Linked, NEW k \in Clients, Unlink(k), UNCHANGED hubVars
  PROVE  Linked'
<1>1. \A j \in Clients : link'[j] = IF j = k THEN NoConn ELSE link[j]
  BY DEF TypeOK, Unlink
<1> QED
  BY <1>1 DEF Linked, hubVars

LEMMA LinkedStep == TypeOK /\ TypeOK' /\ Linked /\ [Next]_vars => Linked'
<1> SUFFICES ASSUME TypeOK, TypeOK', Linked, [Next]_vars PROVE Linked'
  OBVIOUS
<1> USE ConstantsAssumption DEF Linked
<1>1. ASSUME NEW t \in Threads, NEW k \in Clients, Accept(t, k) PROVE Linked'
  <2>1. nextConn \in Conn /\ nextConn \notin live /\ \A j \in Clients : link[j] # nextConn
    BY <1>1 DEF TypeOK, Accept
  <2>2. \A c \in live' : c < nextConn' /\ client'[c] \in Clients
                         /\ device'[c] \in {NoDevice, client'[c]}
    <3>1. /\ client' = [client EXCEPT ![nextConn] = k]
          /\ live' = live \cup {nextConn}
          /\ device' = device /\ nextConn' = nextConn + 1
      BY <1>1 DEF Accept
    <3>2. client'[nextConn] = k /\ device'[nextConn] = NoDevice
      BY <2>1, <3>1 DEF TypeOK
    <3>3. \A c \in live : client'[c] = client[c] /\ c < nextConn'
      BY <2>1, <3>1 DEF TypeOK
    <3> QED
      BY <2>1, <3>1, <3>2, <3>3 DEF TypeOK
  <2>3. \A j \in Clients : link'[j] # NoConn =>
           link'[j] < nextConn' /\ (link'[j] \in live' => client'[link'[j]] = j)
    BY <1>1, <2>1 DEF TypeOK, Accept
  <2>4. \A i, j \in Clients : link'[i] = link'[j] /\ link'[i] # NoConn => i = j
    BY <1>1, <2>1 DEF TypeOK, Accept
  <2> QED
    BY <1>1, <2>1, <2>2, <2>3, <2>4 DEF TypeOK, Accept
<1>2. ASSUME NEW t \in Threads, NEW o \in Users, NEW d \in Changes,
             NEW s \in Clients \cup {NoDevice}, Commit(t, o, d, s)
      PROVE  Linked'
  BY <1>2 DEF Commit, hubVars
<1>3. ASSUME NEW t \in Threads, ThreadStep(t) PROVE Linked'
  BY <1>3 DEF ThreadStep, Gather, Track, SkipGone, Send, Arm, Return, SetWatch, hubVars,
     netVars
<1>4. ASSUME NEW m \in timers, Expire(m[1], m[2]) PROVE Linked'
  <2>1. CASE m[1] \in live /\ m[2] \in pending[m[1]]
    <3>1. m[1] \in Conn /\ Erase(m[1]) /\ UNCHANGED <<link, nextConn>>
      BY <1>4, <2>1 DEF Expire, TypeOK, netVars
    <3> QED
      BY <3>1, EraseLinked
  <2>2. CASE ~(m[1] \in live /\ m[2] \in pending[m[1]])
    BY <1>4, <2>2 DEF Expire, netVars
  <2> QED
    BY <2>1, <2>2
<1>5. ASSUME NEW c \in Conn, Close(c) PROVE Linked'
  <2>1. CASE \E k \in Clients : link[k] = c
    <3> PICK k \in Clients : Unlink(k)
      BY <1>5, <2>1 DEF Close
    <3> QED
      BY <1>5, UnlinkLinked DEF Close
  <2>2. CASE ~ \E k \in Clients : link[k] = c
    BY <1>5, <2>2 DEF Close, hubVars
  <2> QED
    BY <2>1, <2>2
<1>6. ASSUME NEW k \in Clients, HangUp(k) PROVE Linked'
  BY <1>6, UnlinkLinked DEF HangUp
<1>7. ASSUME NEW k \in Clients, Hello(k) PROVE Linked'
  BY <1>7 DEF TypeOK, Hello, Served, netVars
<1>8. ASSUME NEW k \in Clients, NEW w, AskWatch(k, w) PROVE Linked'
  BY <1>8 DEF AskWatch, hubVars, netVars
<1>9. ASSUME NEW c \in Conn, SocketClosed(c) PROVE Linked'
  BY <1>9, EraseLinked DEF SocketClosed, netVars
<1>10. ASSUME NEW a \in acks, Ack(a[1], a[2]) PROVE Linked'
  BY <1>10 DEF Ack
<1>11. ASSUME NEW f \in wire, Deliver(f) PROVE Linked'
  BY <1>11 DEF Deliver, hubVars
<1>12. ASSUME Restart PROVE Linked'
  BY <1>12 DEF Restart, Fresh
<1>13. CASE UNCHANGED vars
  BY <1>13 DEF vars, hubVars, netVars
<1> QED
  BY <1>1, <1>2, <1>3, <1>4, <1>5, <1>6, <1>7, <1>8, <1>9, <1>10, <1>11, <1>12, <1>13
  DEF Next, MainStep

LEMMA BlankStep == TypeOK /\ Blank /\ [Next]_vars => Blank'
<1> SUFFICES ASSUME TypeOK, Blank, [Next]_vars PROVE Blank'
  OBVIOUS
<1> USE DEF Blank
<1>1. ASSUME NEW t \in Threads, NEW k \in Clients, Accept(t, k) PROVE Blank'
  BY <1>1 DEF Accept
<1>2. ASSUME NEW t \in Threads, NEW o \in Users, NEW d \in Changes,
             NEW s \in Clients \cup {NoDevice}, Commit(t, o, d, s)
      PROVE  Blank'
  BY <1>2 DEF Commit, hubVars
<1>3. ASSUME NEW t \in Threads, Track(t) PROVE Blank'
  <2> PICK f \in todo[t] : f.conn \in live
                           /\ pending' = [pending EXCEPT ![f.conn] = @ \cup {nextFrame}]
    BY <1>3 DEF Track
  <2>1. \A c \in Conn : c \notin live => pending'[c] = pending[c]
    BY DEF TypeOK
  <2> QED
    BY <1>3, <2>1 DEF Track
<1>4. ASSUME NEW t \in Threads,
             Gather(t) \/ SkipGone(t) \/ Send(t) \/ Arm(t) \/ Return(t)
      PROVE  Blank'
  BY <1>4 DEF Gather, SkipGone, Send, Arm, Return, hubVars
<1>12. ASSUME NEW t \in Threads, SetWatch(t) PROVE Blank'
  <2>1. CASE ask[t].conn \in live
    <3>1. watch' = [watch EXCEPT ![ask[t].conn] = ask[t].target]
          /\ live' = live /\ pending' = pending
      BY <1>12, <2>1 DEF SetWatch
    <3> QED
      BY <2>1, <3>1 DEF TypeOK
  <2>2. CASE ask[t].conn \notin live
    BY <1>12, <2>2 DEF SetWatch
  <2> QED
    BY <2>1, <2>2
<1>5. ASSUME NEW c \in Conn, Erase(c) PROVE Blank'
  <2>1. \A d \in Conn : pending'[d] = IF d = c THEN {} ELSE pending[d]
    BY <1>5 DEF Erase, TypeOK
  <2>2. \A d \in Conn : watch'[d] = IF d = c THEN {} ELSE watch[d]
    BY <1>5 DEF Erase, TypeOK
  <2>3. live' = live \ {c}
    BY <1>5 DEF Erase
  <2> QED
    BY <2>1, <2>2, <2>3
<1>6. ASSUME NEW m \in timers, Expire(m[1], m[2]) PROVE Blank'
  <2>1. CASE m[1] \in live /\ m[2] \in pending[m[1]]
    <3>1. m[1] \in Conn /\ Erase(m[1])
      BY <1>6, <2>1 DEF Expire, TypeOK
    <3> QED
      BY <1>5, <3>1
  <2>2. CASE ~(m[1] \in live /\ m[2] \in pending[m[1]])
    BY <1>6, <2>2 DEF Expire
  <2> QED
    BY <2>1, <2>2
<1>7. ASSUME NEW c \in Conn, SocketClosed(c) PROVE Blank'
  BY <1>5, <1>7 DEF SocketClosed
<1>8. ASSUME NEW a \in acks, Ack(a[1], a[2]) PROVE Blank'
  <2>1. CASE a[1] \in live
    <3>1. pending' = [pending EXCEPT ![a[1]] = @ \ {a[2]}] /\ live' = live
          /\ watch' = watch
      BY <1>8, <2>1 DEF Ack
    <3> QED
      BY <3>1 DEF TypeOK
  <2>2. CASE a[1] \notin live
    BY <1>8, <2>2 DEF Ack
  <2> QED
    BY <2>1, <2>2
<1>9. CASE UNCHANGED hubVars
  BY <1>9 DEF hubVars
<1>10. ASSUME NEW k \in Clients, Hello(k) PROVE Blank'
  BY <1>10 DEF Hello
<1>11. CASE Restart
  BY <1>11 DEF Restart, Fresh
<1> QED
  <2>1. CASE \/ \E c \in Conn : Close(c)
             \/ \E k \in Clients : HangUp(k) \/ \E w \in {{}} \cup {{x} : x \in MayFollow[k]} : AskWatch(k, w)
             \/ \E f \in wire : Deliver(f)
             \/ UNCHANGED vars
    BY <1>9, <2>1 DEF Close, HangUp, AskWatch, Deliver, vars
  <2> QED
    BY <1>1, <1>2, <1>3, <1>4, <1>6, <1>7, <1>8, <1>10, <1>11, <1>12, <2>1
    DEF Next, ThreadStep, MainStep

LEMMA FrameIdsStep == TypeOK /\ FrameIds /\ [Next]_vars => FrameIds'
<1> SUFFICES ASSUME TypeOK, FrameIds, [Next]_vars PROVE FrameIds'
  OBVIOUS
<1> USE DEF FrameIds
<1>1. ASSUME wire' \subseteq wire, acks' \subseteq acks, nextFrame' = nextFrame, cur' = cur,
             \A t \in Threads : phase'[t] = "send" => phase[t] = "send"
      PROVE  FrameIds'
  BY <1>1
<1>2. ASSUME NEW t \in Threads, Track(t) PROVE FrameIds'
  <2> PICK f \in todo[t] : cur' = [cur EXCEPT ![t] = [f EXCEPT !.id = nextFrame]]
    BY <1>2 DEF Track
  <2>1. cur'[t].id = nextFrame /\ \A s \in Threads : s # t => cur'[s] = cur[s]
    BY DEF TypeOK, Frame
  <2>2. \A s \in Threads : s # t => phase'[s] = phase[s]
    BY <1>2 DEF Track, TypeOK
  <2>3. wire' = wire /\ acks' = acks /\ nextFrame' = nextFrame + 1
    BY <1>2 DEF Track, netVars
  <2>4. /\ \A g \in wire : g.id \in Nat
        /\ \A a \in acks : a[2] \in Nat
        /\ \A s \in Threads : cur[s].id \in Nat
        /\ nextFrame \in Nat
    BY DEF TypeOK, Frame
  <2> QED
    BY <2>1, <2>2, <2>3, <2>4
<1>3. ASSUME NEW t \in Threads, Send(t) PROVE FrameIds'
  <2>1. wire' \subseteq wire \cup {cur[t]} /\ acks' = acks /\ nextFrame' = nextFrame /\ cur' = cur
    BY <1>3 DEF Send, hubVars
  <2>2. phase[t] = "send" /\ \A s \in Threads : phase'[s] = "send" => s # t /\ phase[s] = "send"
    BY <1>3 DEF Send, TypeOK
  <2> QED
    BY <2>1, <2>2
<1>4. ASSUME NEW t \in Threads, Arm(t) PROVE FrameIds'
  <2>1. wire' = wire /\ acks' = acks /\ nextFrame' = nextFrame
    BY <1>4 DEF Arm, hubVars, netVars
  <2>2. \A s \in Threads : phase'[s] = "send" => cur'[s] = cur[s] /\ phase[s] = "send"
    BY <1>4 DEF Arm, TypeOK
  <2> QED
    BY <2>1, <2>2
<1>5. ASSUME NEW f \in wire, Deliver(f) PROVE FrameIds'
  <2>1. wire' = wire \ {f} /\ acks' = acks \cup {<<f.conn, f.id>>}
    BY <1>5 DEF Deliver
  <2>2. nextFrame' = nextFrame /\ cur' = cur /\ phase' = phase
    BY <1>5 DEF Deliver, hubVars, threadVars
  <2> QED
    BY <2>1, <2>2
<1>6. CASE Restart
  BY <1>6 DEF Restart
<1>7. ASSUME NEW k \in Clients, Unlink(k) PROVE wire' \subseteq wire /\ acks' \subseteq acks
  BY <1>7 DEF Unlink
<1>8. ASSUME NEW t \in Threads, NEW k \in Clients, Accept(t, k) PROVE FrameIds'
  <2>1. \A s \in Threads : phase'[s] = "send" => phase[s] = "send"
    BY <1>8 DEF Accept, TypeOK
  <2> QED
    BY <1>1, <1>8, <2>1 DEF Accept
<1>9. ASSUME NEW t \in Threads, NEW o \in Users, NEW d \in Changes,
             NEW s \in Clients \cup {NoDevice}, Commit(t, o, d, s)
      PROVE  FrameIds'
  <2>1. \A r \in Threads : phase'[r] = "send" => phase[r] = "send"
    BY <1>9 DEF Commit, TypeOK
  <2> QED
    BY <1>1, <1>9, <2>1 DEF Commit, hubVars
<1>10. ASSUME NEW t \in Threads, Gather(t) \/ SkipGone(t) \/ Return(t) \/ SetWatch(t)
       PROVE  FrameIds'
  <2>1. \A s \in Threads : phase'[s] = "send" => phase[s] = "send"
    BY <1>10 DEF Gather, SkipGone, Return, SetWatch, TypeOK
  <2> QED
    BY <1>1, <1>10, <2>1 DEF Gather, SkipGone, Return, SetWatch, hubVars, netVars
<1>11. ASSUME NEW m \in timers, Expire(m[1], m[2]) PROVE FrameIds'
  BY <1>1, <1>11 DEF Expire, netVars
<1>12. ASSUME NEW c \in Conn, Close(c) PROVE FrameIds'
  BY <1>1, <1>7, <1>12 DEF Close, hubVars, threadVars
<1>13. ASSUME NEW k \in Clients, HangUp(k) \/ Hello(k) PROVE FrameIds'
  BY <1>1, <1>7, <1>13 DEF HangUp, Hello, hubVars, threadVars, netVars
<1>14. ASSUME NEW k \in Clients, NEW w, AskWatch(k, w) PROVE FrameIds'
  <2>1. \A s \in Threads : phase'[s] = "send" => phase[s] = "send"
    BY <1>14 DEF AskWatch, TypeOK
  <2> QED
    BY <1>1, <1>14, <2>1 DEF AskWatch, hubVars, netVars
<1>15. ASSUME NEW c \in Conn, SocketClosed(c) PROVE FrameIds'
  BY <1>1, <1>15 DEF SocketClosed, netVars
<1>16. ASSUME NEW a \in acks, Ack(a[1], a[2]) PROVE FrameIds'
  BY <1>1, <1>16 DEF Ack, threadVars
<1>17. CASE UNCHANGED vars
  BY <1>1, <1>17 DEF vars, hubVars, threadVars, netVars
<1> QED
  BY <1>2, <1>3, <1>4, <1>5, <1>6, <1>8, <1>9, <1>10, <1>11, <1>12, <1>13, <1>14, <1>15,
     <1>16, <1>17
  DEF Next, ThreadStep, MainStep
----------------------------------------------------------------------------
(* Every pending frame has its timeout *)

LEMMA ArmedStep ==
  TypeOK /\ Blank /\ TrackedFramesArmed /\ [Next]_vars => TrackedFramesArmed'
<1> SUFFICES ASSUME TypeOK, Blank, TrackedFramesArmed, [Next]_vars
             PROVE  TrackedFramesArmed'
  OBVIOUS
<1> DEFINE Arming(c, id) == \E t \in Threads : /\ phase[t] \in {"send", "arm"}
                                               /\ cur[t].conn = c /\ cur[t].id = id
<1>a. \A c \in Conn : \A id \in pending[c] : <<c, id>> \in timers \/ Arming(c, id)
  BY Zenon DEF TrackedFramesArmed
<1>b. SUFFICES ASSUME NEW c \in Conn, NEW id \in pending'[c]
               PROVE  <<c, id>> \in timers' \/ Arming(c, id)'
  BY Zenon DEF TrackedFramesArmed
<1>1. ASSUME pending'[c] \subseteq pending[c], timers \subseteq timers',
             \A t \in Threads : phase[t] \in {"send", "arm"} =>
                 phase'[t] \in {"send", "arm"} /\ cur'[t] = cur[t]
      PROVE  <<c, id>> \in timers' \/ Arming(c, id)'
  BY <1>1, <1>a
<1>2. ASSUME NEW t \in Threads, Track(t) PROVE <<c, id>> \in timers' \/ Arming(c, id)'
  <2> PICK f \in todo[t] :
         /\ f.conn \in live
         /\ cur' = [cur EXCEPT ![t] = [f EXCEPT !.id = nextFrame]]
         /\ pending' = [pending EXCEPT ![f.conn] = @ \cup {nextFrame}]
    BY <1>2 DEF Track
  <2>1. f \in Frame
    BY DEF TypeOK
  <2>2. cur'[t].conn = f.conn /\ cur'[t].id = nextFrame /\ phase'[t] = "send"
    BY <1>2, <2>1 DEF TypeOK, Frame, Track
  <2>3. \A s \in Threads : s # t => cur'[s] = cur[s] /\ phase'[s] = phase[s]
    BY <1>2 DEF TypeOK, Track
  <2>4. phase[t] = "each" /\ timers' = timers
    BY <1>2 DEF Track, mainVars
  <2>5. id \in pending[c] \/ (c = f.conn /\ id = nextFrame)
    BY DEF TypeOK
  <2> QED
    BY <1>a, <2>2, <2>3, <2>4, <2>5
<1>3. ASSUME NEW t \in Threads, Send(t) PROVE <<c, id>> \in timers' \/ Arming(c, id)'
  BY <1>1, <1>3 DEF TypeOK, Send, hubVars, mainVars
<1>4. ASSUME NEW t \in Threads, Arm(t) PROVE <<c, id>> \in timers' \/ Arming(c, id)'
  <2>1. pending' = pending /\ timers' = timers \cup {<<cur[t].conn, cur[t].id>>}
    BY <1>4 DEF Arm, hubVars
  <2>2. \A s \in Threads : s # t => cur'[s] = cur[s] /\ phase'[s] = phase[s]
    BY <1>4 DEF TypeOK, Arm
  <2>3. phase[t] = "arm" /\ id \in pending[c]
    BY <1>4, <2>1 DEF Arm
  <2> QED
    BY <1>a, <2>1, <2>2, <2>3
<1>5. ASSUME NEW e \in Conn, Erase(e) PROVE \A d \in Conn : pending'[d] \subseteq pending[d]
                                            /\ pending'[e] = {}
  BY <1>5 DEF TypeOK, Erase
<1>6. ASSUME NEW m \in timers, Expire(m[1], m[2]) PROVE <<c, id>> \in timers' \/ Arming(c, id)'
  <2>1. timers' = timers \ {<<m[1], m[2]>>} /\ phase' = phase /\ cur' = cur
    BY <1>6 DEF Expire
  <2>2. CASE m[1] \in live /\ m[2] \in pending[m[1]]
    <3>1. m[1] \in Conn /\ Erase(m[1])
      BY <1>6, <2>2 DEF Expire, TypeOK
    <3>2. pending'[m[1]] = {} /\ \A d \in Conn : pending'[d] \subseteq pending[d]
      BY <1>5, <3>1
    <3> QED
      BY <1>a, <2>1, <3>2
  <2>3. CASE ~(m[1] \in live /\ m[2] \in pending[m[1]])
    <3>1. pending' = pending
      BY <1>6, <2>3 DEF Expire
    <3>2. m[1] \in Conn => m[2] \notin pending[m[1]]
      BY <2>3 DEF Blank
    <3> QED
      BY <1>a, <2>1, <3>1, <3>2
  <2> QED
    BY <2>2, <2>3
<1>7. ASSUME NEW e \in Conn, SocketClosed(e) PROVE <<c, id>> \in timers' \/ Arming(c, id)'
  BY <1>1, <1>5, <1>7 DEF SocketClosed, mainVars
<1>8. ASSUME NEW a \in acks, Ack(a[1], a[2]) PROVE <<c, id>> \in timers' \/ Arming(c, id)'
  <2>1. pending'[c] \subseteq pending[c]
    BY <1>8 DEF TypeOK, Ack
  <2> QED
    BY <1>1, <1>8, <2>1 DEF Ack, threadVars, mainVars
<1>9. ASSUME Restart PROVE FALSE
  BY <1>9 DEF Restart, Fresh
<1>10. ASSUME NEW t \in Threads, NEW k \in Clients, Accept(t, k) PROVE <<c, id>> \in timers' \/ Arming(c, id)'
  BY <1>1, <1>10 DEF TypeOK, Accept, mainVars
<1>11. ASSUME NEW t \in Threads, NEW o \in Users, NEW d \in Changes,
              NEW s \in Clients \cup {NoDevice}, Commit(t, o, d, s)
       PROVE  <<c, id>> \in timers' \/ Arming(c, id)'
  BY <1>1, <1>11 DEF TypeOK, Commit, hubVars, mainVars
<1>12. ASSUME NEW t \in Threads, Gather(t) \/ SkipGone(t) \/ Return(t) \/ SetWatch(t)
       PROVE  <<c, id>> \in timers' \/ Arming(c, id)'
  BY <1>1, <1>12 DEF TypeOK, Gather, SkipGone, Return, SetWatch, hubVars, mainVars
<1>13. ASSUME NEW k \in Clients, NEW w, AskWatch(k, w) PROVE <<c, id>> \in timers' \/ Arming(c, id)'
  BY <1>1, <1>13 DEF TypeOK, AskWatch, Served, hubVars, mainVars
<1>14. CASE \/ \E e \in Conn : Close(e)
            \/ \E k \in Clients : HangUp(k) \/ Hello(k)
            \/ \E f \in wire : Deliver(f)
            \/ UNCHANGED vars
  BY <1>1, <1>14 DEF Close, HangUp, Hello, Deliver, vars, hubVars, threadVars, mainVars
<1> QED
  BY <1>2, <1>3, <1>4, <1>6, <1>7, <1>8, <1>9, <1>10, <1>11, <1>12, <1>13, <1>14
  DEF Next, ThreadStep, MainStep
----------------------------------------------------------------------------
(* No change is lost silently *)

\* The body of OwedWhatItMissed for one client.
Good(k) == link[k] # NoConn =>
    IF link[k] \in live
      THEN \A m \in missed[k] : Concerns(k, m) => OwedTo(k, m)
      ELSE link[k] \in closing

LEMMA GoodIs == OwedWhatItMissed <=> \A k \in Clients : Good(k)
  BY Zenon DEF OwedWhatItMissed, Good

\* A step that leaves client k's link, connection and watch alone and lets
\* nothing it is owed slip keeps k good.
LEMMA KeepGood ==
  ASSUME NEW k \in Clients, Good(k), link'[k] = link[k],
         link[k] \in live <=> link[k] \in live',
         link[k] \in live => watch'[link[k]] = watch[link[k]],
         link[k] \notin live => (link[k] \in closing => link[k] \in closing'),
         missed'[k] \subseteq missed[k],
         link[k] \in live => \A m \in missed'[k] : OwedTo(k, m) => OwedTo(k, m)'
  PROVE  Good(k)'
<1>1. \A m : link[k] \in live => (Concerns(k, m)' <=> Concerns(k, m))
  BY DEF Concerns, Follows
<1> QED
  BY <1>1 DEF Good

\* What is owed lives in the threads' phases, operations, targets and frames, in
\* the wire and in the pending sets: a step that touches none of them keeps it.
LEMMA KeepOwed ==
  ASSUME NEW k \in Clients, NEW m, link'[k] = link[k], OwedTo(k, m),
         \A t \in Threads : phase[t] \in {"notify", "each", "send", "arm"} =>
            phase'[t] = phase[t] /\ op'[t] = op[t] /\ todo'[t] = todo[t] /\ cur'[t] = cur[t],
         \A f \in wire : f.conn = link[k] /\ f.id \in pending[link[k]]
                            /\ Covers(f, m[1], m[2])
                         => f \in wire' /\ f.id \in pending'[link[k]],
         \A t \in Threads : phase[t] = "send" /\ cur[t].conn = link[k]
                               /\ cur[t].id \in pending[link[k]]
                         => cur[t].id \in pending'[link[k]]
  PROVE  OwedTo(k, m)'
<1>1. CASE \E t \in Threads : Announces(t, k, m[1], m[2])
  BY <1>1 DEF OwedTo, Announces
<1>2. CASE InHand(link[k], m[1], m[2])
  <2>1. CASE \E t \in Threads : \E f \in todo[t] :
                phase[t] \in {"each", "send", "arm"} /\ f.conn = link[k] /\ Covers(f, m[1], m[2])
    BY <2>1 DEF OwedTo, InHand, Covers
  <2>2. CASE \E t \in Threads :
                /\ phase[t] = "send" /\ cur[t].conn = link[k]
                /\ cur[t].id \in pending[link[k]] /\ Covers(cur[t], m[1], m[2])
    BY <2>2 DEF OwedTo, InHand, Covers
  <2>3. CASE \E f \in wire : f.conn = link[k] /\ f.id \in pending[link[k]]
                              /\ Covers(f, m[1], m[2])
    BY <2>3 DEF OwedTo, InHand, Covers
  <2> QED
    BY <1>2, <2>1, <2>2, <2>3 DEF InHand
<1> QED
  BY <1>1, <1>2 DEF OwedTo

\* Everything the main theorem needs to hold at every step.
IInv == TypeOK /\ Linked /\ Blank /\ FrameIds /\ TrackedFramesArmed /\ OwedWhatItMissed

LEMMA OwedAccept ==
  ASSUME IInv, NEW t \in Threads, NEW j \in Clients, Accept(t, j), NEW k \in Clients
  PROVE  Good(k)'
<1> USE ConstantsAssumption
<1>0. TypeOK /\ Good(k) /\ Blank /\ Linked
  BY GoodIs DEF IInv
<1>1. /\ nextConn \in Conn /\ nextConn \notin live
      /\ link' = [link EXCEPT ![j] = nextConn] /\ live' = live \cup {nextConn}
      /\ watch' = watch /\ missed' = missed /\ closing' = closing
      /\ wire' = wire /\ pending' = pending /\ op' = op /\ cur' = cur
      /\ phase[t] = "idle"
  BY <1>0 DEF Accept, TypeOK, mainVars, Linked
<1>2. \A s \in Threads : s # t => phase'[s] = phase[s] /\ todo'[s] = todo[s]
  BY <1>0 DEF Accept, TypeOK
<1>3. CASE k # j
  <2>1. link'[k] = link[k] /\ link[k] # nextConn
    <3>1. link'[k] = link[k]
      BY <1>0, <1>1, <1>3 DEF TypeOK
    <3>2. link[k] = NoConn \/ link[k] < nextConn
      BY <1>0 DEF Linked
    <3> QED
      BY <1>0, <1>1, <3>1, <3>2 DEF TypeOK
  <2>2. \A m \in missed[k] : OwedTo(k, m) => OwedTo(k, m)'
    BY <1>1, <1>2, <2>1, KeepOwed
  <2> QED
    BY <1>0, <1>1, <2>1, <2>2, KeepGood
<1>4. CASE k = j
  <2>1. link'[k] = nextConn /\ watch'[nextConn] = {}
    BY <1>0, <1>1, <1>4 DEF TypeOK, Blank
  <2>2. ASSUME NEW m \in missed'[k], Concerns(k, m)' PROVE OwedTo(k, m)'
    <3>1. m[1] = UserOf[k] /\ m[1] \in Users
      BY <1>0, <1>1, <2>1, <2>2 DEF Concerns, Follows, TypeOK
    <3>2. /\ todo' = [todo EXCEPT ![t] =
                {[id |-> 0, conn |-> nextConn, owner |-> UserOf[k], paths |-> {}]}]
          /\ phase' = [phase EXCEPT ![t] = "each"]
      BY <1>4, <3>1 DEF Accept
    <3> DEFINE f == [id |-> 0, conn |-> nextConn, owner |-> UserOf[k], paths |-> {}]
    <3>3. f \in todo'[t] /\ phase'[t] = "each"
      BY <1>0, <3>2 DEF TypeOK
    <3>4. f.conn = link'[k] /\ Covers(f, m[1], m[2])
      BY <2>1, <3>1 DEF Covers
    <3> QED
      BY <3>3, <3>4 DEF OwedTo, InHand, Covers
  <2> QED
    BY <1>1, <2>1, <2>2 DEF Good
<1> QED
  BY <1>3, <1>4

LEMMA OwedCommit ==
  ASSUME IInv, NEW t \in Threads, NEW o \in Users, NEW d \in Changes,
         NEW s \in Clients \cup {NoDevice}, Commit(t, o, d, s), NEW k \in Clients
  PROVE  Good(k)'
<1> USE ConstantsAssumption
<1>0. TypeOK /\ Good(k)
  BY GoodIs DEF IInv
<1>1. /\ link' = link /\ live' = live /\ watch' = watch /\ closing' = closing
      /\ wire' = wire /\ pending' = pending /\ todo' = todo /\ cur' = cur
      /\ phase[t] = "idle" /\ phase'[t] = "notify"
      /\ op'[t] = [owner |-> o, touched |-> d.touched, told |-> d.told, origin |-> s]
  BY <1>0 DEF Commit, TypeOK, hubVars, mainVars
<1>2. \A r \in Threads : r # t => phase'[r] = phase[r] /\ op'[r] = op[r]
  BY <1>0 DEF Commit, TypeOK
<1>3. \A m : OwedTo(k, m) => OwedTo(k, m)'
  BY <1>1, <1>2, KeepOwed
<1>4. \A m : Concerns(k, m)' <=> Concerns(k, m)
  BY <1>1 DEF Concerns, Follows
<1>5. ASSUME NEW m \in missed'[k], m \notin missed[k] PROVE OwedTo(k, m)'
  <2>1. /\ k # s /\ m[1] = o /\ m[2] \in d.touched
        /\ UserOf[k] = o \/ m[2] \in d.told
    BY <1>5 DEF Commit
  <2>2. Announces(t, k, m[1], m[2])'
    BY <1>1, <2>1 DEF Announces
  <2> QED
    BY <2>2 DEF OwedTo, Announces
<1> QED
  BY <1>0, <1>1, <1>3, <1>4, <1>5 DEF Good

LEMMA OwedGather ==
  ASSUME IInv, NEW t \in Threads, Gather(t), NEW k \in Clients
  PROVE  Good(k)'
<1> USE ConstantsAssumption
<1>0. TypeOK /\ Good(k) /\ Linked
  BY GoodIs DEF IInv
<1>1. /\ link' = link /\ live' = live /\ watch' = watch /\ closing' = closing
      /\ wire' = wire /\ pending' = pending /\ cur' = cur /\ missed' = missed
      /\ phase[t] = "notify" /\ phase'[t] = "each"
  BY <1>0 DEF Gather, TypeOK, hubVars, mainVars, netVars
<1>2. \A r \in Threads : r # t => phase'[r] = phase[r] /\ op'[r] = op[r] /\ todo'[r] = todo[r]
  BY <1>0 DEF Gather, TypeOK
<1>3. ASSUME link[k] \in live, NEW m \in missed[k], Concerns(k, m),
             Announces(t, k, m[1], m[2])
      PROVE  OwedTo(k, m)'
  <2> DEFINE c == link[k]
             f == [id |-> 0, conn |-> c, owner |-> op[t].owner, paths |-> ListFor(c, op[t])]
  <2>1. c \in Conn /\ client[c] = k /\ UserId(c) = UserOf[k]
    BY <1>0, <1>3 DEF TypeOK, Linked, UserId
  <2>2. ~IsOrigin(c, op[t].origin)
    BY <1>0, <1>3, <2>1 DEF IsOrigin, Announces, Linked
  <2>3. op[t].owner = m[1] /\ m[2] \in op[t].touched
        /\ (op[t].told = {} \/ op[t].told = op[t].touched)
    BY <1>0, <1>3 DEF Announces, TypeOK, Operation
  <2>4. UserId(c) = op[t].owner \/ m[2] \in Visible(c, op[t])
    BY <1>3, <2>1, <2>3 DEF Concerns, Announces, Visible
  <2>5. f \in todo'[t]
    BY <1>0, <1>3, <2>2, <2>4 DEF Gather, TypeOK
  <2>6. Covers(f, m[1], m[2])
    BY <2>3, <2>4 DEF Covers, ListFor, Visible
  <2>7. f.conn = link'[k]
    BY <1>1
  <2> QED
    BY <1>1, <2>5, <2>6, <2>7 DEF OwedTo, InHand, Covers
<1>4. ASSUME NEW m, OwedTo(k, m), ~Announces(t, k, m[1], m[2]) PROVE OwedTo(k, m)'
  <2>1. CASE \E r \in Threads : r # t /\ Announces(r, k, m[1], m[2])
    BY <1>2, <2>1 DEF OwedTo, Announces
  <2>2. CASE InHand(link[k], m[1], m[2])
    BY <1>1, <1>2, <2>2 DEF OwedTo, InHand, Covers
  <2> QED
    BY <1>4, <2>1, <2>2 DEF OwedTo
<1>5. \A m : Concerns(k, m)' <=> Concerns(k, m)
  BY <1>1 DEF Concerns, Follows
<1> QED
  BY <1>0, <1>1, <1>3, <1>4, <1>5 DEF Good

LEMMA OwedTrack ==
  ASSUME IInv, NEW t \in Threads, Track(t), NEW k \in Clients
  PROVE  Good(k)'
<1>0. TypeOK /\ Good(k)
  BY GoodIs DEF IInv
<1> PICK f \in todo[t] :
       /\ f.conn \in live
       /\ cur' = [cur EXCEPT ![t] = [f EXCEPT !.id = nextFrame]]
       /\ pending' = [pending EXCEPT ![f.conn] = @ \cup {nextFrame}]
       /\ todo' = [todo EXCEPT ![t] = @ \ {f}]
  BY DEF Track
<1>1. /\ link' = link /\ live' = live /\ watch' = watch /\ closing' = closing
      /\ wire' = wire /\ missed' = missed /\ op' = op
      /\ phase[t] = "each" /\ phase'[t] = "send" /\ todo'[t] = todo[t] \ {f}
  BY <1>0 DEF Track, TypeOK, mainVars, netVars
<1>2. \A r \in Threads : r # t => phase'[r] = phase[r] /\ todo'[r] = todo[r]
                                  /\ cur'[r] = cur[r]
  BY <1>0 DEF Track, TypeOK
<1>3. /\ f \in Frame /\ cur'[t] = [f EXCEPT !.id = nextFrame]
      /\ nextFrame \in pending'[f.conn]
      /\ \A c \in Conn : pending[c] \subseteq pending'[c]
  BY <1>0 DEF TypeOK
<1>4. ASSUME NEW m, OwedTo(k, m), link[k] \in live PROVE OwedTo(k, m)'
  <2>1. CASE \E r \in Threads : Announces(r, k, m[1], m[2])
    BY <1>1, <1>2, <2>1 DEF OwedTo, Announces
  <2>2. CASE \E r \in Threads : \E g \in todo[r] :
                phase[r] \in {"each", "send", "arm"} /\ g.conn = link[k] /\ Covers(g, m[1], m[2])
    <3> PICK r \in Threads : \E g \in todo[r] :
           phase[r] \in {"each", "send", "arm"} /\ g.conn = link[k] /\ Covers(g, m[1], m[2])
      BY <2>2
    <3> PICK g \in todo[r] :
           phase[r] \in {"each", "send", "arm"} /\ g.conn = link[k] /\ Covers(g, m[1], m[2])
      OBVIOUS
    <3>1. CASE r = t /\ g = f
      <4>1. cur'[t].conn = link'[k] /\ cur'[t].id \in pending'[link'[k]]
        BY <1>1, <1>3, <3>1 DEF Frame
      <4>2. cur'[t].owner = g.owner /\ cur'[t].paths = g.paths
        BY <1>3, <3>1 DEF Frame
      <4> QED
        BY <1>1, <4>1, <4>2 DEF OwedTo, InHand, Covers
    <3>2. CASE ~(r = t /\ g = f)
      BY <1>1, <1>2, <3>2 DEF OwedTo, InHand, Covers
    <3> QED
      BY <3>1, <3>2
  <2>3. CASE \E r \in Threads :
                /\ phase[r] = "send" /\ cur[r].conn = link[k]
                /\ cur[r].id \in pending[link[k]] /\ Covers(cur[r], m[1], m[2])
    <3> PICK r \in Threads : /\ phase[r] = "send" /\ cur[r].conn = link[k]
                             /\ cur[r].id \in pending[link[k]] /\ Covers(cur[r], m[1], m[2])
      BY <2>3
    <3>1. r # t /\ phase'[r] = "send" /\ cur'[r] = cur[r] /\ cur[r].id \in pending'[link[k]]
      BY <1>0, <1>1, <1>2, <1>3, <1>4 DEF TypeOK
    <3> QED
      BY <1>1, <3>1 DEF OwedTo, InHand, Covers
  <2>4. CASE \E g \in wire : g.conn = link[k] /\ g.id \in pending[link[k]]
                              /\ Covers(g, m[1], m[2])
    <3>1. pending[link[k]] \subseteq pending'[link[k]]
      BY <1>0, <1>3, <1>4 DEF TypeOK
    <3> QED
      BY <1>1, <2>4, <3>1 DEF OwedTo, InHand, Covers
  <2> QED
    BY <1>4, <2>1, <2>2, <2>3, <2>4 DEF OwedTo, InHand
<1> QED
  BY <1>0, <1>1, <1>4, KeepGood

LEMMA OwedSkipGone ==
  ASSUME IInv, NEW t \in Threads, SkipGone(t), NEW k \in Clients
  PROVE  Good(k)'
<1>0. TypeOK /\ Good(k)
  BY GoodIs DEF IInv
<1> PICK f \in todo[t] : f.conn \notin live /\ todo' = [todo EXCEPT ![t] = @ \ {f}]
  BY DEF SkipGone
<1>1. /\ link' = link /\ live' = live /\ watch' = watch /\ closing' = closing
      /\ wire' = wire /\ missed' = missed /\ op' = op /\ phase' = phase /\ cur' = cur
      /\ pending' = pending
  BY DEF SkipGone, hubVars, mainVars, netVars
<1>2. \A r \in Threads : \A g \in todo[r] : g \in todo'[r] \/ g.conn \notin live
  BY <1>0 DEF TypeOK
<1>3. ASSUME NEW m, OwedTo(k, m), link[k] \in live PROVE OwedTo(k, m)'
  <2>1. CASE \E r \in Threads : Announces(r, k, m[1], m[2])
    BY <1>1, <2>1 DEF OwedTo, Announces
  <2>2. CASE InHand(link[k], m[1], m[2])
    BY <1>1, <1>2, <1>3, <2>2 DEF OwedTo, InHand, Covers
  <2> QED
    BY <1>3, <2>1, <2>2 DEF OwedTo
<1> QED
  BY <1>0, <1>1, <1>3, KeepGood

LEMMA OwedSend ==
  ASSUME IInv, NEW t \in Threads, Send(t), NEW k \in Clients
  PROVE  Good(k)'
<1>0. TypeOK /\ Good(k)
  BY GoodIs DEF IInv
<1>1. /\ link' = link /\ live' = live /\ watch' = watch /\ closing' = closing
      /\ missed' = missed /\ op' = op /\ todo' = todo /\ cur' = cur /\ pending' = pending
      /\ wire \subseteq wire'
      /\ link[k] = cur[t].conn => cur[t] \in wire'
      /\ phase[t] = "send" /\ phase'[t] = "arm"
  BY <1>0 DEF Send, TypeOK, hubVars, mainVars
<1>2. \A r \in Threads : r # t => phase'[r] = phase[r]
  BY <1>0 DEF Send, TypeOK
<1>3. ASSUME NEW m, OwedTo(k, m) PROVE OwedTo(k, m)'
  <2>1. CASE \E r \in Threads : Announces(r, k, m[1], m[2])
    BY <1>1, <1>2, <2>1 DEF OwedTo, Announces
  <2>2. CASE InHand(link[k], m[1], m[2])
    BY <1>1, <1>2, <2>2 DEF OwedTo, InHand, Covers
  <2> QED
    BY <1>3, <2>1, <2>2 DEF OwedTo
<1> QED
  BY <1>0, <1>1, <1>3, KeepGood

LEMMA OwedArmReturn ==
  ASSUME IInv, NEW t \in Threads, Arm(t) \/ Return(t), NEW k \in Clients
  PROVE  Good(k)'
<1>0. TypeOK /\ Good(k)
  BY GoodIs DEF IInv
<1>1. /\ link' = link /\ live' = live /\ watch' = watch /\ closing' = closing
      /\ missed' = missed /\ op' = op /\ todo' = todo /\ pending' = pending /\ wire' = wire
      /\ \/ phase[t] = "arm" /\ phase'[t] = "each"
         \/ phase[t] = "each" /\ todo[t] = {}
  BY <1>0 DEF Arm, Return, TypeOK, hubVars, mainVars, netVars
<1>2. \A r \in Threads : r # t => phase'[r] = phase[r] /\ cur'[r] = cur[r]
  BY <1>0 DEF Arm, Return, TypeOK
<1>3. ASSUME NEW m, OwedTo(k, m) PROVE OwedTo(k, m)'
  <2>1. CASE \E r \in Threads : Announces(r, k, m[1], m[2])
    BY <1>1, <1>2, <2>1 DEF OwedTo, Announces
  <2>2. CASE InHand(link[k], m[1], m[2])
    BY <1>1, <1>2, <2>2 DEF OwedTo, InHand, Covers
  <2> QED
    BY <1>3, <2>1, <2>2 DEF OwedTo
<1> QED
  BY <1>0, <1>1, <1>3, KeepGood

LEMMA OwedSetWatch ==
  ASSUME IInv, NEW t \in Threads, SetWatch(t), NEW k \in Clients
  PROVE  Good(k)'
<1>0. TypeOK /\ Good(k)
  BY GoodIs DEF IInv
<1> DEFINE c == ask[t].conn
<1>1. /\ link' = link /\ live' = live /\ closing' = closing
      /\ op' = op /\ todo' = todo /\ cur' = cur /\ pending' = pending /\ wire' = wire
      /\ phase[t] = "resolve"
  BY DEF SetWatch, mainVars
<1>2. \A r \in Threads : r # t => phase'[r] = phase[r]
  BY <1>0 DEF SetWatch, TypeOK
<1>3. \A m : OwedTo(k, m) => OwedTo(k, m)'
  BY <1>1, <1>2, KeepOwed
<1>4. CASE c \in live /\ link[k] = c
  <2>1. \A m \in missed'[k] : m \in missed[k] /\ m[1] = UserOf[k]
    BY <1>4 DEF SetWatch
  <2> QED
    BY <1>0, <1>1, <1>3, <1>4, <2>1 DEF Good, Concerns
<1>5. CASE ~(c \in live /\ link[k] = c)
  <2>1. missed'[k] = missed[k]
    BY <1>0, <1>5 DEF SetWatch, TypeOK
  <2>2. link[k] \in live => watch'[link[k]] = watch[link[k]]
    BY <1>0, <1>5 DEF SetWatch, TypeOK
  <2> QED
    BY <1>0, <1>1, <1>3, <2>1, <2>2, KeepGood
<1> QED
  BY <1>4, <1>5

LEMMA OwedErase ==
  ASSUME IInv, NEW c \in Conn, Erase(c), UNCHANGED <<phase, op, todo, cur, netVars>>,
         NEW k \in Clients, link[k] # c, closing' = closing \/ (closing = {} /\ link[k] \in live)
  PROVE  Good(k)'
<1>0. TypeOK /\ Good(k)
  BY GoodIs DEF IInv
<1>1. /\ link' = link /\ missed' = missed /\ op' = op /\ todo' = todo /\ cur' = cur
      /\ wire' = wire /\ phase' = phase /\ live' = live \ {c}
  BY DEF Erase, netVars
<1>2. link[k] \in Conn => watch'[link[k]] = watch[link[k]] /\ pending'[link[k]] = pending[link[k]]
  BY <1>0 DEF Erase, TypeOK
<1>3. ASSUME NEW m, link[k] \in live, OwedTo(k, m) PROVE OwedTo(k, m)'
  <2>1. link[k] \in Conn
    BY <1>0, <1>3 DEF TypeOK
  <2> QED
    BY <1>1, <1>2, <1>3, <2>1, KeepOwed
<1>4. link[k] \in live => link[k] \in Conn
  BY <1>0 DEF TypeOK
<1> QED
  BY <1>0, <1>1, <1>2, <1>3, <1>4, KeepGood

LEMMA OwedExpire ==
  ASSUME IInv, NEW m \in timers, Expire(m[1], m[2]), NEW k \in Clients
  PROVE  Good(k)'
<1>0. TypeOK /\ Good(k)
  BY GoodIs DEF IInv
<1>1. CASE m[1] \in live /\ m[2] \in pending[m[1]]
  <2>1. /\ m[1] \in Conn /\ Erase(m[1]) /\ closing = {} /\ closing' = {m[1]}
        /\ UNCHANGED <<phase, op, todo, cur, netVars>>
    BY <1>0, <1>1 DEF Expire, TypeOK
  <2>2. CASE link[k] = m[1]
    BY <2>1, <2>2 DEF Good, Erase, netVars
  <2>3. CASE link[k] # m[1] /\ link[k] = NoConn
    BY <2>1, <2>3 DEF Good, netVars
  <2>4. CASE link[k] # m[1] /\ link[k] # NoConn
    <3>1. link[k] \in live
      BY <1>0, <2>1, <2>4 DEF Good
    <3> QED
      BY <2>1, <2>4, <3>1, OwedErase
  <2> QED
    BY <2>2, <2>3, <2>4
<1>2. CASE ~(m[1] \in live /\ m[2] \in pending[m[1]])
  <2>1. /\ UNCHANGED <<live, pending, watch, closing, phase, op, todo, cur>>
        /\ UNCHANGED <<link, wire, missed>>
    BY <1>2 DEF Expire, netVars
  <2>2. \A n : OwedTo(k, n) => OwedTo(k, n)'
    BY <2>1, KeepOwed
  <2> QED
    BY <1>0, <2>1, <2>2, KeepGood
<1> QED
  BY <1>1, <1>2

LEMMA OwedUnlink ==
  ASSUME IInv, NEW j \in Clients, Unlink(j), link[j] # NoConn, NEW k \in Clients,
         UNCHANGED <<hubVars, threadVars, missed>>, closing \subseteq closing' \cup {link[j]}
  PROVE  Good(k)'
<1>0. TypeOK /\ Good(k) /\ Linked
  BY GoodIs DEF IInv
<1>1. CASE k = j
  <2>1. link'[k] = NoConn
    BY <1>0, <1>1 DEF Unlink, TypeOK
  <2> QED
    BY <2>1 DEF Good
<1>2. CASE k # j
  <2>1. link'[k] = link[k] /\ link[k] # link[j]
    BY <1>0, <1>2 DEF Unlink, TypeOK, Linked
  <2>2. \A f \in wire : f.conn = link[k] => f \in wire'
    BY <2>1 DEF Unlink
  <2>3. \A m : OwedTo(k, m) => OwedTo(k, m)'
    BY <2>1, <2>2, KeepOwed DEF hubVars, threadVars
  <2> QED
    BY <1>0, <2>1, <2>3, KeepGood DEF hubVars
<1> QED
  BY <1>1, <1>2

LEMMA OwedClose ==
  ASSUME IInv, NEW c \in Conn, Close(c), NEW k \in Clients
  PROVE  Good(k)'
<1>1. CASE \E j \in Clients : link[j] = c
  <2> PICK j \in Clients : link[j] = c /\ Unlink(j)
    BY <1>1 DEF Close
  <2>1. link[j] # NoConn /\ closing \subseteq closing' \cup {link[j]}
        /\ UNCHANGED <<hubVars, threadVars, missed>>
    BY DEF Close
  <2> QED
    BY <2>1, OwedUnlink
<1>2. CASE ~ \E j \in Clients : link[j] = c
  <2>1. /\ UNCHANGED <<hubVars, threadVars>>
        /\ UNCHANGED <<link, wire, missed>>
        /\ closing' = closing \ {c} /\ link[k] # c
    BY <1>2 DEF Close
  <2>2. \A m : OwedTo(k, m) => OwedTo(k, m)'
    BY <2>1, KeepOwed DEF hubVars, threadVars
  <2> QED
    BY <2>1, <2>2, KeepGood, GoodIs DEF IInv, hubVars
<1> QED
  BY <1>1, <1>2

LEMMA OwedAck ==
  ASSUME IInv, NEW a \in acks, Ack(a[1], a[2]), NEW k \in Clients
  PROVE  Good(k)'
<1>0. TypeOK /\ Good(k) /\ FrameIds
  BY GoodIs DEF IInv
<1>1. /\ UNCHANGED <<live, watch, threadVars, mainVars>>
      /\ UNCHANGED <<link, wire, missed>>
  BY DEF Ack
<1>2. \A c \in Conn : \A id \in pending[c] : id # a[2] => id \in pending'[c]
  BY <1>0 DEF Ack, TypeOK
<1>3. /\ \A f \in wire : f.id # a[2]
      /\ \A t \in Threads : phase[t] = "send" => cur[t].id # a[2]
  BY <1>0 DEF FrameIds
<1>4. ASSUME NEW m, link[k] \in live, OwedTo(k, m) PROVE OwedTo(k, m)'
  <2>1. link[k] \in Conn
    BY <1>0, <1>4 DEF TypeOK
  <2> QED
    BY <1>1, <1>2, <1>3, <1>4, <2>1, KeepOwed DEF threadVars
<1> QED
  BY <1>0, <1>1, <1>4, KeepGood DEF mainVars

LEMMA OwedDeliver ==
  ASSUME IInv, NEW f \in wire, Deliver(f), NEW k \in Clients
  PROVE  Good(k)'
<1>0. TypeOK /\ Good(k)
  BY GoodIs DEF IInv
<1>1. /\ UNCHANGED <<hubVars, threadVars, mainVars, link>>
      /\ wire' = wire \ {f}
  BY DEF Deliver
<1>2. missed'[k] = IF link[k] = f.conn THEN {m \in missed[k] : ~Covers(f, m[1], m[2])}
                   ELSE missed[k]
  BY DEF Deliver
<1>3. ASSUME NEW m \in missed'[k], OwedTo(k, m) PROVE OwedTo(k, m)'
  <2>1. ~(f.conn = link[k] /\ Covers(f, m[1], m[2]))
    BY <1>2, <1>3
  <2>2. \A g \in wire : g.conn = link[k] /\ Covers(g, m[1], m[2]) => g \in wire'
    BY <1>1, <2>1
  <2> QED
    BY <1>1, <1>3, <2>2, KeepOwed DEF hubVars, threadVars
<1> QED
  BY <1>0, <1>1, <1>2, <1>3, KeepGood DEF hubVars, mainVars

LEMMA OwedIdle ==
  ASSUME IInv, NEW k \in Clients,
         UNCHANGED <<live, pending, watch, op, todo, cur, closing>>,
         UNCHANGED <<link, wire, missed>>,
         \A t \in Threads : phase[t] # "idle" => phase'[t] = phase[t]
  PROVE  Good(k)'
<1>1. \A m : OwedTo(k, m) => OwedTo(k, m)'
  BY KeepOwed
<1> QED
  BY <1>1, KeepGood, GoodIs DEF IInv

LEMMA OwedStep == IInv /\ [Next]_vars => OwedWhatItMissed'
<1> SUFFICES ASSUME IInv, [Next]_vars, NEW k \in Clients PROVE Good(k)'
  BY GoodIs DEF Good, OwedWhatItMissed, OwedTo, InHand, Announces, Concerns, Follows, Covers
<1>0. TypeOK
  BY DEF IInv
<1>1. ASSUME NEW j \in Clients, HangUp(j) PROVE Good(k)'
  BY <1>1, OwedUnlink DEF HangUp, mainVars
<1>2. ASSUME NEW j \in Clients, Hello(j) PROVE Good(k)'
  BY <1>2, OwedIdle DEF Hello, threadVars, mainVars, netVars
<1>3. ASSUME NEW j \in Clients, NEW w, AskWatch(j, w) PROVE Good(k)'
  <2>1. \A t \in Threads : phase[t] # "idle" => phase'[t] = phase[t]
    BY <1>0, <1>3 DEF AskWatch, Served, TypeOK
  <2> QED
    BY <1>3, <2>1, OwedIdle DEF AskWatch, hubVars, mainVars, netVars
<1>4. ASSUME NEW c \in Conn, SocketClosed(c) PROVE Good(k)'
  BY <1>4, OwedErase DEF SocketClosed, mainVars
<1>5. CASE Restart
  BY <1>5 DEF Restart, Good
<1>6. CASE UNCHANGED vars
  BY <1>6, OwedIdle DEF vars, hubVars, threadVars, mainVars, netVars
<1> QED
  BY <1>1, <1>2, <1>3, <1>4, <1>5, <1>6, OwedAccept, OwedCommit, OwedGather, OwedTrack,
     OwedSkipGone, OwedSend, OwedArmReturn, OwedSetWatch, OwedExpire, OwedClose, OwedAck,
     OwedDeliver
  DEF Next, ThreadStep, MainStep

LEMMA InvInit == Init => IInv
<1> SUFFICES ASSUME Init PROVE IInv
  OBVIOUS
<1> USE ConstantsAssumption DEF Init, Fresh
<1>1. TypeOK
  BY TypeInit
<1>2. Linked /\ Blank
  BY DEF Linked, Blank
<1>3. FrameIds
  BY DEF FrameIds
<1>4. TrackedFramesArmed /\ OwedWhatItMissed
  BY DEF TrackedFramesArmed, OwedWhatItMissed
<1> QED
  BY <1>1, <1>2, <1>3, <1>4 DEF IInv

LEMMA InvStep == IInv /\ [Next]_vars => IInv'
<1> SUFFICES ASSUME IInv, [Next]_vars PROVE IInv'
  OBVIOUS
<1>1. TypeOK'
  BY TypeStep DEF IInv
<1> QED
  BY <1>1, LinkedStep, BlankStep, FrameIdsStep, ArmedStep, OwedStep DEF IInv

\* Every step of a handler, a timer or a client keeps what the hub's two promises
\* rest on: types, phases, frame numbers and who is owed what.
THEOREM Invariance == Spec => []IInv
  BY InvInit, InvStep, PTL DEF Spec

\* A frame the hub waits for always ends in an ack or in fExpire.
THEOREM EveryFrameIsArmed == Spec => []TrackedFramesArmed
<1>1. IInv => TrackedFramesArmed
  BY DEF IInv
<1> QED
  BY <1>1, Invariance, PTL

\* The hub never forgets a connected client that has missed a change.
THEOREM NoSilentLoss == Spec => []OwedWhatItMissed
<1>1. IInv => OwedWhatItMissed
  BY DEF IInv
<1> QED
  BY <1>1, Invariance, PTL
----------------------------------------------------------------------------
(* Frames stay inside what their receivers may follow *)

\* What frame f may tell client k.
Entitled(k, f) ==
    \/ f.owner = UserOf[k]
    \/ /\ \E w \in MayFollow[k] : w.owner = f.owner
       /\ \A p \in f.paths : \E w \in MayFollow[k] :
              w.owner = f.owner /\ Inside(p, w.prefix)

\* A frame for a connection that was accepted since the last restart: only its
\* client can ever hold that number, and may be told what the frame says.
Sound(f, links, next) ==
    /\ f.conn # NoConn /\ f.conn < next
    /\ \A k \in Clients : links[k] = f.conn => Entitled(k, f)

LeakInv ==
    /\ \A c \in live : watch[c] \subseteq MayFollow[client[c]]
    /\ \A t \in Threads : phase[t] = "resolve" =>
           /\ ask[t].conn < nextConn
           /\ ask[t].conn \in live => ask[t].target \subseteq MayFollow[client[ask[t].conn]]
    /\ \A t \in Threads : \A f \in todo[t] : Sound(f, link, nextConn)
    /\ \A t \in Threads : phase[t] = "send" => Sound(cur[t], link, nextConn)
    /\ \A f \in wire : Sound(f, link, nextConn)

\* fMatchesPrefix is no wider than the file or the folder that is followed.
LEMMA PrefixInside ==
  ASSUME NEW p \in Paths, NEW q \in Paths, fMatchesPrefix(p, q)
  PROVE  Inside(p, q)
<1>1. p \in Seq(STRING) /\ q \in Seq(STRING)
  BY ConstantsAssumption
<1>2. CASE p = q
  BY <1>2 DEF Inside
<1>3. CASE Len(p) > Len(q) /\ SubSeq(p, 1, Len(q)) = q /\ p[Len(q) + 1] = "/"
  <2> DEFINE n == Len(q) + 1
  <2>1. n \in 1..Len(p) /\ n - 1 = Len(q)
    BY <1>1, <1>3
  <2>2. p[n] = "/" /\ SubSeq(p, 1, n - 1) = q
    BY <1>3, <2>1
  <2> HIDE DEF n
  <2> QED
    BY <2>1, <2>2 DEF Inside
<1> QED
  BY <1>2, <1>3 DEF fMatchesPrefix

\* What a step may do to watches, requests and frames without a leak.
LEMMA LeakKept ==
  ASSUME LeakInv, TypeOK, nextConn' \in Nat, nextConn <= nextConn',
         \A k \in Clients : link'[k] \in {link[k], NoConn, nextConn},
         \A c \in live' : c < nextConn => c \in live /\ client'[c] = client[c],
         \A c \in live' : (c \in live /\ client'[c] = client[c] /\ watch'[c] = watch[c])
                          \/ watch'[c] \subseteq MayFollow[client'[c]],
         \A t \in Threads : phase'[t] = "resolve" =>
             \/ phase[t] = "resolve" /\ ask'[t] = ask[t]
             \/ /\ ask'[t].conn < nextConn'
                /\ ask'[t].conn \in live' =>
                       ask'[t].target \subseteq MayFollow[client'[ask'[t].conn]],
         \A t \in Threads : \A f \in todo'[t] : f \in todo[t] \/ Sound(f, link', nextConn'),
         \A t \in Threads : phase'[t] = "send" =>
             \/ phase[t] = "send" /\ cur'[t] = cur[t]
             \/ \E f \in todo[t] : cur'[t].conn = f.conn /\ cur'[t].owner = f.owner
                                   /\ cur'[t].paths = f.paths,
         \A f \in wire' : f \in wire \/ \E t \in Threads : phase[t] = "send" /\ f = cur[t]
  PROVE  LeakInv'
<1>0. \A t \in Threads : \A f \in todo[t] : f.conn \in Nat
  BY DEF TypeOK, Frame
<1>00. /\ \A t \in Threads : cur[t].conn \in Nat /\ ask[t].conn \in Nat
       /\ \A f \in wire : f.conn \in Nat
  BY DEF TypeOK, Frame, Request
<1>1. ASSUME NEW f, f.conn \in Nat, Sound(f, link, nextConn) PROVE Sound(f, link', nextConn')
  BY <1>1 DEF Sound, TypeOK
<1>2. \A c \in live' : watch'[c] \subseteq MayFollow[client'[c]]
  BY DEF LeakInv
<1>3. ASSUME NEW t \in Threads, phase'[t] = "resolve"
      PROVE  /\ ask'[t].conn < nextConn'
             /\ ask'[t].conn \in live' =>
                    ask'[t].target \subseteq MayFollow[client'[ask'[t].conn]]
  <2>1. CASE phase[t] = "resolve" /\ ask'[t] = ask[t]
    BY <1>00, <2>1 DEF LeakInv, TypeOK
  <2> QED
    BY <1>3, <2>1
<1>4. ASSUME NEW t \in Threads, NEW f \in todo'[t] PROVE Sound(f, link', nextConn')
  BY <1>0, <1>1 DEF LeakInv
<1>5. ASSUME NEW t \in Threads, phase'[t] = "send" PROVE Sound(cur'[t], link', nextConn')
  <2>1. CASE phase[t] = "send" /\ cur'[t] = cur[t]
    BY <1>00, <1>1, <2>1 DEF LeakInv
  <2>2. CASE \E f \in todo[t] : cur'[t].conn = f.conn /\ cur'[t].owner = f.owner
                                /\ cur'[t].paths = f.paths
    <3> PICK f \in todo[t] : cur'[t].conn = f.conn /\ cur'[t].owner = f.owner
                             /\ cur'[t].paths = f.paths
      BY <2>2
    <3>1. Sound(f, link', nextConn')
      BY <1>0, <1>1 DEF LeakInv
    <3> QED
      BY <3>1 DEF Sound, Entitled
  <2> QED
    BY <1>5, <2>1, <2>2
<1>6. ASSUME NEW f \in wire' PROVE Sound(f, link', nextConn')
  BY <1>00, <1>1 DEF LeakInv
<1> QED
  BY <1>2, <1>3, <1>4, <1>5, <1>6 DEF LeakInv

LEMMA LeakGather ==
  ASSUME LeakInv, TypeOK, Linked, NEW t \in Threads, Gather(t)
  PROVE  LeakInv'
<1> DEFINE o == op[t]
           Told(c) == [id |-> 0, conn |-> c, owner |-> o.owner, paths |-> ListFor(c, o)]
<1>1. ASSUME NEW c \in live, UserId(c) = o.owner \/ Visible(c, o) # {}
      PROVE  Sound(Told(c), link, nextConn)
  <2>1. /\ c \in Conn /\ c < nextConn /\ client[c] \in Clients /\ client[c] # NoDevice
        /\ \A k \in Clients : link[k] = c => k = client[c]
        /\ o.told \subseteq Paths /\ watch[c] \subseteq MayFollow[client[c]]
    BY ConstantsAssumption DEF TypeOK, Linked, LeakInv, Operation
  <2>2. Entitled(client[c], Told(c))
    <3>1. CASE UserId(c) = o.owner
      BY <2>1, <3>1 DEF UserId, Entitled
    <3>2. CASE UserId(c) # o.owner
      <4>1. \A p \in Visible(c, o) : \E w \in MayFollow[client[c]] :
                w.owner = o.owner /\ Inside(p, w.prefix)
        <5> SUFFICES ASSUME NEW p \in Visible(c, o)
                     PROVE  \E w \in MayFollow[client[c]] :
                                w.owner = o.owner /\ Inside(p, w.prefix)
          OBVIOUS
        <5>1. p \in Paths /\ Follows(c, o.owner, p)
          BY <2>1, <3>2 DEF Visible
        <5> PICK w \in watch[c] : w.owner = o.owner /\ fMatchesPrefix(p, w.prefix)
          BY <5>1 DEF Follows
        <5>2. w \in MayFollow[client[c]] /\ w.prefix \in Paths
          BY <2>1, ConstantsAssumption DEF Target
        <5> QED
          BY <5>1, <5>2, PrefixInside
      <4>2. ListFor(c, o) \subseteq Visible(c, o)
        BY DEF ListFor
      <4>3. \E w \in MayFollow[client[c]] : w.owner = o.owner
        BY <1>1, <3>2, <4>1
      <4>4. Told(c).owner = o.owner /\ Told(c).paths \subseteq Visible(c, o)
        BY <4>2
      <4> HIDE DEF Told
      <4> QED
        BY <4>1, <4>3, <4>4 DEF Entitled
    <3> QED
      BY <3>1, <3>2
  <2>3. Told(c).conn = c /\ c # NoConn
    BY <2>1
  <2> HIDE DEF Told
  <2> QED
    BY <2>1, <2>2, <2>3 DEF Sound
<1>2. /\ UNCHANGED <<live, client, watch, nextConn, ask, cur>> /\ UNCHANGED <<link, wire>>
      /\ \A s \in Threads : phase'[s] \in {phase[s], "each"}
      /\ \A s \in Threads : \A f \in todo'[s] :
             f \in todo[s] \/ \E c \in live : /\ UserId(c) = o.owner \/ Visible(c, o) # {}
                                              /\ f = Told(c)
  <2>1. \A s \in Threads : s # t => todo'[s] = todo[s]
    BY DEF Gather, TypeOK
  <2>2. \A f \in todo'[t] : \E c \in live : /\ UserId(c) = o.owner \/ Visible(c, o) # {}
                                            /\ f = Told(c)
    BY DEF Gather, TypeOK
  <2>3. /\ UNCHANGED <<live, client, watch, nextConn, ask, cur>> /\ UNCHANGED <<link, wire>>
        /\ \A s \in Threads : phase'[s] \in {phase[s], "each"}
    BY DEF Gather, hubVars, netVars, TypeOK
  <2> QED
    BY <2>1, <2>2, <2>3
<1>3. \A s \in Threads : \A f \in todo'[s] : f \in todo[s] \/ Sound(f, link', nextConn')
  BY <1>1, <1>2
<1> HIDE DEF o, Told
<1>4. nextConn' \in Nat /\ nextConn <= nextConn'
  BY <1>2 DEF TypeOK
<1> QED
  BY <1>2, <1>3, <1>4, LeakKept

LEMMA LeakStep == LeakInv /\ IInv /\ [Next]_vars => LeakInv'
<1> SUFFICES ASSUME LeakInv, TypeOK, Linked, Blank, [Next]_vars PROVE LeakInv'
  BY DEF IInv
<1>0. nextConn \in Nat
  BY DEF TypeOK
<1>1. ASSUME NEW t \in Threads, NEW k \in Clients, Accept(t, k) PROVE LeakInv'
  <2> DEFINE f0 == [id |-> 0, conn |-> nextConn, owner |-> UserOf[k], paths |-> {}]
  <2>1. /\ nextConn' = nextConn + 1 /\ live' = live \cup {nextConn}
        /\ link' = [link EXCEPT ![k] = nextConn] /\ client' = [client EXCEPT ![nextConn] = k]
        /\ UNCHANGED <<watch, ask, cur, wire>>
        /\ \A s \in Threads : phase'[s] \in {phase[s], "each"}
        /\ \A s \in Threads : \A f \in todo'[s] : f \in todo[s] \/ f = f0
    BY <1>1 DEF Accept, TypeOK, mainVars
  <2>2. nextConn \in Conn /\ nextConn \notin live /\ nextConn # NoConn
    BY <1>1 DEF Accept, TypeOK, Linked
  <2>3. /\ \A c \in live : c \in Conn /\ c < nextConn /\ client'[c] = client[c]
        /\ watch'[nextConn] = {}
    BY <2>1, <2>2 DEF TypeOK, Linked, Blank
  <2>4. Sound(f0, link', nextConn')
    <3>1. f0.conn = nextConn /\ f0.owner = UserOf[k]
      OBVIOUS
    <3>2. \A j \in Clients : link'[j] = nextConn => j = k
      BY <2>1, <2>2 DEF TypeOK, Linked
    <3> HIDE DEF f0
    <3> QED
      BY <1>0, <2>1, <2>2, <3>1, <3>2 DEF Sound, Entitled
  <2> HIDE DEF f0
  <2>5. \A j \in Clients : link'[j] \in {link[j], NoConn, nextConn}
    BY <2>1 DEF TypeOK
  <2>6. /\ \A c \in live' : c < nextConn => c \in live /\ client'[c] = client[c]
        /\ \A c \in live' : (c \in live /\ client'[c] = client[c] /\ watch'[c] = watch[c])
                            \/ watch'[c] \subseteq MayFollow[client'[c]]
    BY <1>0, <2>1, <2>3
  <2>7. nextConn' \in Nat /\ nextConn <= nextConn'
    BY <1>0, <2>1
  <2>8. /\ \A s \in Threads : phase'[s] = "resolve" => phase[s] = "resolve" /\ ask'[s] = ask[s]
        /\ \A s \in Threads : phase'[s] = "send" => phase[s] = "send" /\ cur'[s] = cur[s]
        /\ \A s \in Threads : \A f \in todo'[s] : f \in todo[s] \/ Sound(f, link', nextConn')
    BY <2>1, <2>4
  <2> QED
    BY <2>1, <2>5, <2>6, <2>7, <2>8, LeakKept
\* A step that leaves the watches and requests alone, adds no connection, and
\* sends or tracks at most what was to be sent or tracked.
<1>2. ASSUME nextConn' = nextConn,
             \A k \in Clients : link'[k] \in {link[k], NoConn},
             \A c \in live' : c \in live /\ client'[c] = client[c] /\ watch'[c] = watch[c],
             \A t \in Threads : phase'[t] = "resolve" => phase[t] = "resolve" /\ ask'[t] = ask[t],
             \A t \in Threads : todo'[t] \subseteq todo[t],
             \A t \in Threads : phase'[t] = "send" =>
                 \/ phase[t] = "send" /\ cur'[t] = cur[t]
                 \/ \E f \in todo[t] : cur'[t].conn = f.conn /\ cur'[t].owner = f.owner
                                       /\ cur'[t].paths = f.paths,
             \A f \in wire' : f \in wire \/ \E t \in Threads : phase[t] = "send" /\ f = cur[t]
      PROVE  LeakInv'
  <2>1. nextConn' \in Nat /\ nextConn <= nextConn'
    BY <1>0, <1>2
  <2> QED
    BY <1>2, <2>1, LeakKept
<1>3. ASSUME NEW t \in Threads, NEW o \in Users, NEW d \in Changes,
             NEW s \in Clients \cup {NoDevice}, Commit(t, o, d, s)
      PROVE  LeakInv'
  BY <1>2, <1>3 DEF Commit, TypeOK, hubVars, mainVars
<1>4. ASSUME NEW t \in Threads, Track(t) PROVE LeakInv'
  <2> PICK f \in todo[t] : /\ cur' = [cur EXCEPT ![t] = [f EXCEPT !.id = nextFrame]]
                           /\ todo' = [todo EXCEPT ![t] = @ \ {f}]
    BY <1>4 DEF Track
  <2>1. f \in Frame
    BY DEF TypeOK
  <2>2. cur'[t].conn = f.conn /\ cur'[t].owner = f.owner /\ cur'[t].paths = f.paths
    BY <2>1 DEF Frame, TypeOK
  <2>3. /\ \A s \in Threads : s # t => cur'[s] = cur[s] /\ phase'[s] = phase[s]
        /\ \A s \in Threads : todo'[s] \subseteq todo[s]
        /\ phase'[t] = "send"
    BY <1>4 DEF Track, TypeOK
  <2>4. UNCHANGED <<live, client, watch, nextConn, ask>> /\ UNCHANGED <<link, wire>>
    BY <1>4 DEF Track, netVars
  <2> QED
    BY <1>2, <2>2, <2>3, <2>4
<1>5. ASSUME NEW t \in Threads, SkipGone(t) PROVE LeakInv'
  BY <1>2, <1>5 DEF SkipGone, TypeOK, hubVars, mainVars, netVars
<1>6. ASSUME NEW t \in Threads, Send(t) PROVE LeakInv'
  BY <1>2, <1>6 DEF Send, TypeOK, hubVars, mainVars
<1>7. ASSUME NEW t \in Threads, Arm(t) \/ Return(t) PROVE LeakInv'
  BY <1>2, <1>7 DEF Arm, Return, TypeOK, hubVars, mainVars, netVars
<1>8. ASSUME NEW t \in Threads, SetWatch(t) PROVE LeakInv'
  <2> DEFINE c == ask[t].conn
  <2>1. /\ UNCHANGED <<live, client, nextConn, todo, cur>> /\ UNCHANGED <<link, wire>>
        /\ \A s \in Threads : s # t => phase'[s] = phase[s] /\ ask'[s] = ask[s]
        /\ phase[t] = "resolve" /\ phase'[t] = "idle"
    BY <1>8 DEF SetWatch, TypeOK, mainVars
  <2>2. \A d \in live : watch'[d] = watch[d] \/ watch'[d] \subseteq MayFollow[client'[d]]
    <3>1. CASE c \in live
      <4>1. ask[t].target \subseteq MayFollow[client[c]]
        BY <2>1, <3>1 DEF LeakInv
      <4>2. watch' = [watch EXCEPT ![c] = ask[t].target]
        BY <1>8, <3>1 DEF SetWatch
      <4> QED
        BY <2>1, <4>1, <4>2 DEF TypeOK
    <3>2. CASE c \notin live
      BY <1>8, <3>2 DEF SetWatch
    <3> QED
      BY <3>1, <3>2
  <2>3. nextConn' \in Nat /\ nextConn <= nextConn'
    BY <1>0, <2>1
  <2> QED
    BY <2>1, <2>2, <2>3, LeakKept
<1>9. ASSUME NEW m \in timers, Expire(m[1], m[2]) PROVE LeakInv'
  <2>1. CASE m[1] \in live /\ m[2] \in pending[m[1]]
    <3>1. m[1] \in Conn /\ Erase(m[1]) /\ UNCHANGED <<nextConn, phase, todo, cur, ask, netVars>>
      BY <1>9, <2>1 DEF Expire, TypeOK
    <3> QED
      BY <1>2, <3>1 DEF Erase, TypeOK, netVars
  <2>2. CASE ~(m[1] \in live /\ m[2] \in pending[m[1]])
    BY <1>2, <1>9, <2>2 DEF Expire, netVars
  <2> QED
    BY <2>1, <2>2
<1>10. ASSUME NEW k \in Clients, Unlink(k), UNCHANGED <<hubVars, threadVars>> PROVE LeakInv'
  <2>1. wire' \subseteq wire /\ \A j \in Clients : link'[j] \in {link[j], NoConn}
    BY <1>10 DEF Unlink, TypeOK
  <2> QED
    BY <1>2, <1>10, <2>1 DEF hubVars, threadVars
<1>11. ASSUME NEW c \in Conn, Close(c) PROVE LeakInv'
  <2>1. CASE \E k \in Clients : link[k] = c
    BY <1>10, <1>11, <2>1 DEF Close
  <2>2. CASE ~ \E k \in Clients : link[k] = c
    BY <1>2, <1>11, <2>2 DEF Close, hubVars, threadVars
  <2> QED
    BY <2>1, <2>2
<1>12. ASSUME NEW k \in Clients, HangUp(k) PROVE LeakInv'
  BY <1>10, <1>12 DEF HangUp
<1>13. ASSUME NEW k \in Clients, Hello(k) PROVE LeakInv'
  BY <1>2, <1>13 DEF Hello, threadVars, mainVars, netVars
<1>14. ASSUME NEW k \in Clients, NEW w \in SUBSET MayFollow[k], AskWatch(k, w) PROVE LeakInv'
  <2> DEFINE t == loop[link[k]]
  <2>1. link[k] \in live /\ client[link[k]] = k /\ link[k] < nextConn
    BY <1>14 DEF AskWatch, Served, TypeOK, Linked
  <2>2. /\ UNCHANGED <<live, client, watch, nextConn, todo, cur>> /\ UNCHANGED <<link, wire>>
        /\ \A s \in Threads : s # t => phase'[s] = phase[s] /\ ask'[s] = ask[s]
        /\ t \in Threads =>
               phase'[t] = "resolve" /\ ask'[t] = [conn |-> link[k], target |-> w]
    BY <1>14 DEF AskWatch, TypeOK, hubVars, mainVars, netVars
  <2>3. t \in Threads => ask'[t].conn = link[k] /\ ask'[t].target = w
    BY <2>2
  <2>4. nextConn' \in Nat /\ nextConn <= nextConn'
    BY <1>0, <2>2
  <2> HIDE DEF t
  <2>5. \A s \in Threads : phase'[s] = "resolve" =>
            \/ phase[s] = "resolve" /\ ask'[s] = ask[s]
            \/ /\ ask'[s].conn < nextConn'
               /\ ask'[s].conn \in live' =>
                      ask'[s].target \subseteq MayFollow[client'[ask'[s].conn]]
    BY <2>1, <2>2, <2>3
  <2>6. /\ \A s \in Threads : phase'[s] = "send" => phase[s] = "send" /\ cur'[s] = cur[s]
        /\ \A s \in Threads : \A f \in todo'[s] : f \in todo[s]
    BY <2>2
  <2> QED
    BY <2>2, <2>4, <2>5, <2>6, LeakKept
<1>15. ASSUME NEW c \in Conn, SocketClosed(c) PROVE LeakInv'
  BY <1>2, <1>15 DEF SocketClosed, Erase, TypeOK, mainVars, netVars
<1>16. ASSUME NEW a \in acks, Ack(a[1], a[2]) PROVE LeakInv'
  BY <1>2, <1>16 DEF Ack, threadVars, mainVars
<1>17. ASSUME NEW f \in wire, Deliver(f) PROVE LeakInv'
  BY <1>2, <1>17 DEF Deliver, hubVars, threadVars, mainVars
<1>18. CASE Restart
  BY <1>18 DEF Restart, Fresh, LeakInv
<1>19. CASE UNCHANGED vars
  BY <1>2, <1>19 DEF vars, hubVars, threadVars, mainVars, netVars
<1> QED
  <2>1. \A k \in Clients : {} \in SUBSET MayFollow[k]
                           /\ \A w \in MayFollow[k] : {w} \in SUBSET MayFollow[k]
    OBVIOUS
  <2> QED
    BY <1>1, <1>3, <1>4, <1>5, <1>6, <1>7, <1>8, <1>9, <1>11, <1>12, <1>13, <1>14, <1>15,
       <1>16, <1>17, <1>18, <1>19, <2>1, LeakGather
    DEF Next, ThreadStep, MainStep

\* No frame tells a client of paths outside its own workspace and what it may
\* follow, however watches, connections and restarts interleave with it.
THEOREM FramesStayInside == Spec => []NothingLeaks
<1>1. Init => LeakInv
  BY DEF Init, Fresh, LeakInv
<1>2. LeakInv => NothingLeaks
  BY DEF LeakInv, Sound, Entitled, NothingLeaks
<1> QED
  BY <1>1, <1>2, LeakStep, Invariance, PTL DEF Spec
============================================================================

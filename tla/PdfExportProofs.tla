-------------------------- MODULE PdfExportProofs --------------------------
(***************************************************************************)
(* What a render may count on, for any number of requests, slots and       *)
(* subresources, and whatever the browsers do.                             *)
(***************************************************************************)
EXTENDS PdfExport, FiniteSetTheorems, TLAPS

Talking == {"id", "send", "reply", "event"}
Before == {"idle", "queue", "temp", "spawn", "port", "connect"}
WithBrowser == {"port", "connect", "disconnect", "kill"} \cup Talking
WithTemp == {"spawn", "remove"} \cup WithBrowser

Message == [kind : {"reply", "paused", "load", "closed"}, id : Nat,
            to : {"prepare", "navigate", "print", "blank", "page", "fetch"}]
CdpFields == {"open", "next", "closed", "responses", "seen"}

\* What a browser has said, and all that will be read of it.
Said(r) == {inbox[r][i] : i \in 1..Len(inbox[r])}
Coming(r) == owed[r] \cup Said(r)

Typed(r) ==
    /\ doing[r] \in [step : Steps, n : 0..3, id : Nat]
    /\ inbox[r] \in Seq(Message)
    /\ owed[r] \subseteq Message
    /\ page[r] \in [state : {"blank", "loading", "loaded"}, paused : Nat]
    /\ cdp[r].open \in BOOLEAN
    /\ cdp[r].open =>
           /\ DOMAIN cdp[r] = CdpFields
           /\ cdp[r].next \in Nat
           /\ DOMAIN cdp[r].responses \subseteq Nat

\* What there is of a render where it is.
Placed(r) ==
    /\ r \in temps => doing[r].step \in WithTemp \/ r \in refused
    /\ r \in browsers => doing[r].step \in WithBrowser
    /\ doing[r].step \in Talking => cdp[r].open
    /\ cdp[r].open => doing[r].step \in Talking \cup {"disconnect"}
    /\ ~cdp[r].open => inbox[r] = <<>> /\ loop.render # r
    /\ owed[r] # {} => doing[r].step \in Talking \cup {"disconnect", "kill"}
    /\ doing[r].step \in Before => doing[r].n = 0
    /\ doing[r].step \in {"id", "send", "reply"} => doing[r].n \in 1..3
    /\ doing[r].step = "event" => doing[r].n = 2

\* Every id in use was drawn.
Drawn(r) ==
    cdp[r].open =>
        /\ \A m \in Coming(r) : m.kind = "reply" => m.id < cdp[r].next
        /\ \A i \in DOMAIN cdp[r].responses : i < cdp[r].next
        /\ loop.render = r => loop.id < cdp[r].next
        /\ doing[r].step \in {"send", "reply"} => doing[r].id < cdp[r].next

\* Nothing but the reply to a command has the command's id.
Matching(r) ==
    doing[r].step \in {"send", "reply"} =>
        /\ loop.render = r => loop.id # doing[r].id
        /\ \A m \in Coming(r) : m.kind = "reply" /\ m.id = doing[r].id =>
               At(r, "reply") /\ m.to = Command(r)
        /\ Arrived(r) => At(r, "reply") /\ cdp[r].responses[doing[r].id] = Command(r)

\* A page that was not navigated asks for nothing and does not load; its event is
\* only heard when it has.
Early(r) == doing[r].n < 2 \/ (doing[r].n = 2 /\ doing[r].step \in {"id", "send"})
Loading(r) ==
    /\ Early(r) =>
           /\ \A m \in Coming(r) : m.kind # "paused" /\ (m.kind = "load" => m.to = "blank")
           /\ loop.render # r
           /\ cdp[r].open => cdp[r].seen \subseteq {"blank"}
    /\ \A m \in Coming(r) :
           m.kind = "load" => m.to = "blank" \/ (m.to = "page" /\ page[r].state = "loaded")
    /\ cdp[r].open => cdp[r].seen \subseteq {"blank", "page"}
    /\ cdp[r].open /\ "page" \in cdp[r].seen => page[r].state = "loaded"
    /\ doing[r].n = 3 /\ doing[r].step \in {"id", "send", "reply"} =>
           page[r].state = "loaded" \/ (cdp[r].open /\ "blank" \in cdp[r].seen)

RenderInv(r) == Typed(r) /\ Placed(r) /\ Drawn(r) /\ Matching(r) /\ Loading(r)

Holders == {r \in Renders : doing[r].step \in Holding}
SlotsInv ==
    /\ slots \in Nat
    /\ IsFiniteSet(Holders)
    /\ slots + Cardinality(Holders) = cMaxConcurrentRenders

\* The inductive invariant.
IInv ==
    /\ DOMAIN doing = Renders /\ DOMAIN cdp = Renders /\ DOMAIN inbox = Renders
    /\ DOMAIN owed = Renders /\ DOMAIN page = Renders
    /\ temps \subseteq Renders /\ browsers \subseteq Renders
    /\ loop \in [render : Renders \cup {NoRender}, id : Nat]
    /\ \A r \in Renders : RenderInv(r)
    /\ SlotsInv
----------------------------------------------------------------------------
(* What a step that is about one render leaves of the others *)

Apart(g) ==
    /\ doing'[g] = doing[g] /\ cdp'[g] = cdp[g] /\ inbox'[g] = inbox[g]
    /\ owed'[g] = owed[g] /\ page'[g] = page[g]
    /\ g \in temps' <=> g \in temps
    /\ g \in refused' <=> g \in refused
    /\ g \in browsers' <=> g \in browsers
    /\ loop' = loop \/ loop'.render # g

LEMMA OthersKeep ==
  ASSUME NEW g \in Renders, RenderInv(g), Apart(g)
  PROVE  RenderInv(g)'
<1>1. Coming(g)' = Coming(g)
  BY DEF Apart, Coming, Said
<1>2. Typed(g)' /\ Placed(g)'
  BY DEF Apart, RenderInv, Typed, Placed
<1>3. Drawn(g)' /\ Matching(g)'
  BY <1>1 DEF Apart, RenderInv, Drawn, Matching, Arrived, Command, At
<1>4. Loading(g)'
  BY <1>1 DEF Apart, RenderInv, Loading, Early
<1> QED
  BY <1>2, <1>3, <1>4 DEF RenderInv

\* A render that holds a slot goes on to, and one that does not stays without.
LEMMA SlotsKeep ==
  ASSUME IInv, UNCHANGED slots,
         \A g \in Renders : doing'[g].step \in Holding <=> doing[g].step \in Holding
  PROVE  SlotsInv'
<1>1. Holders' = Holders
  BY DEF Holders
<1> QED
  BY <1>1 DEF IInv, SlotsInv

LEMMA Assembled ==
  ASSUME IInv, NEW r \in Renders,
         DOMAIN doing' = Renders, DOMAIN cdp' = Renders, DOMAIN inbox' = Renders,
         DOMAIN owed' = Renders, DOMAIN page' = Renders,
         temps' \subseteq Renders, browsers' \subseteq Renders,
         loop' \in [render : Renders \cup {NoRender}, id : Nat],
         \A g \in Renders \ {r} : Apart(g),
         RenderInv(r)', SlotsInv'
  PROVE  IInv'
<1>1. \A g \in Renders \ {r} : RenderInv(g)'
  BY OthersKeep DEF IInv
<1> QED
  BY <1>1 DEF IInv

----------------------------------------------------------------------------
(* Before the connection and after it *)

LEMMA SaidNothing == \A r : inbox[r] = <<>> => Said(r) = {}
<1> SUFFICES ASSUME NEW r, inbox[r] = <<>> PROVE Said(r) = {}
  OBVIOUS
<1>1. Len(inbox[r]) = 0
  OBVIOUS
<1> QED
  BY <1>1 DEF Said

\* A render without a connection has nobody who tells it anything.
LEMMA SilentKeeps ==
  ASSUME IInv, NEW r \in Renders, ~cdp[r].open,
         cdp'[r] = cdp[r], inbox'[r] = inbox[r], loop' = loop,
         owed'[r] = {},
         doing'[r] \in [step : Steps, n : 0..3, id : Nat],
         doing'[r].step \notin Talking,
         doing'[r].step \in Before => doing'[r].n = 0,
         page'[r] \in [state : {"blank", "loading", "loaded"}, paused : Nat],
         r \in temps' => doing'[r].step \in WithTemp \/ r \in refused',
         r \in browsers' => doing'[r].step \in WithBrowser
  PROVE  RenderInv(r)'
<1>1. RenderInv(r)
  BY DEF IInv
<1>2. inbox'[r] = <<>> /\ loop'.render # r /\ ~cdp'[r].open
  BY <1>1 DEF RenderInv, Placed
<1>3. Coming(r)' = {}
  <2>1. Said(r)' = {}
    BY <1>2 DEF Said
  <2> QED
    BY <2>1 DEF Coming
<1>4. Typed(r)'
  BY <1>1, <1>2 DEF RenderInv, Typed
<1>5. Placed(r)'
  BY <1>2 DEF Placed, Talking
<1>6. Drawn(r)' /\ Matching(r)' /\ Loading(r)'
  BY <1>2, <1>3 DEF Drawn, Matching, Loading, Early, Talking
<1> QED
  BY <1>4, <1>5, <1>6 DEF RenderInv

\* Where there is no connection.
LEMMA Unconnected ==
  ASSUME IInv, NEW r \in Renders,
         doing[r].step \in Before \cup {"kill", "remove", "release", "answer"}
  PROVE  ~cdp[r].open /\ (doing[r].step # "kill" => owed[r] = {})
BY DEF IInv, RenderInv, Typed, Placed, Before, Talking

\* A render thread gets a slot.
LEMMA AcquireKeepsSlots ==
  ASSUME IInv, NEW r \in Renders, Acquire(r)
  PROVE  SlotsInv'
<1>1. r \notin Holders /\ Holders' = Holders \cup {r}
  BY DEF Acquire, Goto, At, Holders, Holding, Steps, IInv, RenderInv, Typed
<1>2. IsFiniteSet(Holders) /\ Cardinality(Holders) \in Nat /\ slots \in Nat
  BY FS_CardinalityType DEF IInv, SlotsInv
<1>3. IsFiniteSet(Holders \cup {r}) /\ Cardinality(Holders \cup {r}) = Cardinality(Holders) + 1
  BY <1>1, <1>2, FS_AddElement
<1>4. slots > 0 /\ slots' = slots - 1
  BY DEF Acquire
<1> QED
  BY <1>1, <1>2, <1>3, <1>4 DEF IInv, SlotsInv

\* ... and gives it back.
LEMMA ReleaseKeepsSlots ==
  ASSUME IInv, NEW r \in Renders, Release(r)
  PROVE  SlotsInv'
<1>1. r \in Holders /\ Holders' = Holders \ {r}
  BY DEF Release, Goto, At, Holders, Holding, Steps, IInv, RenderInv, Typed
<1>2. IsFiniteSet(Holders) /\ Cardinality(Holders) \in Nat /\ slots \in Nat
  BY FS_CardinalityType DEF IInv, SlotsInv
<1>3. IsFiniteSet(Holders \ {r}) /\ Cardinality(Holders \ {r}) = Cardinality(Holders) - 1
      /\ Cardinality(Holders \ {r}) \in Nat
  BY <1>1, <1>2, FS_RemoveElement, FS_CardinalityType
<1>4. slots' = slots + 1
  BY DEF Release
<1> QED
  BY <1>1, <1>2, <1>3, <1>4 DEF IInv, SlotsInv

LEMMA SilentStepsKeep ==
  ASSUME IInv, NEW r \in Renders,
         \/ Request(r) \/ Acquire(r) \/ GiveUp(r) \/ MakeTemp(r) \/ Spawn(r) \/ FindPort(r)
         \/ Kill(r) \/ Remove(r) \/ Release(r) \/ Answer(r)
  PROVE  IInv'
<1> USE DEF At, Goto, Throw
<1>0. RenderInv(r) /\ Blank \in [state : {"blank", "loading", "loaded"}, paused : Nat]
      /\ Idle \in [step : Steps, n : 0..3, id : Nat]
      /\ doing[r] \in [step : Steps, n : 0..3, id : Nat]
  BY DEF IInv, RenderInv, Typed, Blank, Idle, Steps
<1>1. /\ doing[r].step \in Before \cup {"kill", "remove", "release", "answer"}
      /\ cdp' = cdp /\ inbox' = inbox /\ loop' = loop
  BY DEF Request, Acquire, GiveUp, MakeTemp, Spawn, FindPort, Kill, Remove, Release, Answer, Before
<1>2. ~cdp[r].open /\ (doing[r].step # "kill" => owed[r] = {})
  BY <1>1, Unconnected
<1>3. \A g \in Renders \ {r} : Apart(g)
  BY <1>1 DEF Request, Acquire, GiveUp, MakeTemp, Spawn, FindPort, Kill, Remove, Release, Answer,
     Apart, IInv, process, browser
<1>4. /\ DOMAIN doing' = Renders /\ DOMAIN cdp' = Renders /\ DOMAIN inbox' = Renders
      /\ DOMAIN owed' = Renders /\ DOMAIN page' = Renders
      /\ temps' \subseteq Renders /\ browsers' \subseteq Renders
      /\ loop' \in [render : Renders \cup {NoRender}, id : Nat]
  BY <1>1 DEF Request, Acquire, GiveUp, MakeTemp, Spawn, FindPort, Kill, Remove, Release, Answer,
     IInv, process, browser
<1>5. /\ owed'[r] = {}
      /\ page'[r] \in [state : {"blank", "loading", "loaded"}, paused : Nat]
      /\ r \in browsers' => r \in browsers \/ doing'[r].step = "port"
  BY <1>0, <1>2 DEF Request, Acquire, GiveUp, MakeTemp, Spawn, FindPort, Kill, Remove, Release,
     Answer, IInv, RenderInv, Typed, process, browser
<1>6. \/ doing'[r] = Idle /\ doing[r].step = "answer"
      \/ \E s \in Steps \ Talking : /\ doing'[r] = [doing[r] EXCEPT !.step = s]
                                    /\ s \in Before => doing[r].step \in Before
  <2> DEFINE OnTo(s) == doing' = [doing EXCEPT ![r].step = s]
  <2>1. \/ doing[r].step \in {"idle", "queue", "temp", "spawn", "port"}
           /\ \E s \in {"queue", "temp", "spawn", "port", "connect", "disconnect", "answer"} : OnTo(s)
        \/ \E s \in {"remove", "release", "answer"} : OnTo(s)
        \/ doing' = [doing EXCEPT ![r] = Idle] /\ doing[r].step = "answer"
    BY DEF Request, Acquire, GiveUp, MakeTemp, Spawn, FindPort, Kill, Remove, Release, Answer
  <2>2. \A s \in Steps : OnTo(s) => doing'[r] = [doing[r] EXCEPT !.step = s]
    BY DEF IInv
  <2>3. DOMAIN doing = Renders
    BY DEF IInv
  <2> HIDE DEF OnTo
  <2>4. /\ {"queue", "temp", "spawn", "port", "connect", "disconnect", "answer"} \subseteq Steps \ Talking
        /\ {"remove", "release", "answer"} \subseteq (Steps \ Talking) \ Before
        /\ {"idle", "queue", "temp", "spawn", "port"} \subseteq Before
    BY DEF Steps, Talking, Before
  <2> QED
    BY <2>1, <2>2, <2>3, <2>4
<1>7. /\ doing'[r] \in [step : Steps, n : 0..3, id : Nat]
      /\ doing'[r].step \notin Talking
      /\ doing'[r].step \in Before => doing'[r].n = 0
  <2>1. CASE doing'[r] = Idle
    BY <1>0, <2>1 DEF Talking, Idle
  <2>2. ASSUME NEW s \in Steps \ Talking, doing'[r] = [doing[r] EXCEPT !.step = s],
               s \in Before => doing[r].step \in Before
        PROVE  /\ doing'[r] \in [step : Steps, n : 0..3, id : Nat]
               /\ doing'[r].step = s /\ doing'[r].n = doing[r].n
    BY <1>0, <2>2
  <2> QED
    BY <1>0, <1>6, <2>1, <2>2 DEF RenderInv, Placed
<1>8. /\ r \in temps' => doing'[r].step \in WithTemp \/ r \in refused'
      /\ r \in browsers' => doing'[r].step \in WithBrowser
  <2>1. CASE Request(r) \/ Acquire(r) \/ GiveUp(r) \/ Release(r) \/ Answer(r)
    BY <1>0, <2>1 DEF Request, Acquire, GiveUp, Release, Answer,
       RenderInv, Placed, WithTemp, WithBrowser, Talking, process, browser
  <2>2. CASE MakeTemp(r) \/ Spawn(r) \/ FindPort(r)
    BY <1>0, <2>2 DEF MakeTemp, Spawn, FindPort, IInv,
       RenderInv, Placed, WithTemp, WithBrowser, Talking, process, browser
  <2>3. CASE Kill(r) \/ Remove(r)
    BY <1>0, <2>3 DEF Kill, Remove, IInv,
       RenderInv, Placed, WithTemp, WithBrowser, Talking, process, browser
  <2> QED
    BY <2>1, <2>2, <2>3
<1>9. RenderInv(r)'
  BY <1>1, <1>2, <1>5, <1>7, <1>8, SilentKeeps
<1>10. SlotsInv'
  <2>1. CASE Acquire(r)
    BY <2>1, AcquireKeepsSlots
  <2>2. CASE Release(r)
    BY <2>2, ReleaseKeepsSlots
  <2>3. CASE Request(r) \/ GiveUp(r) \/ MakeTemp(r) \/ Spawn(r) \/ FindPort(r)
             \/ Kill(r) \/ Remove(r) \/ Answer(r)
    <3>1. slots' = slots
      BY <2>3 DEF Request, GiveUp, MakeTemp, Spawn, FindPort, Kill, Remove, Answer, process
    <3>2. doing'[r].step \in Holding <=> doing[r].step \in Holding
      BY <1>0, <2>3 DEF Request, GiveUp, MakeTemp, Spawn, FindPort, Kill, Remove, Answer,
         Holding, Steps, IInv, Idle
    <3> QED
      BY <1>3, <3>1, <3>2, SlotsKeep DEF Apart
  <2> QED
    BY <2>1, <2>2, <2>3
<1> QED
  BY <1>3, <1>4, <1>9, <1>10, Assembled

----------------------------------------------------------------------------
(* The commands *)

\* A render that works on keeps its slot.
LEMMA WorksOn ==
  ASSUME IInv, NEW r \in Renders, NEW d, doing' = [doing EXCEPT ![r] = d],
         doing[r].step \in Talking \cup {"connect"}, d.step \in Talking \cup {"disconnect"},
         UNCHANGED process
  PROVE  SlotsInv'
<1>1. \A g \in Renders : doing'[g] = IF g = r THEN d ELSE doing[g]
  BY DEF IInv
<1>2. doing[r].step \in Holding /\ d.step \in Holding
  BY DEF Holding, Steps, Talking
<1> QED
  BY <1>1, <1>2, SlotsKeep DEF process

LEMMA ThrowKeeps ==
  ASSUME IInv, NEW r \in Renders, doing[r].step \in Talking \cup {"connect"}, Throw(r),
         UNCHANGED <<process, cdp, inbox, loop, page, owed>>
  PROVE  IInv'
<1> DEFINE d == [doing[r] EXCEPT !.step = "disconnect"]
<1>0. RenderInv(r) /\ doing[r] \in [step : Steps, n : 0..3, id : Nat]
  BY DEF IInv, RenderInv, Typed
<1>1. doing' = [doing EXCEPT ![r] = d]
  BY DEF Throw, Goto, IInv
<1>2. /\ d \in [step : Steps, n : 0..3, id : Nat]
      /\ d.step = "disconnect" /\ d.n = doing[r].n /\ d.id = doing[r].id
  BY <1>0 DEF Steps
<1> HIDE DEF d
<1>3. SlotsInv'
  BY <1>1, <1>2, WorksOn
<1>4. doing'[r] = d /\ DOMAIN doing' = Renders /\ \A g \in Renders \ {r} : Apart(g)
  BY <1>1 DEF IInv, Apart, process
<1>5. Coming(r)' = Coming(r)
  BY DEF Coming, Said
<1>6. Typed(r)'
  BY <1>0, <1>2, <1>4 DEF RenderInv, Typed
<1>7. Placed(r)'
  BY <1>0, <1>2, <1>4 DEF RenderInv, Placed, Before, Talking, WithTemp, WithBrowser, process
<1>8. Drawn(r)' /\ Matching(r)'
  BY <1>0, <1>2, <1>4, <1>5 DEF RenderInv, Drawn, Matching
<1>9. Early(r)' => Early(r)
  BY <1>2, <1>4 DEF Early
<1>10. Loading(r)'
  BY <1>0, <1>2, <1>4, <1>5, <1>9 DEF RenderInv, Loading
<1>11. RenderInv(r)'
  BY <1>6, <1>7, <1>8, <1>10 DEF RenderInv
<1> QED
  BY <1>3, <1>4, <1>11, Assembled DEF IInv, process

\* A new connection is as blank as the browser that was started for it.
LEMMA ConnectKeeps ==
  ASSUME IInv, NEW r \in Renders, Connect(r), ~Throw(r)
  PROVE  IInv'
<1> DEFINE d == [step |-> "id", n |-> 1, id |-> 0]
<1>1. /\ doing' = [doing EXCEPT ![r] = d] /\ cdp' = [cdp EXCEPT ![r] = Connected]
      /\ doing[r].step = "connect" /\ r \in browsers
      /\ UNCHANGED <<process, inbox, loop, page, owed>>
  BY DEF Connect, At
<1>2. d \in [step : Steps, n : 0..3, id : Nat] /\ d.step = "id" /\ d.n = 1
  BY DEF Steps
<1> HIDE DEF d
<1>3. RenderInv(r)
  BY DEF IInv
<1>4. owed[r] = {} /\ inbox[r] = <<>> /\ loop.render # r
  BY <1>1, <1>3, Unconnected DEF RenderInv, Placed, Before
<1>5. Coming(r)' = {}
  BY <1>1, <1>4, SaidNothing DEF Coming, Said
<1>6. /\ doing'[r] = d /\ cdp'[r] = Connected
      /\ DOMAIN doing' = Renders /\ DOMAIN cdp' = Renders
      /\ \A g \in Renders \ {r} : Apart(g)
  BY <1>1 DEF IInv, Apart, process
<1>7. SlotsInv'
  BY <1>1, <1>2, WorksOn DEF Talking
<1>8. Typed(r)'
  BY <1>1, <1>2, <1>3, <1>6 DEF RenderInv, Typed, Connected, CdpFields
<1>9. Placed(r)'
  BY <1>1, <1>2, <1>4, <1>6
  DEF Placed, WithTemp, WithBrowser, Talking, Before, process, Connected
<1>10. Drawn(r)' /\ Matching(r)' /\ Loading(r)'
  BY <1>1, <1>2, <1>4, <1>5, <1>6 DEF Drawn, Matching, Loading, Early, Connected
<1> QED
  BY <1>1, <1>6, <1>7, <1>8, <1>9, <1>10, Assembled DEF IInv, RenderInv, process

\* The id is new to everything under way.
LEMMA TakeIdKeeps ==
  ASSUME IInv, NEW r \in Renders, TakeId(r)
  PROVE  IInv'
<1> DEFINE d == [doing[r] EXCEPT !.step = "send", !.id = cdp[r].next]
           c == [cdp[r] EXCEPT !.next = cdp[r].next + 1]
<1>0. RenderInv(r) /\ doing[r] \in [step : Steps, n : 0..3, id : Nat] /\ doing[r].step = "id"
      /\ cdp[r].open /\ DOMAIN cdp[r] = CdpFields /\ cdp[r].next \in Nat
  BY DEF IInv, RenderInv, Typed, Placed, Talking, TakeId, At
<1>1. doing' = [doing EXCEPT ![r] = d] /\ cdp' = [cdp EXCEPT ![r] = c]
      /\ UNCHANGED <<process, inbox, loop, page, owed>>
  BY DEF TakeId, IInv
<1>2. /\ d \in [step : Steps, n : 0..3, id : Nat]
      /\ d.step = "send" /\ d.n = doing[r].n /\ d.id = cdp[r].next
  BY <1>0 DEF Steps
<1>3. /\ DOMAIN c = CdpFields /\ c.open = cdp[r].open /\ c.next = cdp[r].next + 1
      /\ c.responses = cdp[r].responses /\ c.seen = cdp[r].seen
  BY <1>0 DEF CdpFields
<1> HIDE DEF d, c
<1>12. c.next \in Nat /\ c.open \in BOOLEAN /\ DOMAIN c.responses \subseteq Nat
  <2>1. DOMAIN cdp[r].responses \subseteq Nat /\ cdp[r].open \in BOOLEAN
    BY <1>0 DEF RenderInv, Typed
  <2> QED
    BY <1>0, <1>3, <2>1
<1>4. /\ doing'[r] = d /\ cdp'[r] = c
      /\ DOMAIN doing' = Renders /\ DOMAIN cdp' = Renders
      /\ \A g \in Renders \ {r} : Apart(g)
  BY <1>1 DEF IInv, Apart, process
<1>5. SlotsInv'
  BY <1>0, <1>1, <1>2, WorksOn DEF Talking
<1>6. Coming(r)' = Coming(r) /\ Coming(r) \subseteq Message
  BY <1>0, <1>1 DEF Coming, Said, RenderInv, Typed
<1>7. Typed(r)'
  <2>1. /\ inbox'[r] \in Seq(Message) /\ owed'[r] \subseteq Message
        /\ page'[r] \in [state : {"blank", "loading", "loaded"}, paused : Nat]
    BY <1>0, <1>1 DEF RenderInv, Typed
  <2> QED
    BY <1>2, <1>3, <1>12, <1>4, <2>1 DEF Typed
<1>8. Placed(r)'
  BY <1>0, <1>1, <1>2, <1>3, <1>4
  DEF RenderInv, Placed, WithTemp, WithBrowser, Talking, Before, process
<1>9. Drawn(r)'
  <2>1. \A m \in Coming(r) : m.id \in Nat
    BY <1>6 DEF Message
  <2>2. \A i \in DOMAIN cdp[r].responses : i \in Nat
    BY <1>0 DEF RenderInv, Typed
  <2>3. loop.id \in Nat
    BY DEF IInv
  <2> QED
    BY <1>0, <1>1, <1>2, <1>3, <1>4, <1>6, <2>1, <2>2, <2>3 DEF RenderInv, Drawn
<1>10. Matching(r)'
  BY <1>0, <1>1, <1>2, <1>3, <1>4, <1>6 DEF RenderInv, Drawn, Matching, Arrived
<1>11. Loading(r)'
  <2>1. (Early(r)' <=> Early(r)) /\ c.seen = cdp[r].seen /\ doing'[r].n = doing[r].n
    BY <1>0, <1>2, <1>3, <1>4 DEF Early
  <2>2. cdp'[r].seen = cdp[r].seen /\ cdp'[r].open = cdp[r].open
    BY <1>3, <1>4
  <2>3. doing'[r].step \in {"id", "send", "reply"} => doing[r].step \in {"id", "send", "reply"}
    BY <1>0
  <2>4. Loading(r)
    BY <1>0 DEF RenderInv
  <2> QED
    BY <1>1, <1>6, <2>1, <2>2, <2>3, <2>4 DEF Loading
<1> QED
  BY <1>1, <1>4, <1>5, <1>7, <1>8, <1>9, <1>10, <1>11, Assembled DEF IInv, RenderInv, process

LEMMA Commands ==
  ASSUME NEW r, doing[r].n \in 1..3
  PROVE  /\ Command(r) \in {"prepare", "navigate", "print"}
         /\ doing[r].n = 1 => Command(r) = "prepare"
         /\ doing[r].n = 2 <=> Command(r) = "navigate"
         /\ doing[r].n = 3 <=> Command(r) = "print"
<1>1. Script[1] = "prepare" /\ Script[2] = "navigate" /\ Script[3] = "print"
  BY DEF Script
<1>2. doing[r].n \in {1, 2, 3}
  OBVIOUS
<1> QED
  BY <1>1, <1>2 DEF Command

\* What the browser comes to owe answers this very command, and a page that
\* starts to load has nothing of an earlier one.
LEMMA SendKeeps ==
  ASSUME IInv, NEW r \in Renders, SendCommand(r), r \in browsers
  PROVE  IInv'
<1> DEFINE d == [doing[r] EXCEPT !.step = "reply"]
<1>. PICK more \in Owes(doing[r].id, Command(r)) : owed' = [owed EXCEPT ![r] = owed[r] \cup more]
  BY DEF SendCommand
<1>0. /\ RenderInv(r) /\ doing[r] \in [step : Steps, n : 0..3, id : Nat] /\ doing[r].step = "send"
      /\ cdp[r].open /\ doing[r].n \in 1..3
  BY DEF IInv, RenderInv, Typed, Placed, Talking, SendCommand, At
<1>1. /\ doing' = [doing EXCEPT ![r] = d]
      /\ owed' = [owed EXCEPT ![r] = owed[r] \cup more]
      /\ page' = IF Command(r) = "navigate"
                   THEN [page EXCEPT ![r] = [state |-> "loading", paused |-> 1]] ELSE page
      /\ UNCHANGED <<process, cdp, inbox, loop>>
  BY DEF SendCommand, Goto, IInv
<1>2. /\ d \in [step : Steps, n : 0..3, id : Nat]
      /\ d.step = "reply" /\ d.n = doing[r].n /\ d.id = doing[r].id
  BY <1>0 DEF Steps
<1> HIDE DEF d
<1>3. /\ Command(r) \in {"prepare", "navigate", "print"}
      /\ doing[r].n = 1 => Command(r) = "prepare"
      /\ doing[r].n = 2 <=> Command(r) = "navigate"
      /\ doing[r].n = 3 <=> Command(r) = "print"
  BY <1>0, Commands
<1>4. /\ doing'[r] = d /\ owed'[r] = owed[r] \cup more
      /\ page'[r] = IF Command(r) = "navigate" THEN [state |-> "loading", paused |-> 1] ELSE page[r]
      /\ DOMAIN doing' = Renders /\ DOMAIN owed' = Renders /\ DOMAIN page' = Renders
      /\ \A g \in Renders \ {r} : Apart(g)
  BY <1>1 DEF IInv, Apart, process
<1>5. Coming(r)' = Coming(r) \cup more
  BY <1>1, <1>4 DEF Coming, Said
<1>6. /\ more \subseteq Message
      /\ \A m \in more :
             \/ m.kind = "reply" /\ m.id = doing[r].id /\ m.to = Command(r)
             \/ m.kind = "load" /\ m.to = "blank" /\ Command(r) = "prepare"
             \/ m.kind = "paused" /\ Command(r) = "navigate"
  BY <1>0, <1>3 DEF Owes, Message
<1>7. Command(r)' = Command(r)
  BY <1>2, <1>4 DEF Command
<1>8. SlotsInv'
  BY <1>0, <1>1, <1>2, WorksOn DEF Talking
<1>9. Typed(r)'
  BY <1>0, <1>1, <1>2, <1>4, <1>6 DEF RenderInv, Typed
<1>10. Placed(r)'
  BY <1>0, <1>1, <1>2, <1>4 DEF RenderInv, Placed, WithTemp, WithBrowser, Talking, Before, process
<1>11. Drawn(r)'
  BY <1>0, <1>1, <1>2, <1>4, <1>5, <1>6 DEF RenderInv, Drawn
<1>12. Matching(r)'
  BY <1>0, <1>1, <1>2, <1>4, <1>5, <1>6, <1>7 DEF RenderInv, Matching, Arrived, At
<1>13. Loading(r)'
  <2>1. CASE doing[r].n = 2
    <3>1. Early(r) /\ ~Early(r)'
      BY <1>0, <1>2, <1>4, <2>1 DEF Early
    <3>2. \A m \in Coming(r)' : m.kind = "load" => m.to = "blank"
      BY <1>0, <1>5, <1>6, <3>1 DEF RenderInv, Loading
    <3> QED
      BY <1>0, <1>1, <1>2, <1>4, <2>1, <3>1, <3>2 DEF RenderInv, Loading
  <2>2. CASE doing[r].n # 2
    <3>1. page'[r] = page[r] /\ (Early(r)' <=> Early(r))
      BY <1>0, <1>2, <1>3, <1>4, <2>2 DEF Early
    <3>2. \A m \in more : m.kind = "reply" \/ (m.kind = "load" /\ m.to = "blank")
      BY <1>3, <1>6, <2>2
    <3> QED
      BY <1>0, <1>1, <1>2, <1>4, <1>5, <3>1, <3>2 DEF RenderInv, Loading
  <2> QED
    BY <2>1, <2>2
<1> QED
  BY <1>1, <1>4, <1>8, <1>9, <1>10, <1>11, <1>12, <1>13, Assembled DEF IInv, RenderInv, process

\* A command is followed by the next, by the wait for the page, or by the end; a
\* reply that is an error ends the render too.
LEMMA AwaitReplyKeeps ==
  ASSUME IInv, NEW r \in Renders, AwaitReply(r), Arrived(r)
  PROVE  IInv'
<1> DEFINE c == [cdp[r] EXCEPT !.responses = [i \in DOMAIN @ \ {doing[r].id} |-> @[i]]]
           d == doing'[r]
<1>0. /\ RenderInv(r) /\ doing[r] \in [step : Steps, n : 0..3, id : Nat] /\ doing[r].step = "reply"
      /\ cdp[r].open /\ doing[r].n \in 1..3 /\ DOMAIN cdp[r] = CdpFields
      /\ cdp[r].open \in BOOLEAN /\ cdp[r].next \in Nat /\ DOMAIN cdp[r].responses \subseteq Nat
  BY DEF IInv, RenderInv, Typed, Placed, Talking, AwaitReply, At
<1>1. /\ doing' = [doing EXCEPT ![r] = d] /\ cdp' = [cdp EXCEPT ![r] = c]
      /\ UNCHANGED <<process, inbox, loop, page, owed>>
  BY DEF AwaitReply, Throw, Goto, IInv
<1>2. /\ d \in [step : Steps, n : 0..3, id : Nat]
      /\ \/ d.step = "disconnect" /\ d.n = doing[r].n
         \/ d.step = "disconnect" /\ d.n = 3 /\ doing[r].n = 3
         \/ d.step = "id" /\ d.n = 2 /\ doing[r].n = 1
         \/ d.step = "event" /\ d.n = 2 /\ doing[r].n = 2
  <2>1. CASE Throw(r)
    BY <1>0, <2>1 DEF Throw, Goto, IInv, Steps
  <2>2. CASE doing' = [doing EXCEPT ![r] = NextStep(r)]
    <3>1. d = NextStep(r)
      BY <2>2 DEF IInv
    <3>2. doing[r].n \in {1, 2, 3}
      BY <1>0
    <3>3. /\ Command(r) \in {"prepare", "navigate", "print"}
          /\ doing[r].n = 1 => Command(r) = "prepare"
          /\ doing[r].n = 2 <=> Command(r) = "navigate"
          /\ doing[r].n = 3 <=> Command(r) = "print"
      BY <1>0, Commands
    <3> QED
      BY <3>1, <3>2, <3>3 DEF NextStep, Steps
  <2> QED
    BY <2>1, <2>2 DEF AwaitReply
<1>3. /\ DOMAIN c = CdpFields /\ c.open = cdp[r].open /\ c.next = cdp[r].next
      /\ DOMAIN c.responses \subseteq DOMAIN cdp[r].responses /\ c.seen = cdp[r].seen
  BY <1>0 DEF CdpFields
<1> HIDE DEF d, c
<1>4. /\ doing'[r] = d /\ cdp'[r] = c
      /\ DOMAIN doing' = Renders /\ DOMAIN cdp' = Renders
      /\ \A g \in Renders \ {r} : Apart(g)
  <2>1. \A g \in Renders \ {r} : doing'[g] = doing[g]
    BY <1>1 DEF IInv
  <2>2. doing'[r] = d
    BY DEF d
  <2> QED
    BY <1>1, <2>1, <2>2 DEF IInv, Apart, process
<1>5. SlotsInv'
  BY <1>0, <1>1, <1>2, WorksOn DEF Talking
<1>6. Coming(r)' = Coming(r)
  BY <1>1 DEF Coming, Said
<1>7. Typed(r)'
  <2>1. /\ inbox'[r] \in Seq(Message) /\ owed'[r] \subseteq Message
        /\ page'[r] \in [state : {"blank", "loading", "loaded"}, paused : Nat]
    BY <1>0, <1>1 DEF RenderInv, Typed
  <2>2. c.next \in Nat /\ c.open \in BOOLEAN /\ DOMAIN c.responses \subseteq Nat
    BY <1>0, <1>3
  <2> QED
    BY <1>2, <1>3, <1>4, <2>1, <2>2 DEF Typed
<1>8. Placed(r)'
  <2>1. /\ d.step \in Talking \cup {"disconnect"} /\ d.step \notin Before
        /\ d.step \in WithTemp /\ d.step \in WithBrowser
        /\ d.step \in {"id", "send", "reply"} => d.n \in 1..3
        /\ d.step = "event" => d.n = 2
    BY <1>2 DEF WithTemp, WithBrowser, Talking, Before
  <2> QED
    BY <1>0, <1>1, <1>3, <1>4, <2>1 DEF Placed
<1>9. Drawn(r)'
  BY <1>0, <1>1, <1>2, <1>3, <1>4, <1>6 DEF RenderInv, Drawn
<1>10. Matching(r)'
  BY <1>2, <1>4 DEF Matching
<1>11. Loading(r)'
  <2>1. Early(r)' => Early(r)
    BY <1>0, <1>2, <1>4 DEF Early
  <2> QED
    BY <1>0, <1>1, <1>2, <1>3, <1>4, <1>6, <2>1 DEF RenderInv, Loading
<1> QED
  BY <1>1, <1>4, <1>5, <1>7, <1>8, <1>9, <1>10, <1>11, Assembled DEF IInv, RenderInv, process

\* The page has loaded when its event is heard of.
LEMMA AwaitEventKeeps ==
  ASSUME IInv, NEW r \in Renders, AwaitEvent(r), cdp[r].seen # {}
  PROVE  IInv'
<1> DEFINE d == [step |-> "id", n |-> 3, id |-> 0]
<1>0. RenderInv(r) /\ doing[r].step = "event" /\ doing[r].n = 2 /\ cdp[r].open
  BY DEF IInv, RenderInv, Placed, Talking, AwaitEvent, At
<1>1. doing' = [doing EXCEPT ![r] = d] /\ UNCHANGED <<process, cdp, inbox, loop, page, owed>>
  BY DEF AwaitEvent
<1>2. d \in [step : Steps, n : 0..3, id : Nat] /\ d.step = "id" /\ d.n = 3
  BY DEF Steps
<1> HIDE DEF d
<1>3. doing'[r] = d /\ DOMAIN doing' = Renders /\ \A g \in Renders \ {r} : Apart(g)
  BY <1>1 DEF IInv, Apart, process
<1>4. SlotsInv'
  BY <1>0, <1>1, <1>2, WorksOn DEF Talking
<1>5. Coming(r)' = Coming(r)
  BY <1>1 DEF Coming, Said
<1>6. Typed(r)'
  BY <1>0, <1>1, <1>2, <1>3 DEF RenderInv, Typed
<1>7. Placed(r)'
  BY <1>0, <1>1, <1>2, <1>3
  DEF RenderInv, Placed, WithTemp, WithBrowser, Talking, Before, process
<1>8. Drawn(r)' /\ Matching(r)'
  BY <1>0, <1>1, <1>2, <1>3, <1>5 DEF RenderInv, Drawn, Matching
<1>9. Loading(r)'
  BY <1>0, <1>1, <1>2, <1>3, <1>5 DEF RenderInv, Loading, Early
<1> QED
  BY <1>1, <1>3, <1>4, <1>6, <1>7, <1>8, <1>9, Assembled DEF IInv, RenderInv, process

\* Nothing of a connection outlives it, on the loop thread neither.
LEMMA DisconnectKeeps ==
  ASSUME IInv, NEW r \in Renders, Disconnect(r)
  PROVE  IInv'
<1> DEFINE d == [doing[r] EXCEPT !.step = "kill"]
<1>0. RenderInv(r) /\ doing[r] \in [step : Steps, n : 0..3, id : Nat] /\ doing[r].step = "disconnect"
  BY DEF IInv, RenderInv, Typed, Disconnect, At
<1>1. /\ doing' = [doing EXCEPT ![r] = d]
      /\ cdp' = [cdp EXCEPT ![r] = NoCdp] /\ inbox' = [inbox EXCEPT ![r] = <<>>]
      /\ loop' = IF loop.render = r THEN Stale ELSE loop
      /\ UNCHANGED <<process, page, owed>>
  BY DEF Disconnect, Goto, IInv
<1>2. /\ d \in [step : Steps, n : 0..3, id : Nat]
      /\ d.step = "kill" /\ d.n = doing[r].n
  BY <1>0 DEF Steps
<1> HIDE DEF d
<1>3. /\ loop'.render # r
      /\ loop' = loop \/ loop'.render = NoRender
      /\ loop' \in [render : Renders \cup {NoRender}, id : Nat]
  BY <1>1, PdfExportAssumption DEF IInv, Stale, PdfExportAssumption
<1>4. /\ doing'[r] = d /\ cdp'[r] = NoCdp /\ inbox'[r] = <<>>
      /\ DOMAIN doing' = Renders /\ DOMAIN cdp' = Renders /\ DOMAIN inbox' = Renders
      /\ \A g \in Renders \ {r} : Apart(g)
  BY <1>1, <1>3, PdfExportAssumption DEF IInv, Apart, process, PdfExportAssumption
<1>5. SlotsInv'
  <2>1. \A g \in Renders : doing'[g].step \in Holding <=> doing[g].step \in Holding
    BY <1>0, <1>2, <1>4 DEF Holding, Steps, Apart
  <2> QED
    BY <1>1, <2>1, SlotsKeep DEF process
<1>6. Coming(r)' \subseteq owed[r] /\ ~cdp'[r].open
  BY <1>1, <1>4 DEF Coming, Said, NoCdp
<1>7. Typed(r)'
  <2>1. /\ owed'[r] \subseteq Message
        /\ page'[r] \in [state : {"blank", "loading", "loaded"}, paused : Nat]
    BY <1>0, <1>1 DEF RenderInv, Typed
  <2>2. cdp'[r].open = FALSE /\ inbox'[r] \in Seq(Message)
    BY <1>4 DEF NoCdp
  <2> QED
    BY <1>2, <1>4, <2>1, <2>2 DEF Typed
<1>8. Placed(r)'
  <2>1. doing'[r].step = "kill" /\ temps' = temps /\ browsers' = browsers
    BY <1>1, <1>2, <1>4 DEF process
  <2>2. "kill" \in WithTemp /\ "kill" \in WithBrowser /\ "kill" \notin Talking \cup Before
    BY DEF WithTemp, WithBrowser, Talking, Before
  <2> QED
    BY <1>3, <1>4, <1>6, <2>1, <2>2 DEF Placed
<1>9. Drawn(r)' /\ Matching(r)'
  BY <1>2, <1>4, <1>6 DEF Drawn, Matching
<1>10. Loading(r)'
  <2>1. Early(r)' => Early(r)
    BY <1>2, <1>4 DEF Early
  <2>2. Coming(r)' \subseteq Coming(r)
    BY <1>6 DEF Coming
  <2> QED
    BY <1>0, <1>1, <1>2, <1>3, <1>4, <1>6, <2>1, <2>2 DEF RenderInv, Loading
<1> QED
  BY <1>1, <1>3, <1>4, <1>5, <1>7, <1>8, <1>9, <1>10, Assembled DEF IInv, RenderInv, process
----------------------------------------------------------------------------
(* The loop thread *)

LEMMA SaidOfTail ==
  ASSUME NEW r, inbox[r] \in Seq(Message), inbox[r] # <<>>, inbox'[r] = Tail(inbox[r])
  PROVE  /\ Head(inbox[r]) \in Said(r) /\ Head(inbox[r]) \in Message
         /\ Said(r)' \subseteq Said(r) /\ inbox'[r] \in Seq(Message)
<1> DEFINE q == inbox[r]
<1>1. /\ Len(q) \in Nat \ {0} /\ Head(q) = q[1] /\ q[1] \in Message
      /\ Len(Tail(q)) = Len(q) - 1 /\ Tail(q) \in Seq(Message)
      /\ \A i \in 1..Len(Tail(q)) : Tail(q)[i] = q[i + 1]
  OBVIOUS
<1>2. Head(q) \in Said(r)
  BY <1>1 DEF Said
<1>3. ASSUME NEW i \in 1..Len(Tail(q)) PROVE Tail(q)[i] \in Said(r)
  <2>1. i + 1 \in 1..Len(q)
    BY <1>1
  <2> QED
    BY <1>1, <2>1 DEF Said
<1>4. Said(r)' \subseteq Said(r)
  BY <1>3 DEF Said
<1> QED
  BY <1>1, <1>2, <1>4

LEMMA SaidOfAppend ==
  ASSUME NEW r, NEW m \in Message, inbox[r] \in Seq(Message), inbox'[r] = Append(inbox[r], m)
  PROVE  Said(r)' \subseteq Said(r) \cup {m} /\ inbox'[r] \in Seq(Message)
<1> DEFINE q == inbox[r]
<1>1. /\ Len(q) \in Nat /\ Len(Append(q, m)) = Len(q) + 1
      /\ Append(q, m) \in Seq(Message) /\ Append(q, m)[Len(q) + 1] = m
      /\ \A i \in 1..Len(q) : Append(q, m)[i] = q[i]
  OBVIOUS
<1>2. ASSUME NEW i \in 1..Len(Append(q, m)) PROVE Append(q, m)[i] \in Said(r) \cup {m}
  <2>1. i \in 1..Len(q) \/ i = Len(q) + 1
    BY <1>1
  <2> QED
    BY <1>1, <2>1 DEF Said
<1> QED
  BY <1>1, <1>2 DEF Said

\* A message is only read for a session that is there.
LEMMA Reading ==
  ASSUME IInv, NEW r \in Renders, inbox[r] # <<>>, Next1(r), UNCHANGED <<doing, process, page, owed>>
  PROVE  /\ RenderInv(r) /\ cdp[r].open
         /\ DOMAIN cdp[r] = CdpFields /\ cdp[r].next \in Nat /\ DOMAIN cdp[r].responses \subseteq Nat
         /\ Head1(r) \in Coming(r) /\ Head1(r) \in Message
         /\ Coming(r)' \subseteq Coming(r) /\ inbox'[r] \in Seq(Message)
         /\ DOMAIN inbox' = Renders /\ \A g \in Renders \ {r} : inbox'[g] = inbox[g]
         /\ SlotsInv'
<1>1. RenderInv(r)
  BY DEF IInv
<1>2. cdp[r].open /\ inbox[r] \in Seq(Message)
  BY <1>1 DEF RenderInv, Placed, Typed
<1>3. /\ inbox'[r] = Tail(inbox[r])
      /\ DOMAIN inbox' = Renders /\ \A g \in Renders \ {r} : inbox'[g] = inbox[g]
  BY DEF Next1, IInv
<1>4. /\ Head1(r) \in Said(r) /\ Head1(r) \in Message
      /\ Said(r)' \subseteq Said(r) /\ inbox'[r] \in Seq(Message)
  BY <1>2, <1>3, SaidOfTail DEF Head1
<1>5. SlotsInv'
  BY SlotsKeep DEF process
<1> QED
  BY <1>1, <1>2, <1>3, <1>4, <1>5 DEF Coming, RenderInv, Typed

\* What is left to do for a message that changed the session, and nothing else.
LEMMA SessionKeeps ==
  ASSUME IInv, NEW r \in Renders, NEW c,
         inbox[r] # <<>>, Next1(r), UNCHANGED <<doing, process, page, owed>>,
         cdp' = [cdp EXCEPT ![r] = c], c.open = TRUE, DOMAIN c = CdpFields,
         c.next \in Nat, DOMAIN c.responses \subseteq Nat,
         loop' \in [render : Renders \cup {NoRender}, id : Nat],
         loop' = loop \/ loop'.render = r,
         Drawn(r)', Matching(r)', Loading(r)'
  PROVE  IInv'
<1>1. /\ RenderInv(r) /\ cdp[r].open
      /\ inbox'[r] \in Seq(Message) /\ DOMAIN inbox' = Renders
      /\ \A g \in Renders \ {r} : inbox'[g] = inbox[g]
      /\ SlotsInv'
  BY Reading
<1>2. cdp'[r] = c /\ DOMAIN cdp' = Renders /\ \A g \in Renders \ {r} : Apart(g)
  BY <1>1 DEF IInv, Apart, process
<1>3. Typed(r)'
  BY <1>1, <1>2 DEF RenderInv, Typed
<1>4. Placed(r)'
  BY <1>1, <1>2 DEF RenderInv, Placed, process
<1> QED
  BY <1>1, <1>2, <1>3, <1>4, Assembled DEF IInv, RenderInv, process

\* A reply under a command's id is the command's.
LEMMA ReceiveReplyKeeps ==
  ASSUME IInv, NEW r \in Renders, ReceiveReply(r)
  PROVE  IInv'
<1> DEFINE h == Head1(r)
           rs == [i \in DOMAIN cdp[r].responses \cup {h.id} |->
                     IF i = h.id THEN h.to ELSE cdp[r].responses[i]]
           c == [cdp[r] EXCEPT !.responses = rs]
<1>0. /\ inbox[r] # <<>> /\ h.kind = "reply" /\ Next1(r) /\ cdp' = [cdp EXCEPT ![r] = c]
      /\ loop' = loop /\ UNCHANGED <<doing, process, page, owed>>
  BY DEF ReceiveReply, IInv
<1>1. /\ RenderInv(r) /\ cdp[r].open
      /\ DOMAIN cdp[r] = CdpFields /\ cdp[r].next \in Nat /\ DOMAIN cdp[r].responses \subseteq Nat
      /\ h \in Coming(r) /\ h \in Message /\ Coming(r)' \subseteq Coming(r)
  BY <1>0, Reading
<1>2. /\ DOMAIN c = CdpFields /\ c.open = cdp[r].open /\ c.next = cdp[r].next
      /\ c.responses = rs /\ c.seen = cdp[r].seen
  BY <1>1 DEF CdpFields
<1>3. /\ DOMAIN rs = DOMAIN cdp[r].responses \cup {h.id}
      /\ rs[h.id] = h.to
      /\ \A i \in DOMAIN cdp[r].responses : i # h.id => rs[i] = cdp[r].responses[i]
      /\ h.id \in Nat /\ h.id < cdp[r].next
  BY <1>0, <1>1 DEF Message, RenderInv, Drawn
<1>4. cdp'[r] = c /\ c.open = TRUE
  BY <1>0, <1>1, <1>2 DEF IInv, RenderInv, Typed
<1> HIDE DEF rs, c, h
<1>5. Drawn(r)'
  BY <1>0, <1>1, <1>2, <1>3, <1>4 DEF RenderInv, Drawn
<1>6. Matching(r)'
  <2> SUFFICES ASSUME doing'[r].step \in {"send", "reply"} PROVE Matching(r)'
    BY DEF Matching
  <2>1. doing[r].step \in {"send", "reply"}
    BY <1>0
  <2>2. Command(r)' = Command(r)
    BY <1>0 DEF Command
  <2>3. h.id = doing[r].id => At(r, "reply") /\ h.to = Command(r)
    BY <1>0, <1>1, <2>1 DEF RenderInv, Matching
  <2>4. Arrived(r)' => At(r, "reply") /\ rs[doing[r].id] = Command(r)
    BY <1>0, <1>1, <1>2, <1>3, <1>4, <2>1, <2>3 DEF RenderInv, Matching, Arrived
  <2> QED
    BY <1>0, <1>1, <1>2, <1>4, <2>1, <2>2, <2>4 DEF RenderInv, Matching, At
<1>7. Loading(r)'
  BY <1>0, <1>1, <1>2, <1>4 DEF RenderInv, Loading, Early
<1>8. DOMAIN c.responses \subseteq Nat /\ c.next \in Nat
  BY <1>1, <1>2, <1>3
<1>9. loop' \in [render : Renders \cup {NoRender}, id : Nat]
  BY <1>0 DEF IInv
<1> QED
  BY <1>0, <1>2, <1>4, <1>5, <1>6, <1>7, <1>8, <1>9, SessionKeeps

LEMMA ReceiveLoadKeeps ==
  ASSUME IInv, NEW r \in Renders, ReceiveLoad(r) \/ ReceiveClose(r)
  PROVE  IInv'
<1> DEFINE c == cdp'[r]
<1>0. /\ inbox[r] # <<>> /\ Next1(r)
      /\ \/ cdp' = [cdp EXCEPT ![r] = [cdp[r] EXCEPT !.seen = cdp[r].seen \cup {Head1(r).to}]] /\ Head1(r).kind = "load"
         \/ cdp' = [cdp EXCEPT ![r] = [cdp[r] EXCEPT !.closed = TRUE]]
      /\ loop' = loop /\ UNCHANGED <<doing, process, page, owed>>
  BY DEF ReceiveLoad, ReceiveClose, IInv
<1>1. /\ RenderInv(r) /\ cdp[r].open
      /\ DOMAIN cdp[r] = CdpFields /\ cdp[r].next \in Nat /\ DOMAIN cdp[r].responses \subseteq Nat
      /\ Head1(r) \in Coming(r) /\ Coming(r)' \subseteq Coming(r)
  BY <1>0, Reading
<1>2. /\ DOMAIN c = CdpFields /\ c.open = cdp[r].open /\ c.next = cdp[r].next
      /\ c.responses = cdp[r].responses
      /\ \/ c.seen = cdp[r].seen
         \/ c.seen = cdp[r].seen \cup {Head1(r).to} /\ Head1(r).kind = "load"
  <2>1. CASE c = [cdp[r] EXCEPT !.seen = cdp[r].seen \cup {Head1(r).to}] /\ Head1(r).kind = "load"
    BY <1>1, <2>1 DEF CdpFields
  <2>2. CASE c = [cdp[r] EXCEPT !.closed = TRUE]
    BY <1>1, <2>2 DEF CdpFields
  <2>3. DOMAIN cdp = Renders
    BY DEF IInv
  <2> QED
    BY <1>0, <2>1, <2>2, <2>3
<1>3. cdp' = [cdp EXCEPT ![r] = c] /\ c.open = TRUE
  BY <1>0, <1>1, <1>2 DEF IInv, RenderInv, Typed
<1> HIDE DEF c
<1>4. cdp'[r] = c
  BY DEF c
<1>5. Drawn(r)'
  BY <1>0, <1>1, <1>2, <1>4 DEF RenderInv, Drawn
<1>6. Matching(r)'
  BY <1>0, <1>1, <1>2, <1>4 DEF RenderInv, Matching, Arrived, At, Command
<1>7. Loading(r)'
  <2>1. /\ c.seen \subseteq {"blank", "page"}
        /\ "page" \in c.seen => page[r].state = "loaded" /\ ~Early(r)
        /\ "blank" \in cdp[r].seen => "blank" \in c.seen
    BY <1>1, <1>2 DEF RenderInv, Loading
  <2> QED
    BY <1>0, <1>1, <1>2, <1>4, <2>1 DEF RenderInv, Loading, Early
<1>8. DOMAIN c.responses \subseteq Nat /\ c.next \in Nat
  BY <1>1, <1>2
<1>9. loop' \in [render : Renders \cup {NoRender}, id : Nat]
  BY <1>0 DEF IInv
<1> QED
  BY <1>0, <1>2, <1>3, <1>5, <1>6, <1>7, <1>8, <1>9, SessionKeeps

\* The id of the loop's answer is not that of the command under way: it was taken.
LEMMA ReceivePausedKeeps ==
  ASSUME IInv, NEW r \in Renders, ReceivePaused(r)
  PROVE  IInv'
<1> DEFINE c == [cdp[r] EXCEPT !.next = cdp[r].next + 1]
<1>0. /\ inbox[r] # <<>> /\ Head1(r).kind = "paused" /\ Next1(r)
      /\ cdp' = [cdp EXCEPT ![r] = c]
      /\ loop' = [render |-> r, id |-> cdp[r].next]
      /\ UNCHANGED <<doing, process, page, owed>>
  BY DEF ReceivePaused, IInv
<1>1. /\ RenderInv(r) /\ cdp[r].open
      /\ DOMAIN cdp[r] = CdpFields /\ cdp[r].next \in Nat /\ DOMAIN cdp[r].responses \subseteq Nat
      /\ Head1(r) \in Coming(r) /\ Coming(r)' \subseteq Coming(r)
  BY <1>0, Reading
<1>2. /\ DOMAIN c = CdpFields /\ c.open = cdp[r].open /\ c.next = cdp[r].next + 1
      /\ c.responses = cdp[r].responses /\ c.seen = cdp[r].seen
  BY <1>1 DEF CdpFields
<1>3. cdp'[r] = c /\ c.open = TRUE
  BY <1>0, <1>1, <1>2 DEF IInv, RenderInv, Typed
<1> HIDE DEF c
<1>4. loop'.render = r /\ loop'.id = cdp[r].next
  BY <1>0
<1>5. /\ \A m \in Coming(r) : m.id \in Nat
      /\ doing[r].id \in Nat
  <2>1. Coming(r) \subseteq Message
    <3>1. inbox[r] \in Seq(Message) /\ owed[r] \subseteq Message
      BY <1>1 DEF RenderInv, Typed
    <3>2. \A i \in 1..Len(inbox[r]) : inbox[r][i] \in Message
      BY <3>1
    <3> QED
      BY <3>1, <3>2 DEF Coming, Said
  <2> QED
    BY <1>1, <2>1 DEF Message, RenderInv, Typed
<1>6. Drawn(r)'
  <2>1. \A m \in Coming(r)' : m.kind = "reply" => m.id < cdp[r].next /\ m.id \in Nat
    BY <1>1, <1>5 DEF RenderInv, Drawn
  <2>2. \A i \in DOMAIN cdp[r].responses : i < cdp[r].next /\ i \in Nat
    BY <1>1 DEF RenderInv, Drawn
  <2>3. doing[r].step \in {"send", "reply"} => doing[r].id < cdp[r].next
    BY <1>1 DEF RenderInv, Drawn
  <2> QED
    BY <1>0, <1>1, <1>2, <1>3, <1>4, <1>5, <2>1, <2>2, <2>3 DEF Drawn
<1>7. Matching(r)'
  <2>1. doing[r].step \in {"send", "reply"} => doing[r].id < cdp[r].next
    BY <1>1 DEF RenderInv, Drawn
  <2>2. doing[r].step \in {"send", "reply"} => loop'.id # doing[r].id
    BY <1>1, <1>4, <1>5, <2>1
  <2> QED
    BY <1>0, <1>1, <1>2, <1>3, <2>2 DEF RenderInv, Matching, Arrived, At, Command
<1>8. Loading(r)'
  <2>1. ~Early(r)
    BY <1>0, <1>1 DEF RenderInv, Loading
  <2> QED
    BY <1>0, <1>1, <1>2, <1>3, <2>1 DEF RenderInv, Loading, Early
<1>9. DOMAIN c.responses \subseteq Nat /\ c.next \in Nat
  BY <1>1, <1>2
<1>10. loop' \in [render : Renders \cup {NoRender}, id : Nat]
  BY <1>0, <1>1
<1> QED
  BY <1>0, <1>2, <1>3, <1>4, <1>6, <1>7, <1>8, <1>9, <1>10, SessionKeeps

\* Where nothing came and only the loop is at rest again.
LEMMA RestKeeps ==
  ASSUME IInv, loop' = NoHandling \/ loop' = loop,
         UNCHANGED <<doing, process, cdp, inbox, page, owed>>
  PROVE  IInv'
<1>1. \A g \in Renders : Apart(g)
  BY PdfExportAssumption DEF Apart, process, NoHandling, PdfExportAssumption
<1>2. \A g \in Renders : RenderInv(g)'
  BY <1>1, OthersKeep DEF IInv
<1>3. SlotsInv'
  BY SlotsKeep DEF process
<1>4. loop' \in [render : Renders \cup {NoRender}, id : Nat]
  BY DEF IInv, NoHandling
<1> QED
  BY <1>2, <1>3, <1>4 DEF IInv, process

\* What the answer to a paused request brings is only of a page that was navigated,
\* and the load event comes with the load.
LEMMA AnswerPausedKeeps ==
  ASSUME IInv, AnswerPaused
  PROVE  IInv'
<1>1. CASE ~(loop.render \in browsers /\ cdp[loop.render].open)
  BY <1>1, RestKeeps DEF AnswerPaused
<1>2. ASSUME NEW r \in browsers, loop.render = r, cdp[r].open
      PROVE  IInv'
  <2> DEFINE reply == [kind |-> "reply", id |-> loop.id, to |-> "fetch"]
             more == [kind |-> "paused", id |-> page[r].paused, to |-> "page"]
             load == [kind |-> "load", id |-> 0, to |-> "page"]
             paused == [page[r] EXCEPT !.paused = @ + 1]
             loaded == [page[r] EXCEPT !.state = "loaded"]
  <2>0. /\ r \in Renders /\ RenderInv(r) /\ loop.id \in Nat /\ loop.id < cdp[r].next
        /\ page[r] \in [state : {"blank", "loading", "loaded"}, paused : Nat]
    BY <1>2 DEF IInv, RenderInv, Typed, Drawn
  <2>1. /\ \/ /\ page' = [page EXCEPT ![r] = paused]
              /\ owed' = [owed EXCEPT ![r] = @ \cup {reply, more}]
           \/ /\ page' = [page EXCEPT ![r] = loaded]
              /\ owed' = [owed EXCEPT ![r] = @ \cup {reply, load}]
        /\ loop' = NoHandling /\ UNCHANGED <<doing, process, cdp, inbox>>
    BY <1>2, <2>0 DEF AnswerPaused, IInv
  <2>2. /\ paused.state = page[r].state /\ loaded.state = "loaded"
        /\ paused \in [state : {"blank", "loading", "loaded"}, paused : Nat]
        /\ loaded \in [state : {"blank", "loading", "loaded"}, paused : Nat]
        /\ reply \in Message /\ more \in Message /\ load \in Message
        /\ reply.kind = "reply" /\ reply.id = loop.id /\ more.kind = "paused"
        /\ load.kind = "load" /\ load.to = "page"
    BY <2>0 DEF Message
  <2> HIDE DEF paused, loaded, reply, more, load
  <2>3. /\ \/ page'[r] = paused /\ owed'[r] = owed[r] \cup {reply, more}
           \/ page'[r] = loaded /\ owed'[r] = owed[r] \cup {reply, load}
        /\ DOMAIN page' = Renders /\ DOMAIN owed' = Renders
        /\ \A g \in Renders \ {r} : page'[g] = page[g] /\ owed'[g] = owed[g]
    BY <2>0, <2>1 DEF IInv
  <2>4. loop'.render = NoRender /\ loop' \in [render : Renders \cup {NoRender}, id : Nat]
    BY <2>1 DEF NoHandling
  <2>5. \A g \in Renders \ {r} : Apart(g)
    BY <2>1, <2>3, <2>4, PdfExportAssumption DEF Apart, process, PdfExportAssumption
  <2>6. SlotsInv'
    BY <2>1, SlotsKeep DEF process
  <2>7. Said(r)' = Said(r)
    BY <2>1 DEF Said
  <2>8. \/ Coming(r)' = Coming(r) \cup {reply, more} /\ page'[r].state = page[r].state
        \/ Coming(r)' = Coming(r) \cup {reply, load} /\ page'[r].state = "loaded"
    BY <2>2, <2>3, <2>7 DEF Coming
  <2>9. Typed(r)'
    BY <2>0, <2>1, <2>2, <2>3 DEF RenderInv, Typed
  <2>10. Placed(r)'
    BY <1>2, <2>0, <2>1, <2>4, PdfExportAssumption
    DEF RenderInv, Placed, process, PdfExportAssumption
  <2>11. Drawn(r)'
    BY <2>0, <2>1, <2>2, <2>4, <2>8, PdfExportAssumption
    DEF RenderInv, Drawn, PdfExportAssumption
  <2>12. Matching(r)'
    BY <1>2, <2>0, <2>1, <2>2, <2>4, <2>8, PdfExportAssumption
    DEF RenderInv, Matching, Arrived, At, Command, PdfExportAssumption
  <2>13. Loading(r)'
    <3>1. ~Early(r)
      BY <1>2, <2>0 DEF RenderInv, Loading
    <3> QED
      BY <2>0, <2>1, <2>2, <2>8, <3>1 DEF RenderInv, Loading, Early
  <2> QED
    BY <2>0, <2>1, <2>3, <2>4, <2>5, <2>6, <2>9, <2>10, <2>11, <2>12, <2>13, Assembled
    DEF IInv, RenderInv, process
<1> QED
  BY <1>1, <1>2
----------------------------------------------------------------------------
(* The browser *)

\* What a browser says, and that it is gone, is nothing a session could not hear.
LEMMA BrowserKeeps ==
  ASSUME IInv, NEW r \in Renders, Say(r) \/ Die(r)
  PROVE  IInv'
<1> DEFINE bye == [kind |-> "closed", id |-> 0, to |-> "page"]
<1>0. RenderInv(r) /\ inbox[r] \in Seq(Message) /\ owed[r] \subseteq Message
  BY DEF IInv, RenderInv, Typed
<1>1. bye \in Message /\ bye.kind = "closed"
  BY DEF Message
<1> HIDE DEF bye
<1>2. /\ UNCHANGED <<doing, slots, temps, refused, cdp, loop, page>>
      /\ browsers' \subseteq browsers /\ \A g \in Renders \ {r} : g \in browsers' <=> g \in browsers
      /\ DOMAIN owed' = Renders /\ DOMAIN inbox' = Renders
      /\ \A g \in Renders \ {r} : owed'[g] = owed[g] /\ inbox'[g] = inbox[g]
      /\ owed'[r] \subseteq owed[r]
  BY DEF Say, Die, IInv, process
<1>3. \/ cdp[r].open /\ \E m \in owed[r] \cup {bye} : inbox'[r] = Append(inbox[r], m)
      \/ ~cdp[r].open /\ inbox'[r] = inbox[r]
  <2>1. CASE Say(r)
    BY <2>1 DEF Say, IInv
  <2>2. CASE Die(r)
    BY <2>2 DEF Die, IInv, bye
  <2> QED
    BY <2>1, <2>2
<1>4. inbox'[r] \in Seq(Message) /\ Coming(r)' \subseteq Coming(r) \cup {bye}
  <2>1. ASSUME NEW m \in owed[r] \cup {bye}, inbox'[r] = Append(inbox[r], m)
        PROVE  inbox'[r] \in Seq(Message) /\ Said(r)' \subseteq Said(r) \cup {m}
    <3>1. m \in Message
      BY <1>0, <1>1
    <3> QED
      BY <1>0, <2>1, <3>1, SaidOfAppend
  <2>2. CASE inbox'[r] = inbox[r]
    BY <1>0, <1>2, <2>2 DEF Coming, Said
  <2> QED
    BY <1>2, <1>3, <2>1, <2>2 DEF Coming
<1>5. \A g \in Renders \ {r} : Apart(g)
  BY <1>2 DEF Apart
<1>6. SlotsInv'
  BY <1>2, SlotsKeep
<1>7. Typed(r)'
  BY <1>0, <1>2, <1>4 DEF RenderInv, Typed
<1>8. Placed(r)'
  BY <1>0, <1>2, <1>3 DEF RenderInv, Placed
<1>9. Drawn(r)' /\ Matching(r)'
  BY <1>0, <1>1, <1>2, <1>4 DEF RenderInv, Drawn, Matching, Arrived, At, Command
<1>10. Loading(r)'
  BY <1>0, <1>1, <1>2, <1>4 DEF RenderInv, Loading, Early
<1> QED
  BY <1>2, <1>5, <1>6, <1>7, <1>8, <1>9, <1>10, Assembled DEF IInv, RenderInv
----------------------------------------------------------------------------
(* Every step, and the theorems *)

LEMMA Inductive ==
  ASSUME IInv, [Next]_vars
  PROVE  IInv'
<1>1. ASSUME NEW r \in Renders, Thread(r)
      PROVE  IInv'
  <2>1. CASE \/ Acquire(r) \/ GiveUp(r) \/ MakeTemp(r) \/ Spawn(r) \/ FindPort(r)
             \/ Kill(r) \/ Remove(r) \/ Release(r) \/ Answer(r)
    BY <2>1, SilentStepsKeep
  <2>2. CASE Connect(r)
    <3>1. CASE Throw(r) /\ UNCHANGED cdp
      BY <2>2, <3>1, ThrowKeeps DEF Connect, At
    <3>2. CASE ~Throw(r)
      BY <2>2, <3>2, ConnectKeeps
    <3>3. CASE Throw(r) /\ doing' = [doing EXCEPT ![r] = [step |-> "id", n |-> 1, id |-> 0]]
      BY <3>3 DEF Throw, Goto, IInv
    <3> QED
      BY <2>2, <3>1, <3>2, <3>3 DEF Connect
  <2>3. CASE TakeId(r)
    BY <2>3, TakeIdKeeps
  <2>4. CASE SendCommand(r)
    <3>1. CASE r \in browsers
      BY <2>4, <3>1, SendKeeps
    <3>2. CASE r \notin browsers
      BY <2>4, <3>2, ThrowKeeps DEF SendCommand, At, Talking
    <3> QED
      BY <3>1, <3>2
  <2>5. CASE AwaitReply(r)
    <3>1. CASE Arrived(r)
      BY <2>5, <3>1, AwaitReplyKeeps
    <3>2. CASE ~Arrived(r)
      BY <2>5, <3>2, ThrowKeeps DEF AwaitReply, At, Talking
    <3> QED
      BY <3>1, <3>2
  <2>6. CASE AwaitEvent(r)
    <3>1. CASE cdp[r].seen # {}
      BY <2>6, <3>1, AwaitEventKeeps
    <3>2. CASE cdp[r].seen = {}
      BY <2>6, <3>2, ThrowKeeps DEF AwaitEvent, At, Talking
    <3> QED
      BY <3>1, <3>2
  <2>7. CASE Disconnect(r)
    BY <2>7, DisconnectKeeps
  <2> QED
    BY <1>1, <2>1, <2>2, <2>3, <2>4, <2>5, <2>6, <2>7 DEF Thread
<1>2. ASSUME NEW r \in Renders, Request(r) \/ Receive(r) \/ Say(r) \/ Die(r)
      PROVE  IInv'
  BY <1>2, SilentStepsKeep, ReceiveReplyKeeps, ReceiveLoadKeeps, ReceivePausedKeeps, BrowserKeeps
  DEF Receive
<1>3. CASE AnswerPaused
  BY <1>3, AnswerPausedKeeps
<1>4. CASE UNCHANGED vars
  BY <1>4, RestKeeps DEF vars, process
<1> QED
  BY <1>1, <1>2, <1>3, <1>4 DEF Next

LEMMA Initially == Init => IInv
<1> SUFFICES ASSUME Init PROVE IInv
  OBVIOUS
<1>1. Holders = {}
  BY DEF Init, Holders, Holding, Idle
<1>2. SlotsInv
  BY <1>1, FS_EmptySet, PdfExportAssumption DEF Init, SlotsInv, PdfExportAssumption
<1>3. ASSUME NEW r \in Renders PROVE RenderInv(r)
  <2>1. /\ doing[r] = Idle /\ cdp[r] = NoCdp /\ inbox[r] = <<>> /\ owed[r] = {}
        /\ page[r] = Blank /\ r \notin temps /\ r \notin browsers /\ loop.render # r
    BY PdfExportAssumption DEF Init, NoHandling, PdfExportAssumption
  <2>2. Coming(r) = {}
    BY <2>1, SaidNothing DEF Coming
  <2>3. Typed(r)
    BY <2>1 DEF Typed, Idle, NoCdp, Blank, Steps
  <2>4. Placed(r)
    BY <2>1 DEF Placed, Idle, NoCdp, Talking
  <2>5. Drawn(r) /\ Matching(r) /\ Loading(r)
    BY <2>1, <2>2 DEF Drawn, Matching, Loading, Idle, NoCdp
  <2> QED
    BY <2>3, <2>4, <2>5 DEF RenderInv
<1> QED
  BY <1>2, <1>3 DEF Init, IInv, NoHandling

\* The invariant holds in every state.
THEOREM Invariance == Spec => []IInv
BY Initially, Inductive, PTL DEF Spec

\* fRenderSlots: every slot is free or held, by one render each, and only a holder
\* has a browser, whatever is thrown where.
THEOREM RendersAreBounded == Spec => []BrowsersBounded
<1>1. ASSUME IInv PROVE BrowsersBounded
  <2>1. slots + Cardinality(Holders) = cMaxConcurrentRenders
    BY <1>1 DEF IInv, SlotsInv
  <2>2. browsers \subseteq Holders
    BY <1>1 DEF IInv, RenderInv, Placed, Holders, WithBrowser, Talking, Holding, Steps
  <2> QED
    BY <2>1, <2>2 DEF BrowsersBounded, Holders
<1> QED
  BY <1>1, Invariance, PTL

\* ~ScopedTempDir and ~ChildProcess: a request that is over left no browser, and no
\* directory but one whose removal was refused.
THEOREM EndsAreClean == Spec => []NothingLeftBehind
<1>1. ASSUME IInv PROVE NothingLeftBehind
  BY <1>1 DEF IInv, RenderInv, Placed, NothingLeftBehind, WithTemp, WithBrowser, Talking
<1> QED
  BY <1>1, Invariance, PTL

\* CdpSession: a command is given its own reply and no other.
THEOREM RepliesAreOwn == Spec => []RepliesMatch
<1>1. ASSUME IInv PROVE RepliesMatch
  BY <1>1 DEF IInv, RenderInv, Matching, RepliesMatch, At
<1> QED
  BY <1>1, Invariance, PTL

\* fWaitForEvent: what is printed is a page that has loaded, unless a late load event
\* of about:blank has come.
THEOREM PrintsAreLoaded == Spec => []PrintedIsLoaded
<1>1. ASSUME IInv PROVE PrintedIsLoaded
  BY <1>1 DEF IInv, RenderInv, Loading, PrintedIsLoaded
<1> QED
  BY <1>1, Invariance, PTL
============================================================================

----------------------------- MODULE PdfExport -----------------------------
(***************************************************************************)
(* PDF export (src/export.cpp): render threads that queue for a slot, run  *)
(* a browser of their own and command it over a WebSocket, and the one     *)
(* loop thread that receives for all of them.                              *)
(*                                                                         *)
(* The browser is the environment: it may answer late, never or with an    *)
(* error, in any order, or die.  Its six commands are three here: those    *)
(* that prepare the page (createTarget to Page.enable), navigate, print.   *)
(***************************************************************************)
EXTENDS Naturals, Sequences, FiniteSets

CONSTANTS
    Renders,                 \* requests in progress at once
    NoRender,
    cMaxConcurrentRenders,
    MaxPaused                \* bound: how many requests a page makes

ASSUME PdfExportAssumption ==
    /\ NoRender \notin Renders
    /\ cMaxConcurrentRenders \in Nat \ {0}
    /\ MaxPaused \in Nat \ {0}

VARIABLES
    doing,      \* where each render thread is, and with which command and id
    slots,      \* fRenderSlots: the free ones
    temps,      \* the renders whose request's directory is on the disk
    refused,    \* those whose directory could not be removed
    browsers,   \* the renders whose browser runs
    cdp,        \* the CdpSession of each render, or NoCdp
    inbox,      \* what came in on each WebSocket and the loop has yet to read
    loop,       \* the paused request the loop thread is about to answer, if any
    page,       \* external: the page of each browser
    owed        \* external: what each browser has yet to say

vars == <<doing, slots, temps, refused, browsers, cdp, inbox, loop, page, owed>>
process == <<slots, temps, refused, browsers>>
browser == <<browsers, page, owed>>

Script == <<"prepare", "navigate", "print">>
NoCdp == [open |-> FALSE]
\* seen are the pages whose load event is among seen_events_, which tells them not
\* apart.
Connected == [open |-> TRUE, next |-> 1, closed |-> FALSE,
              responses |-> [i \in {} |-> "prepare"], seen |-> {}]
Blank == [state |-> "blank", paused |-> 0]
Idle == [step |-> "idle", n |-> 0, id |-> 0]
NoHandling == [render |-> NoRender, id |-> 0]
\* The loop is about to answer for a session that is no more.
Stale == [render |-> NoRender, id |-> 1]

Init ==
    /\ doing = [r \in Renders |-> Idle]
    /\ slots = cMaxConcurrentRenders
    /\ temps = {} /\ refused = {} /\ browsers = {}
    /\ cdp = [r \in Renders |-> NoCdp]
    /\ inbox = [r \in Renders |-> <<>>]
    /\ loop = NoHandling
    /\ page = [r \in Renders |-> Blank]
    /\ owed = [r \in Renders |-> {}]

At(r, step) == doing[r].step = step
Goto(r, step) == doing' = [doing EXCEPT ![r].step = step]
\* The command a thread is at, and an exception: everything is unwound.
Command(r) == Script[doing[r].n]
Throw(r) == Goto(r, "disconnect")
----------------------------------------------------------------------------
(* A render thread up to its connection *)

\* The handler starts a thread and returns.  The request will have a directory of
\* its own: what became of the last one's is no longer followed.
Request(r) ==
    /\ At(r, "idle")
    /\ temps' = temps \ {r}
    /\ refused' = refused \ {r}
    /\ Goto(r, "queue")
    /\ UNCHANGED <<slots, browser, cdp, inbox, loop>>

Acquire(r) ==
    /\ At(r, "queue")
    /\ slots > 0
    /\ slots' = slots - 1
    /\ Goto(r, "temp")
    /\ UNCHANGED <<temps, refused, browser, cdp, inbox, loop>>

\* Mutant: the guard that releases the slot is there before the slot is.
GiveUpGuarded(r) ==
    /\ At(r, "queue")
    /\ slots' = slots + 1
    /\ Goto(r, "answer")
    /\ UNCHANGED <<temps, refused, browser, cdp, inbox, loop>>

\* cQueueTimeout: the renderer is busy.
GiveUp(r) ==
    /\ At(r, "queue")
    /\ Goto(r, "answer")
    /\ UNCHANGED <<process, cdp, inbox, loop, page, owed>>

\* ScopedTempDir and the HTML in it, or an exception before or after.
MakeTemp(r) ==
    /\ At(r, "temp")
    /\ \/ temps' = temps \cup {r} /\ Goto(r, "spawn")
       \/ temps' = temps \cup {r} /\ Throw(r)
       \/ UNCHANGED temps /\ Throw(r)
    /\ UNCHANGED <<slots, refused, browser, cdp, inbox, loop>>

\* ChildProcess, or no browser to be found.
Spawn(r) ==
    /\ At(r, "spawn")
    /\ \/ browsers' = browsers \cup {r} /\ Goto(r, "port")
       \/ UNCHANGED browsers /\ Throw(r)
    /\ UNCHANGED <<slots, temps, refused, cdp, inbox, loop, page, owed>>

\* fWaitForDevtoolsPort: the browser listens, or cRenderTimeout passes.
FindPort(r) ==
    /\ At(r, "port")
    /\ \/ r \in browsers /\ Goto(r, "connect")
       \/ Throw(r)
    /\ UNCHANGED <<process, cdp, inbox, loop, page, owed>>

\* fConnect, for as long at most.
Connect(r) ==
    /\ At(r, "connect")
    /\ \/ /\ r \in browsers
          /\ cdp' = [cdp EXCEPT ![r] = Connected]
          /\ doing' = [doing EXCEPT ![r] = [step |-> "id", n |-> 1, id |-> 0]]
       \/ Throw(r) /\ UNCHANGED cdp
    /\ UNCHANGED <<process, inbox, loop, page, owed>>
----------------------------------------------------------------------------
(* fCall and fWaitForEvent *)

\* The next message id, under the session's mutex.
TakeId(r) ==
    /\ At(r, "id")
    /\ doing' = [doing EXCEPT ![r].step = "send", ![r].id = cdp[r].next]
    /\ cdp' = [cdp EXCEPT ![r].next = @ + 1]
    /\ UNCHANGED <<process, inbox, loop, page, owed>>

\* What the browser comes to owe for a command: its reply; from Page.enable on the
\* load event of about:blank, if that had not loaded before; and for navigate the
\* page's first request.
Owes(id, command) ==
    LET reply == [kind |-> "reply", id |-> id, to |-> command]
    IN CASE command = "prepare"  -> {{reply}, {reply, [kind |-> "load", id |-> 0, to |-> "blank"]}}
         [] command = "navigate" -> {{reply, [kind |-> "paused", id |-> 0, to |-> command]}}
         [] command = "print"    -> {{reply}}

\* fSend of a command, which throws when the connection is gone.
SendCommand(r) ==
    /\ At(r, "send")
    /\ IF r \in browsers
         THEN /\ Goto(r, "reply")
              /\ \E more \in Owes(doing[r].id, Command(r)) : owed' = [owed EXCEPT ![r] = @ \cup more]
              /\ page' = IF Command(r) = "navigate"
                           THEN [page EXCEPT ![r] = [state |-> "loading", paused |-> 1]]
                           ELSE page
         ELSE Throw(r) /\ UNCHANGED <<owed, page>>
    /\ UNCHANGED <<process, cdp, inbox, loop>>

\* After its reply a command is followed by the next, by the wait for the
\* page's load event, or by the end.
NextStep(r) ==
    CASE Command(r) = "prepare"  -> [step |-> "id", n |-> 2, id |-> 0]
      [] Command(r) = "navigate" -> [step |-> "event", n |-> 2, id |-> 0]
      [] Command(r) = "print"    -> [step |-> "disconnect", n |-> 3, id |-> 0]

Arrived(r) == doing[r].id \in DOMAIN cdp[r].responses

\* Mutant: the wait has no timeout.
AwaitReplyForever(r) ==
    /\ At(r, "reply")
    /\ \/ /\ Arrived(r)
          /\ cdp' = [cdp EXCEPT ![r].responses =
                 [i \in DOMAIN @ \ {doing[r].id} |-> @[i]]]
          /\ doing' = [doing EXCEPT ![r] = NextStep(r)] \/ Throw(r)
       \/ /\ ~Arrived(r) /\ cdp[r].closed
          /\ Throw(r)
          /\ UNCHANGED cdp
    /\ UNCHANGED <<process, inbox, loop, page, owed>>

\* The wait ends with the reply, which may be an error, with the connection or
\* with cRenderTimeout.
AwaitReply(r) ==
    /\ At(r, "reply")
    /\ \/ /\ Arrived(r)
          /\ cdp' = [cdp EXCEPT ![r].responses =
                 [i \in DOMAIN @ \ {doing[r].id} |-> @[i]]]
          /\ doing' = [doing EXCEPT ![r] = NextStep(r)] \/ Throw(r)
       \/ /\ ~Arrived(r)
          /\ Throw(r)
          /\ UNCHANGED cdp
    /\ UNCHANGED <<process, inbox, loop, page, owed>>

\* Mutant: a connection that closed counts as the event.
AwaitEventOrClose(r) ==
    /\ At(r, "event")
    /\ \/ /\ cdp[r].seen # {} \/ cdp[r].closed
          /\ doing' = [doing EXCEPT ![r] = [step |-> "id", n |-> 3, id |-> 0]]
       \/ cdp[r].seen = {} /\ Throw(r)
    /\ UNCHANGED <<process, cdp, inbox, loop, page, owed>>

\* fWaitForEvent: a load event since Page.enable, or the end of the connection or of patience.
AwaitEvent(r) ==
    /\ At(r, "event")
    /\ \/ /\ cdp[r].seen # {}
          /\ doing' = [doing EXCEPT ![r] = [step |-> "id", n |-> 3, id |-> 0]]
       \/ cdp[r].seen = {} /\ Throw(r)
    /\ UNCHANGED <<process, cdp, inbox, loop, page, owed>>
----------------------------------------------------------------------------
(* The end of a render: the destructors, whatever ended it *)

\* ~CdpSession: nothing more is received.  It does not wait for the loop, which
\* may be in the middle of it: of what can come of that the model takes only that
\* nothing is sent.
Disconnect(r) ==
    /\ At(r, "disconnect")
    /\ cdp' = [cdp EXCEPT ![r] = NoCdp]
    /\ inbox' = [inbox EXCEPT ![r] = <<>>]
    /\ loop' = IF loop.render = r THEN Stale ELSE loop
    /\ Goto(r, "kill")
    /\ UNCHANGED <<process, page, owed>>

\* ~ChildProcess
Kill(r) ==
    /\ At(r, "kill")
    /\ browsers' = browsers \ {r}
    /\ page' = [page EXCEPT ![r] = Blank]
    /\ owed' = [owed EXCEPT ![r] = {}]
    /\ Goto(r, "remove")
    /\ UNCHANGED <<slots, temps, refused, cdp, inbox, loop>>

\* Mutant: the directory outlives the render.
RemoveNothing(r) ==
    /\ At(r, "remove")
    /\ Goto(r, "release")
    /\ UNCHANGED <<process, cdp, inbox, loop, page, owed>>

\* ~ScopedTempDir.  Only the browser's first process was killed, and its children
\* may still write; that the directory cannot be removed is ignored.
Remove(r) ==
    /\ At(r, "remove")
    /\ \/ temps' = temps \ {r} /\ UNCHANGED refused
       \/ refused' = refused \cup {r} /\ UNCHANGED temps
    /\ Goto(r, "release")
    /\ UNCHANGED <<slots, browser, cdp, inbox, loop>>

\* ~SlotGuard
Release(r) ==
    /\ At(r, "release")
    /\ slots' = slots + 1
    /\ Goto(r, "answer")
    /\ UNCHANGED <<temps, refused, browser, cdp, inbox, loop>>

\* The PDF, or the error, and the thread is gone.
Answer(r) ==
    /\ At(r, "answer")
    /\ doing' = [doing EXCEPT ![r] = Idle]
    /\ UNCHANGED <<process, cdp, inbox, loop, page, owed>>
----------------------------------------------------------------------------
(* The loop thread: fOnMessage *)

Free == loop = NoHandling
Head1(r) == Head(inbox[r])
Next1(r) == inbox' = [inbox EXCEPT ![r] = Tail(@)]

\* A reply, to a command or to an answer of the loop's own, and an event.
ReceiveReply(r) ==
    /\ Free /\ inbox[r] # <<>> /\ Head1(r).kind = "reply"
    /\ cdp' = [cdp EXCEPT ![r].responses =
           [i \in DOMAIN @ \cup {Head1(r).id} |-> IF i = Head1(r).id THEN Head1(r).to ELSE @[i]]]
    /\ Next1(r)
    /\ UNCHANGED <<doing, process, loop, page, owed>>

ReceiveLoad(r) ==
    /\ Free /\ inbox[r] # <<>> /\ Head1(r).kind = "load"
    /\ cdp' = [cdp EXCEPT ![r].seen = @ \cup {Head1(r).to}]
    /\ Next1(r)
    /\ UNCHANGED <<doing, process, loop, page, owed>>

ReceiveClose(r) ==
    /\ Free /\ inbox[r] # <<>> /\ Head1(r).kind = "closed"
    /\ cdp' = [cdp EXCEPT ![r].closed = TRUE]
    /\ Next1(r)
    /\ UNCHANGED <<doing, process, loop, page, owed>>

\* Mutant: the interceptor uses the next id without taking it.
ReceivePausedUntaken(r) ==
    /\ Free /\ inbox[r] # <<>> /\ Head1(r).kind = "paused"
    /\ loop' = [render |-> r, id |-> cdp[r].next]
    /\ Next1(r)
    /\ UNCHANGED <<doing, process, cdp, page, owed>>

\* fHandlePausedRequest, first the id ...
ReceivePaused(r) ==
    /\ Free /\ inbox[r] # <<>> /\ Head1(r).kind = "paused"
    /\ loop' = [render |-> r, id |-> cdp[r].next]
    /\ cdp' = [cdp EXCEPT ![r].next = @ + 1]
    /\ Next1(r)
    /\ UNCHANGED <<doing, process, page, owed>>

\* ... then Fetch.continueRequest or Fetch.failRequest, unless the connection is
\* gone: the page makes another request or has loaded.
AnswerPaused ==
    /\ ~Free
    /\ LET r == loop.render
           reply == [kind |-> "reply", id |-> loop.id, to |-> "fetch"]
       IN IF r \in browsers /\ cdp[r].open
            THEN \/ /\ page[r].paused < MaxPaused
                    /\ page' = [page EXCEPT ![r].paused = @ + 1]
                    /\ owed' = [owed EXCEPT ![r] =
                           @ \cup {reply, [kind |-> "paused", id |-> page[r].paused, to |-> "page"]}]
                 \/ /\ page' = [page EXCEPT ![r].state = "loaded"]
                    /\ owed' = [owed EXCEPT ![r] =
                           @ \cup {reply, [kind |-> "load", id |-> 0, to |-> "page"]}]
            ELSE UNCHANGED <<page, owed>>
    /\ loop' = NoHandling
    /\ UNCHANGED <<doing, process, cdp, inbox>>
----------------------------------------------------------------------------
(* The browser *)

Say(r) ==
    /\ r \in browsers /\ cdp[r].open
    /\ \E m \in owed[r] :
           /\ owed' = [owed EXCEPT ![r] = @ \ {m}]
           /\ inbox' = [inbox EXCEPT ![r] = Append(@, m)]
    /\ UNCHANGED <<doing, process, cdp, loop, page>>

Die(r) ==
    /\ r \in browsers
    /\ browsers' = browsers \ {r}
    /\ owed' = [owed EXCEPT ![r] = {}]
    /\ inbox' = IF cdp[r].open
                  THEN [inbox EXCEPT ![r] = Append(@, [kind |-> "closed", id |-> 0, to |-> "page"])]
                  ELSE inbox
    /\ UNCHANGED <<doing, slots, temps, refused, cdp, loop, page>>
----------------------------------------------------------------------------
Thread(r) ==
    \/ Acquire(r) \/ GiveUp(r) \/ MakeTemp(r) \/ Spawn(r) \/ FindPort(r) \/ Connect(r)
    \/ TakeId(r) \/ SendCommand(r) \/ AwaitReply(r) \/ AwaitEvent(r)
    \/ Disconnect(r) \/ Kill(r) \/ Remove(r) \/ Release(r) \/ Answer(r)

Receive(r) == ReceiveReply(r) \/ ReceiveLoad(r) \/ ReceiveClose(r) \/ ReceivePaused(r)

Next ==
    \/ \E r \in Renders : Request(r) \/ Thread(r) \/ Receive(r) \/ Say(r) \/ Die(r)
    \/ AnswerPaused

Spec == Init /\ [][Next]_vars

\* Threads run and every wait has a timeout; nothing is asked of the browsers.
LiveSpec == Spec /\ \A r \in Renders : WF_vars(Thread(r))
----------------------------------------------------------------------------
(* Properties *)

Steps == {"idle", "queue", "temp", "spawn", "port", "connect", "id", "send", "reply", "event",
          "disconnect", "kill", "remove", "release", "answer"}
\* The steps between Acquire and Release.
Holding == Steps \ {"idle", "queue", "answer"}

\* Every slot is free or held, and only its holder has a browser: there are
\* never more browsers than slots, however renders time out, fail and give up
\* ("unbounded concurrency is a trivial way to exhaust the server's RAM").
BrowsersBounded ==
    LET holders == {r \in Renders : doing[r].step \in Holding}
    IN slots + Cardinality(holders) = cMaxConcurrentRenders /\ browsers \subseteq holders

\* A request that was answered, with whatever, leaves no browser behind, and no
\* directory but one that could not be removed.  export.cpp:504 claims more, that a
\* directory is "removed when the render finishes, whatever the outcome":
\* ~ScopedTempDir swallows the error of its one attempt (522).
NothingLeftBehind ==
    \A r \in Renders : doing[r].step \in {"idle", "queue", "answer"} =>
        r \notin browsers /\ (r \in temps => r \in refused)

\* A reply that a command finds under its id is its own: the interceptor on the
\* loop thread and the render thread draw ids from one counter.
RepliesMatch ==
    \A r \in Renders : At(r, "reply") /\ Arrived(r) =>
        cdp[r].responses[doing[r].id] = Command(r)

\* Nothing is printed before a load event has come, though the wait for it also
\* ends with the connection (fWaitForEvent): the page has loaded, unless the event
\* was the late one of about:blank, which Page.enable lets through (608) and nothing
\* clears before navigate (621-622).  Then the page may be printed before it has.
PrintedIsLoaded ==
    \A r \in Renders : doing[r].n = 3 /\ doing[r].step \in {"id", "send", "reply"} =>
        page[r].state = "loaded" \/ "blank" \in cdp[r].seen

\* Every request is answered, with a PDF or an error, even if browsers hang and
\* slots do not come free (cQueueTimeout, cRenderTimeout).
RequestsAnswered == \A r \in Renders : At(r, "queue") ~> At(r, "idle")
============================================================================

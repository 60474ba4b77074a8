------------------------------ MODULE LiveSession -----------------------------
(***************************************************************************)
(* The live editor at work: a browser tab (LiveTab), the requests it posts *)
(* to the live server, the server's event stream, and the agent that       *)
(* rewrites the source files.  Answers, events, timers, file reads, hot    *)
(* reloads and page reloads come in any order.                             *)
(*                                                                         *)
(* The live server and the agent are not in this repository: what they do  *)
(* is taken from what the script posts and handles.  There is one tab.     *)
(***************************************************************************)
EXTENDS LiveTab

CONSTANTS
    MaxBoots,       \* bound: page loads
    MaxDecided,     \* bound: the sessions, from the first, that the user decides on
    MaxConfigs,     \* bound: configurations of one page load
    MaxStream,      \* bound: events on their way
    MaxFaults       \* bound: lost connections and requests, failed reads and agents

ASSUME SessionAssumption ==
    /\ MaxBoots \in Nat \ {0} /\ MaxConfigs \in Nat /\ MaxDecided \in Nat
    /\ MaxStream \in Nat \ {0} /\ MaxFaults \in Nat

VARIABLES
    tab,            \* the script in the tab
    posts,          \* POST /events: on the way, or answered and not yet heard of
    stream,         \* the server's events on their way to the tab
    conn,           \* the stream: "down", "open", or "lost" for good
    started,        \* sessions started so far
    loads,          \* page loads so far, and the session whose recovery asked for the last
    faults          \* faults so far

world == <<framework, srv, src>>
vars  == <<framework, srv, src, tab, posts, stream, conn, started, loads, faults>>

\* The tab alone takes a step.
Become(b) == tab' = b /\ UNCHANGED <<framework, srv, src, posts, stream, conn, started, loads, faults>>

Post(k, s) == [k |-> k, s |-> s, at |-> "sent"]
Sends(p)   == posts' = posts \cup {p}

\* sessionCreationGate
Creating == {p \in posts : p.k = "generate"}

\* Bound: faults befall the first session, and a second follows only where there were none.
Fault == started = 1 /\ faults < MaxFaults /\ faults' = faults + 1
Another == started < NSessions /\ (started = 0 \/ faults = 0)

-----------------------------------------------------------------------------
(* The user *)

\* A new revision leaves some timers nothing to do when they are due.
Voided == {"acceptClean", "acceptReload", "watch"}

\* beginNewLiveConfiguration, on a click or Enter over an element or an insertion point.
Pick ==
    /\ tab.st = "PICKING" /\ tab.rev < MaxConfigs /\ started < NSessions
    /\ Become(setLiveState([tab EXCEPT !.rev = @ + 1, !.tasks = {t \in @ : t.k \notin Voided}],
                           "CONFIGURING"))

CancelConfigure ==
    /\ tab.st = "CONFIGURING"
    /\ Become(setLiveState(tab, "PICKING"))

\* The tab that has asked for session s.
Asked(s) ==
    saveSession([tab EXCEPT !.pend = None, !.awaiting = None, !.cur = s, !.observed = s,
                            !.arrived = 0, !.file = FALSE, !.st = "GENERATING", !.told = FALSE,
                            !.late = FALSE])

\* handleGo and handleInsertCreate; captureAndEmit sends plain requests at once, and
\* annotated ones with the screenshot.
Go ==
    /\ tab.st = "CONFIGURING" /\ Another
    /\ started' = started + 1
    /\ \/ tab' = Asked(started + 1) /\ Sends(Post("generate", started + 1))
       \/ /\ tab' = Later(Asked(started + 1), Timer("capture", started + 1, 0))
          /\ UNCHANGED posts
    /\ UNCHANGED <<framework, srv, src, stream, conn, loads, faults>>

handleAccept ==
    /\ tab.st = "CYCLING" /\ tab.pend = None /\ tab.cur \in 1..MaxDecided /\ tab.arrived > 0
    /\ tab' = saveSession([tab EXCEPT !.st = "SAVING", !.pend = tab.cur])
    /\ Sends(Post("accept", tab.cur))
    /\ UNCHANGED <<framework, srv, src, stream, conn, started, loads, faults>>

\* The state stays CYCLING until the server answers.
handleDiscard ==
    /\ tab.st = "CYCLING" /\ tab.cur \in 1..MaxDecided
    /\ Sends(Post("discard", tab.cur))
    /\ UNCHANGED <<framework, srv, src, tab, stream, conn, started, loads, faults>>

\* A page load: what is in memory is gone, and so are the requests on their way. Source is
\* on a page of HTML at once, and on one a framework hydrates at once or later.
Reload(by) ==
    /\ loads.n < MaxBoots
    /\ loads' = [n |-> loads.n + 1, by |-> by]
    /\ \E dom \in {src} \cup (IF framework THEN {[s \in Sessions |-> Absent]} ELSE {}) :
          tab' = boot(Fresh(tab.saved, tab.handled, tab.tries, dom))
    /\ posts' = {} /\ stream' = <<>> /\ conn' = "down"
    /\ UNCHANGED <<framework, srv, src, started, faults>>

UserReloads == Reload(None)

-----------------------------------------------------------------------------
(* Requests *)

\* By the user, or of a session whose wrapper is gone, which has no callback.
Discards(p) == p.k \in {"discard", "orphan"}

\* The server journals a request, or refuses one for a session it has no use for. It may
\* take a second discard of a session like the first.
Accepted(p) ==
    \/ p.k = "generate" /\ srv[p.s] = "none" /\ srv' = [srv EXCEPT ![p.s] = "generating"]
    \/ p.k = "accept" /\ p.s \in Open(srv) /\ srv' = [srv EXCEPT ![p.s] = "accepted"]
    \/ Discards(p) /\ p.s \in Open(srv) /\ srv' = [srv EXCEPT ![p.s] = "discarded"]
    \/ Discards(p) /\ srv[p.s] = "discarded" /\ srv' = srv

Refused(p) ==
    /\ \/ p.k = "accept" /\ p.s \notin Open(srv)
       \/ Discards(p) /\ p.s \notin Open(srv)
    /\ srv' = srv

\* What is posted of a session waits for its creation.
Serve(p) ==
    /\ p.at = "sent" /\ (p.k = "generate" \/ \A q \in Creating : q.s # p.s)
    /\ \/ Accepted(p) /\ posts' = (posts \ {p}) \cup {[p EXCEPT !.at = "ok"]}
       \/ Refused(p)  /\ posts' = (posts \ {p}) \cup {[p EXCEPT !.at = "failed"]}
    /\ UNCHANGED <<framework, src, tab, stream, conn, started, loads, faults>>

\* The request or its answer is lost.
Lose(p) ==
    /\ p.at \in {"sent", "ok"} /\ Fault
    /\ posts' = (posts \ {p}) \cup {[p EXCEPT !.at = "failed"]}
    /\ UNCHANGED <<framework, srv, src, tab, stream, conn, started, loads>>

\* The callbacks of sendEvent in handleGo, handleAccept and handleDiscard.
Confirmed(p) ==
    IF p.k = "accept" /\ tab.pend = p.s THEN finishAccept([tab EXCEPT !.awaiting = p.s], p.s)
    ELSE IF p.k = "discard" THEN cleanup(markSessionHandled(tab))
    ELSE tab

Unconfirmed(p) ==
    IF p.k = "accept"
    THEN setLiveState([tab EXCEPT !.pend = IF @ = p.s THEN None ELSE @], "CYCLING")
    ELSE tab

Answer(p) ==
    /\ p.at # "sent"
    /\ tab' = IF p.at = "ok" THEN Confirmed(p) ELSE Unconfirmed(p)
    /\ posts' = posts \ {p}
    /\ UNCHANGED <<framework, srv, src, stream, conn, started, loads, faults>>

-----------------------------------------------------------------------------
(* The event stream *)

Event(ev, s, listed) == [ev |-> ev, s |-> s, listed |-> listed]

\* The server tells a tab that is connected; one that is not misses it.
Broadcast(ev, s) ==
    IF conn = "open" THEN Len(stream) < MaxStream /\ stream' = Append(stream, Event(ev, s, Unheard))
    ELSE stream' = stream

Connect ==
    /\ conn = "down"
    /\ conn' = "open"
    /\ stream' = <<Event("connected", None, activeSessions)>>
    /\ UNCHANGED <<framework, srv, src, tab, posts, started, loads, faults>>

Disconnect ==
    /\ conn = "open" /\ Fault
    /\ conn' = "down" /\ stream' = <<>>
    /\ UNCHANGED <<framework, srv, src, tab, posts, started, loads>>

\* handleServerLost, after SSE_MAX_RETRIES.
GiveUp ==
    /\ conn = "down" /\ Fault
    /\ conn' = "lost"
    /\ tab' = saveSession([tab EXCEPT !.st = IF tab.cur = None THEN "IDLE" ELSE @,
                                      !.told = @ \/ tab.st \in {"GENERATING", "CYCLING", "SAVING"},
                                      !.observed = None])
    /\ UNCHANGED <<framework, srv, src, posts, stream, started, loads>>

\* Mutant: a generation that ended while the tab was not connected is not looked for.
RecoverNothing(b, listed) == b

\* recoverMissedGenerationCompletion
recoverMissed(b, listed) ==
    IF b.cur # None /\ b.st = "GENERATING" /\ listed[b.cur] = "ready" /\ b.arrived < Variants
    THEN Later([b EXCEPT !.file = TRUE], Timer("settle", b.cur, 0))
    ELSE b

onConnected(listed) ==
    LET b == IF Wrappers(tab) = {} /\ Restorable(tab, listed) THEN restoreWithoutWrapper(tab, listed)
             ELSE tab
        c == [recoverMissed(b, listed) EXCEPT !.late = FALSE]
    IN  IF c.st = "IDLE" THEN setLiveState(c, "PICKING") ELSE c

\* The file is remembered, whichever session's generation has ended: the sessions of a page
\* are taken to change one file.
onDone(s) ==
    LET b == [tab EXCEPT !.file = TRUE]
    IN  IF b.arrived >= Variants
        THEN IF b.st = "GENERATING" THEN setLiveState(b, "CYCLING") ELSE b
        ELSE IF b.st = "GENERATING"
        THEN Later(b, IF s = b.cur THEN Timer("settle", s, 0) ELSE Timer("missing", None, 0))
        ELSE b

\* maybeCompleteAcceptedSession
onComplete(s) ==
    LET b == [tab EXCEPT !.awaiting = IF @ = s THEN None ELSE @]
    IN  IF b.pend # s THEN b
        ELSE IF b.cur \notin {None, s} THEN [b EXCEPT !.pend = None]
        ELSE finishAccept(b, s)

onError(s) ==
    IF tab.pend = s THEN setLiveState([tab EXCEPT !.pend = None, !.awaiting = None], "CYCLING")
    ELSE IF tab.awaiting = s THEN Tell([tab EXCEPT !.awaiting = None])
    ELSE IF tab.cur = s THEN Tell(cleanup(markSessionHandled(tab)))
    ELSE Tell(setLiveState(IF tab.saved.id = s THEN clearSession(tab) ELSE tab, "PICKING"))

Handled(e) ==
    CASE e.ev = "connected" -> onConnected(e.listed)
      [] e.ev = "progress"  -> IF e.s = tab.cur THEN [tab EXCEPT !.file = TRUE] ELSE tab
      [] e.ev = "done"      -> onDone(e.s)
      [] e.ev = "complete"  -> onComplete(e.s)
      [] e.ev = "discarded" -> IF e.s = tab.cur THEN cleanup(markSessionHandled(tab)) ELSE tab
      [] e.ev = "error"     -> onError(e.s)

Deliver ==
    /\ stream # <<>>
    /\ tab' = Handled(Head(stream))
    /\ stream' = Tail(stream)
    /\ UNCHANGED <<framework, srv, src, posts, conn, started, loads, faults>>

-----------------------------------------------------------------------------
(* Timers and reads, each once it is due *)

Without(t) == [tab EXCEPT !.tasks = @ \ {t}]

\* captureAndEmit, once the screenshot of an annotated request is uploaded or has failed.
CaptureEnds(t) ==
    /\ t.k = "capture"
    /\ tab' = Without(t)
    /\ Sends(Post("generate", t.s))
    /\ UNCHANGED <<framework, srv, src, stream, conn, started, loads, faults>>

\* sendCheckpoint, behind the session's creation; the server refuses what it does not know.
CheckpointEnds(t) ==
    /\ t.k = "checkpoint" /\ Creating = {}
    /\ Become(IF tab.cur # None /\ srv[tab.cur] = "none" THEN abandonForeignSession(Without(t))
              ELSE Without(t))

\* After "done", or a missed one: the page had its chance to change.
SettleEnds(t) ==
    /\ t.k = "settle"
    /\ Become(IF tab.arrived < Variants /\ tab.st = "GENERATING" /\ tab.cur = t.s
              THEN inject(Without(t), t.s, 0, TRUE, FALSE) ELSE Without(t))

MissingEnds(t) ==
    /\ t.k = "missing"
    /\ Become(IF tab.arrived < Variants /\ tab.st = "GENERATING" THEN Tell(Without(t)) ELSE Without(t))

\* COMPLETED_SOURCE_FALLBACK_RETRY_MS
RetryEnds(t) ==
    /\ t.k \in {"retry", "orphanRetry"}
    /\ Become(IF /\ tab.cur = t.s
                 /\ \/ tab.st = "GENERATING" /\ (framework \/ t.orphan \/ tab.arrived = 0)
                    \/ t.k = "orphanRetry" /\ tab.st = "CYCLING"
              THEN inject(Without(t), t.s, t.n, t.done, t.orphan) ELSE Without(t))

\* The wrapper of an orphan is gone from the source: another look, or the end.
Orphaned(t) ==
    LET b == Without(t)
    IN  IF t.n < Retries
        THEN tab' = Later(b, [t EXCEPT !.k = "orphanRetry", !.n = @ + 1]) /\ UNCHANGED posts
        ELSE tab' = Tell(cleanup(markSessionHandled(b))) /\ Sends(Post("orphan", t.s))

\* The file of an HTML page is read. Its wrapper replaces that on the page, or the element
\* that was picked; an element that is not there is waited for.
PutOnPage(b, t) ==
    LET c == [b EXCEPT !.dom[t.s] = src[t.s]]
    IN  pageChanged(completeInjection(c, t.s, t))

\* The bar says that the element is waited for.
AwaitAnchor(b, t) ==
    queueCheckpoint(saveSession(Tell([b EXCEPT !.st = "GENERATING", !.anchor = t.s])))

ReadEnds(t) ==
    /\ t.k = "read" /\ ~framework
    /\ IF src[t.s] = Absent
       THEN IF t.orphan /\ t.s = tab.cur THEN Orphaned(t) ELSE tab' = Without(t) /\ UNCHANGED posts
       ELSE /\ \/ tab' = PutOnPage(Without(t), t)
               \/ tab.dom[t.s] = Absent /\ tab' = AwaitAnchor(Without(t), t)
            /\ UNCHANGED posts
    /\ UNCHANGED <<framework, srv, src, stream, conn, started, loads, faults>>

\* A framework's file is only searched for the wrapper (probeJsxWrapperForOrphan).
stillActive(t) == t.s = tab.cur /\ tab.st \in {"GENERATING", "CYCLING"}

ProbeEnds(t) ==
    /\ t.k = "probe"
    /\ IF stillActive(t) /\ src[t.s] = Absent THEN Orphaned(t) ELSE tab' = Without(t) /\ UNCHANGED posts
    /\ UNCHANGED <<framework, srv, src, stream, conn, started, loads, faults>>

ReadFails(t) ==
    /\ t.k \in {"read", "probe"} /\ Fault
    /\ tab' = IF t.k = "read" THEN Tell(Without(t))
              ELSE IF ~stillActive(t) THEN Without(t)
              ELSE IF t.n < Retries
              THEN Later(Without(t), [t EXCEPT !.k = "orphanRetry", !.n = @ + 1])
              ELSE Tell(Without(t))
    /\ UNCHANGED <<framework, srv, src, posts, stream, conn, started, loads>>

-----------------------------------------------------------------------------
(* The end of a session's wrapper: none of it may disturb newer work *)

\* ensureAcceptedDomClean, 1200 ms after an accept: a page that shows the accepted variant
\* is left alone, one of a framework gets more time, and HTML is unwrapped here or, with
\* nothing to restore, loaded again.
AcceptCleanEnds(t) ==
    /\ t.k = "acceptClean"
    /\ IF Superseded(tab, t.s, t.rev) THEN Become(Without(t))
       ELSE \/ tab.dom[t.s] = Absent /\ Become(Without(t))
            \/ framework /\ Become(Later(Without(t), [t EXCEPT !.k = "acceptReload"]))
            \/ ~framework /\ Become([Without(t) EXCEPT !.dom[t.s] = Absent])
            \/ ~framework /\ tab.dom[t.s] = Absent /\ Reload(t.s)

AcceptReloadEnds(t) ==
    /\ t.k = "acceptReload"
    /\ IF Superseded(tab, t.s, t.rev) THEN Become(Without(t))
       ELSE Reload(t.s) \/ (tab.dom[t.s] = Absent /\ Become(Without(t)))

\* The two seconds of cleanup, and two more where a framework owns the wrapper.
Watched(t) ==
    IF Waits(tab, "discardWatch", t.s) THEN Without(t)
    ELSE Later(Without(t), [t EXCEPT !.k = "discardWatch"])

DiscardCleanEnds(t) ==
    /\ t.k = "discardClean"
    /\ Become(IF tab.dom[t.s] = Absent THEN Without(t)
              ELSE IF ~framework THEN [Without(t) EXCEPT !.dom[t.s] = Absent]
              ELSE IF Superseded(tab, t.s, t.rev) THEN Watched(t)
              ELSE Later(Without(t), [t EXCEPT !.k = "discardReload"]))

DiscardReloadEnds(t) ==
    /\ t.k = "discardReload"
    /\ IF tab.dom[t.s] = Absent THEN Become(Without(t))
       ELSE IF Superseded(tab, t.s, t.rev) THEN Become(Watched(t))
       ELSE Reload(t.s)

\* replacementActive
Quiet == tab.cur = None /\ tab.st \in {"IDLE", "PICKING"}

\* Every twelve seconds, until the wrapper is gone or nothing is in the way of a reload.
DiscardWatchEnds(t) ==
    /\ t.k = "discardWatch"
    /\ \/ tab.dom[t.s] = Absent /\ Become(Without(t))
       \/ tab.dom[t.s] # Absent /\ Quiet /\ Reload(t.s)

HandledReloadEnds(t) ==
    /\ t.k = "handledReload"
    /\ IF tab.dom[t.s] = Absent \/ Superseded(tab, t.s, t.rev)
       THEN Become([Without(t) EXCEPT !.tries[t.s] = 0])
       ELSE Reload(t.s)

WatchEnds(t) == t.k = "watch" /\ Become(Without(t))

-----------------------------------------------------------------------------
(* The agent, the source files and the page *)

WithSource(s, n) == src' = [src EXCEPT ![s] = n]
Phase(s, p)      == srv' = [srv EXCEPT ![s] = p]

AgentWrites(s) ==
    /\ srv[s] = "generating" /\ src[s] < Variants
    /\ WithSource(s, src[s] + 1)
    /\ Broadcast("progress", s)
    /\ UNCHANGED <<framework, srv, tab, posts, conn, started, loads, faults>>

AgentEnds(s) ==
    /\ srv[s] = "generating" /\ src[s] = Variants
    /\ Phase(s, "ready")
    /\ Broadcast("done", s)
    /\ UNCHANGED <<framework, src, tab, posts, conn, started, loads, faults>>

AgentFails(s) ==
    /\ srv[s] \in {"generating", "accepted"} /\ Fault
    /\ Phase(s, "failed")
    /\ Broadcast("error", s)
    /\ UNCHANGED <<framework, src, tab, posts, conn, started, loads>>

\* The accepted variant replaces the wrapper in the source.
Promotes(s) ==
    /\ srv[s] = "accepted"
    /\ Phase(s, "completed") /\ WithSource(s, Absent)
    /\ Broadcast("complete", s)
    /\ UNCHANGED <<framework, tab, posts, conn, started, loads, faults>>

Removes(s) ==
    /\ srv[s] = "discarded" /\ src[s] # Absent
    /\ WithSource(s, Absent)
    /\ Broadcast("discarded", s)
    /\ UNCHANGED <<framework, srv, tab, posts, conn, started, loads, faults>>

\* Somebody else takes the wrapper out of the source.
EditedAway(s) ==
    /\ srv[s] = "ready" /\ src[s] # Absent /\ Fault
    /\ WithSource(s, Absent)
    /\ UNCHANGED <<framework, srv, tab, posts, stream, conn, started, loads>>

\* A hot reload, or the hydration of the page; none is certain to come.
HotReload(s) ==
    /\ framework /\ tab.dom[s] # src[s]
    /\ Become(pageChanged([tab EXCEPT !.dom[s] = src[s]]))

\* The component with the wrapper is closed, and perhaps opened again.
Unmounts(s) ==
    /\ framework /\ tab.dom[s] # Absent /\ Fault
    /\ tab' = [tab EXCEPT !.dom[s] = Absent]
    /\ UNCHANGED <<framework, srv, src, posts, stream, conn, started, loads>>

-----------------------------------------------------------------------------

Blank == [s \in Sessions |-> Absent]

Init ==
    /\ framework \in BOOLEAN
    /\ srv = [s \in Sessions |-> "none"] /\ src = Blank
    /\ tab = [Fresh(NotSaved, <<>>, [s \in Sessions |-> 0], Blank) EXCEPT !.st = "PICKING", !.scout = TRUE]
    /\ posts = {} /\ stream = <<>> /\ conn = "down"
    /\ started = 0 /\ loads = [n |-> 1, by |-> None] /\ faults = 0

User == Pick \/ CancelConfigure \/ Go \/ handleAccept \/ handleDiscard \/ UserReloads

Network == Connect \/ Disconnect \/ GiveUp \/ \E p \in posts : Serve(p) \/ Lose(p)

Agent ==
    \E s \in Sessions :
        \/ AgentWrites(s) \/ AgentEnds(s) \/ AgentFails(s) \/ Promotes(s) \/ Removes(s)
        \/ EditedAway(s) \/ HotReload(s) \/ Unmounts(s)

Ends(t) ==
    \/ CaptureEnds(t) \/ CheckpointEnds(t) \/ SettleEnds(t) \/ MissingEnds(t) \/ RetryEnds(t)
    \/ ReadEnds(t) \/ ProbeEnds(t)
    \/ AcceptCleanEnds(t) \/ AcceptReloadEnds(t) \/ DiscardCleanEnds(t) \/ DiscardReloadEnds(t)
    \/ DiscardWatchEnds(t) \/ HandledReloadEnds(t) \/ WatchEnds(t)

Next ==
    \/ User \/ Network \/ Agent
    \/ Deliver
    \/ \E p \in posts : Answer(p)
    \/ \E t \in tab.tasks : Ends(t) \/ ReadFails(t)

Spec == Init /\ [][Next]_vars

-----------------------------------------------------------------------------

\* "Background cleanup must never reload a newer comparison the user has already started":
\* no page load the script asks for, minutes after an accept or a discard, takes a
\* configuration or another session from the user.
RecoveryInterruptsNothing ==
    [][loads' # loads /\ loads'.by # None =>
          tab.st # "CONFIGURING" /\ tab.cur \in {None, loads'.by}]_vars

\* A session that was accepted, discarded or given up is never taken up again.
HandledIsOver == tab.cur # None => ~isHandled(tab, tab.cur)

\* What a page load finds stored, at whatever moment it comes, is of the session the tab is in;
\* a tab in no session has stored none, or one that is not restored.
RecordIsOfSession ==
    IF tab.cur # None THEN tab.saved.id = tab.cur
    ELSE \/ tab.saved.id = None \/ isHandled(tab, tab.saved.id)
         \/ tab.saved.st \notin {"GENERATING", "CYCLING"}

\* "It would wait in GENERATING at 0/N forever": the tab that has not heard of the end of
\* its generation, and does not show all of it, has an event, a connection, a timer or a read
\* to come that will tell, or the user has been told. A page with a framework counts on its
\* last retry, a page of HTML on its reading of the file. Nothing looks after a session that
\* the scout takes up later than the stream was connected (late).
Pursues(t) ==
    \/ t.k = "missing"
    \/ t.k \in {"settle", IF framework THEN "retry" ELSE "read"} /\ t.s = tab.cur

EndedGenerationIsPursued ==
    tab.st = "GENERATING" /\ tab.cur # None /\ tab.arrived < Variants
    /\ srv[tab.cur] = "ready" /\ src[tab.cur] # Absent =>
        \/ tab.told \/ tab.late \/ conn # "open"
        \/ \E i \in DOMAIN stream :
              \/ stream[i].ev = "done" /\ stream[i].s = tab.cur
              \/ stream[i].listed[tab.cur] = "ready"
        \/ \E t \in tab.tasks : Pursues(t)

=============================================================================

------------------------------- MODULE LiveTab --------------------------------
(***************************************************************************)
(* One browser tab of the live editor (impeccable/scripts/live-browser.js  *)
(* with live-browser-session.js): the state of the script as a record, and *)
(* its handlers as functions from one such record to the next.  A handler  *)
(* runs to its end before another starts; what it puts off - a timer, a    *)
(* fetch - is left as a task.  LiveSession runs them.                      *)
(*                                                                         *)
(* A page is either static (plain HTML, which the script may restructure)  *)
(* or owned by a framework whose hot reloads put the source on the page.   *)
(* Left out: the carbonize tree a wrapper may pass through, component      *)
(* previews, which variant is shown, parameters, scrolling, and the bars.  *)
(***************************************************************************)
EXTENDS Integers, Sequences, FiniteSets

CONSTANTS
    NSessions,      \* sessions that may be started; id8 draws them in order
    Variants,       \* selectedCount: the variants a session asks for
    HandledLimit,   \* handled ids live-browser-session.js keeps
    Retries,        \* COMPLETED_SOURCE_FALLBACK_RETRIES
    ReloadLimit     \* reloads a handled wrapper may cause

Sessions == 1..NSessions
None     == 0       \* currentSessionId of a tab without a session
Absent   == -1      \* no wrapper; 0 is a scaffold, n > 0 has n variants

ASSUME TabAssumption ==
    /\ NSessions \in Nat \ {0} /\ Variants \in Nat \ {0}
    /\ HandledLimit \in Nat \ {0} /\ Retries \in Nat /\ ReloadLimit \in Nat

States == {"IDLE", "PICKING", "CONFIGURING", "GENERATING", "CYCLING", "SAVING"}

VARIABLES
    framework,      \* the page belongs to a framework with hot reloads
    srv,            \* the server's journal: the phase of each session
    src             \* the wrapper of each session in the source files

NotSaved == [id |-> None, st |-> "IDLE", arrived |-> 0, file |-> FALSE]

\* The script as it starts, over what localStorage and sessionStorage hold.
Fresh(saved, handled, tries, dom) ==
    [st |-> "IDLE",             \* state
     cur |-> None,              \* currentSessionId
     rev |-> 0,                 \* liveInteractionRevision
     arrived |-> 0,             \* arrivedVariants
     file |-> FALSE,            \* currentSourceFile is known
     pend |-> None,             \* pendingAcceptedSession
     awaiting |-> None,         \* awaitingAcceptResult
     observed |-> None,         \* the session variantObserver watches
     anchor |-> None,           \* the session pendingVariantAnchorRetryObserver waits for
     scout |-> FALSE,           \* init's deferred-wrapper scout is armed
     tasks |-> {},              \* timers, reads and observers: see Task
     told |-> FALSE,            \* a toast has said what became of the generation
     late |-> FALSE,            \* the scout took the session up, since the stream was connected
     dom |-> dom,               \* the wrapper of each session on the page
     saved |-> saved,           \* storage: the session record
     handled |-> handled,       \* storage: ids accepted or discarded, oldest first
     tries |-> tries]           \* storage: reloads for a handled wrapper, by session

\* n counts attempts; done marks a read that follows the end of the generation, orphan
\* one whose session is discarded when its wrapper is gone.
Task(k, s, rev, n, done, orphan) ==
    [k |-> k, s |-> s, rev |-> rev, n |-> n, done |-> done, orphan |-> orphan]
Timer(k, s, rev) == Task(k, s, rev, 0, FALSE, FALSE)

Later(b, task) == [b EXCEPT !.tasks = @ \cup {task}]
Waits(b, k, s) == \E t \in b.tasks : t.k = k /\ t.s = s

-----------------------------------------------------------------------------
(* Session record and handled ids *)

saveSession(b) ==
    IF b.cur = None THEN b
    ELSE [b EXCEPT !.saved = [id |-> b.cur, st |-> b.st, arrived |-> b.arrived, file |-> b.file]]

clearSession(b) == [b EXCEPT !.saved = NotSaved]

isHandled(b, s) == \E i \in DOMAIN b.handled : b.handled[i] = s

\* The filter of the ids: an id is listed once.
Unlisted(handled, s) ==
    IF \E i \in DOMAIN handled : handled[i] = s
    THEN LET i == CHOOSE j \in DOMAIN handled : handled[j] = s
         IN  SubSeq(handled, 1, i - 1) \o SubSeq(handled, i + 1, Len(handled))
    ELSE handled

\* The ids stay in the order they were handled, and the oldest are forgotten.
markHandled(handled, s) ==
    LET ids == Append(Unlisted(handled, s), s)
    IN  SubSeq(ids, IF Len(ids) > HandledLimit THEN Len(ids) - HandledLimit + 1 ELSE 1, Len(ids))

markSessionHandled(b) ==
    IF b.cur = None THEN b ELSE [b EXCEPT !.handled = markHandled(@, b.cur)]

\* Mutant: only another session counts as newer work, not a new configuration.
SupersededBySession(b, s, rev) == b.cur # None /\ b.cur # s

\* deferredRecoverySuperseded: a recovery of session s is void once newer work began.
Superseded(b, s, rev) == b.rev # rev \/ (b.cur # None /\ b.cur # s)

setLiveState(b, st) == [b EXCEPT !.st = st]
Tell(b) == [b EXCEPT !.told = TRUE]

-----------------------------------------------------------------------------
(* The end of a session *)

\* What both endings let go of.
Release(b) ==
    [clearSession(b) EXCEPT !.observed = None, !.file = FALSE, !.cur = None, !.st = "PICKING"]

\* cleanup: the picker is back at once, the wrapper follows when the source has changed,
\* or after two seconds.
cleanup(b) ==
    LET c == [Release(b) EXCEPT !.anchor = None]
    IN  IF b.cur = None THEN c ELSE Later(c, Timer("discardClean", b.cur, b.rev))

cleanupAcceptedSession(b) == [Release(b) EXCEPT !.pend = None]

recoverEmptyCycling(b) == Tell(cleanup(b))

abandonForeignSession(b) == Tell(cleanup(markSessionHandled(b)))

\* scheduleHandledRuntimeWrapperReload, for wrappers of handled sessions on the page.
MayReload(b, s, rev) ==
    /\ isHandled(b, s) /\ ~Superseded(b, s, rev)
    /\ ~Waits(b, "handledReload", s) /\ b.tries[s] < ReloadLimit

scheduleReload(b, s, rev) ==
    IF MayReload(b, s, rev)
    THEN Later([b EXCEPT !.tries[s] = @ + 1], Timer("handledReload", s, rev))
    ELSE b

\* watchForHandledRuntimeWrapper: a watcher, and a first look.
watchForHandled(b, s) ==
    LET w == Later([b EXCEPT !.tasks = {t \in @ : ~(t.k = "watch" /\ t.s = s)}],
                   Timer("watch", s, b.rev))
    IN  IF b.dom[s] = Absent THEN w ELSE scheduleReload(w, s, b.rev)

\* scheduleAcceptCleanup; its microtask runs before anything else does.
finishAccept(b, s) ==
    cleanupAcceptedSession(Later(watchForHandled(markSessionHandled(b), s),
                                 Timer("acceptClean", s, b.rev)))

-----------------------------------------------------------------------------
(* Variants from the source files *)

\* injectVariantsFromSource on a page of HTML reads the file; see Read.
\* completeSourceInjection: the wrapper of s is on the page.
completeInjection(b, s, t) ==
    LET c == [b EXCEPT !.anchor = None, !.arrived = b.dom[s]]
    IN  IF b.dom[s] > 0
        THEN saveSession(setLiveState(c, "CYCLING"))
        ELSE IF b.st = "GENERATING" /\ ~t.done THEN c
        ELSE IF b.st = "GENERATING" /\ t.n < Retries
        THEN Later(c, Task("retry", s, 0, t.n + 1, TRUE, t.orphan))
        ELSE recoverEmptyCycling(c)

\* injectVariantsFromSource: HTML is read, what a framework owns is left to it.
inject(b, s, n, done, orphan) ==
    LET c == [b EXCEPT !.file = TRUE]
        t == Task("read", s, 0, n, done, orphan)
    IN  IF ~framework THEN Later(c, t)
        ELSE IF b.dom[s] > 0 THEN completeInjection(c, s, t)
        ELSE IF done /\ s = b.cur
        THEN IF n < Retries THEN Later(c, [t EXCEPT !.k = "retry", !.n = n + 1])
             ELSE IF b.dom[s] = Absent THEN Tell(c)
             ELSE recoverEmptyCycling(c)
        ELSE IF orphan /\ b.dom[s] = Absent /\ s = b.cur THEN Later(c, [t EXCEPT !.k = "probe"])
        ELSE c

\* queueCheckpoint, sendCheckpoint: progress matters to the tab only where the server has
\* no record of the session.
queueCheckpoint(b) ==
    IF b.cur # None /\ srv[b.cur] = "none" THEN Later(b, Timer("checkpoint", None, 0)) ELSE b

-----------------------------------------------------------------------------
(* Resuming *)

\* The phases the server listed when it was connected to; Unheard where nothing was listed.
Unheard    == [s \in Sessions |-> "none"]
Open(l)    == {s \in Sessions : l[s] \in {"generating", "ready"}}
Listed(l)  == {s \in Sessions : l[s] # "none"}
activeSessions ==
    [s \in Sessions |-> IF srv[s] \in {"generating", "ready", "accepted"} THEN srv[s] ELSE "none"]
HasFile(s)   == src[s] # Absent \/ srv[s] = "ready"
Published(s) == IF src[s] = Absent THEN 0 ELSE src[s]

\* findAdoptableServerSession
Adoptable(b, l) == {s \in Open(l) : ~isHandled(b, s) /\ HasFile(s)}

\* serverSessionAsSavedShape
asSaved(s) == [id |-> s, st |-> "GENERATING", arrived |-> Published(s), file |-> TRUE]

\* The record to restore: the stored one, or the first session the server lists that the
\* tab may adopt.
Record(b, l) ==
    IF b.saved.id # None \/ Adoptable(b, l) = {} THEN b.saved
    ELSE asSaved(CHOOSE s \in Adoptable(b, l) : \A r \in Adoptable(b, l) : s <= r)

\* restoreSessionWithoutWrapper: when it does anything, and what.
Restorable(b, l) ==
    LET r == Record(b, l)
    IN  /\ r.id # None /\ ~isHandled(b, r.id) /\ r.st \in {"GENERATING", "CYCLING"}
        /\ Listed(l) # {} => r.id \in Open(l)

restoreWithoutWrapper(b, l) ==
    LET r == Record(b, l)
        here == r.id \in Open(l)
        c == queueCheckpoint(saveSession(
                [b EXCEPT !.cur = r.id, !.file = @ \/ r.file \/ (here /\ HasFile(r.id)),
                          !.arrived = IF r.arrived = 0 /\ here THEN Published(r.id) ELSE r.arrived,
                          !.st = "GENERATING", !.observed = r.id]))
    IN  IF c.file THEN inject(c, r.id, 0, FALSE, r.st = "CYCLING") ELSE c

\* resumeSession on the wrapper of session w.
resumeWrapper(b, w) ==
    queueCheckpoint(saveSession(
        [b EXCEPT !.cur = w, !.arrived = b.dom[w], !.observed = w,
                  !.file = b.file \/ (b.saved.id = w /\ b.saved.file),
                  !.st = IF b.dom[w] > 0 THEN "CYCLING" ELSE "GENERATING"]))

\* findAnyVariantsWrapper: one with variants if there is one; the order of the page is the
\* page's own, taken here as that of the sessions.
Wrappers(b) == {s \in Sessions : b.dom[s] # Absent}
AnyWrapper(b) ==
    LET populated == {s \in Wrappers(b) : b.dom[s] > 0}
        among     == IF populated = {} THEN Wrappers(b) ELSE populated
    IN  CHOOSE s \in among : \A r \in among : s <= r

\* Mutant: any wrapper on the page is taken up.
resumeAnyway(b, rev) ==
    IF Wrappers(b) = {}
    THEN IF Restorable(b, Unheard) THEN restoreWithoutWrapper(b, Unheard) ELSE clearSession(b)
    ELSE resumeWrapper(b, AnyWrapper(b))

\* resumeSession; a session that was accepted or discarded is left to its recovery.
resumeSession(b, rev) ==
    IF Wrappers(b) = {}
    THEN IF Restorable(b, Unheard) THEN restoreWithoutWrapper(b, Unheard) ELSE clearSession(b)
    ELSE LET w == AnyWrapper(b)
         IN  IF ~isHandled(b, w) THEN resumeWrapper(b, w)
             ELSE IF b.saved.id \notin {None, w} /\ ~isHandled(b, b.saved.id)
                     /\ (b.cur = b.saved.id \/ Restorable(b, Unheard))
             THEN IF b.cur = b.saved.id THEN b ELSE restoreWithoutWrapper(b, Unheard)
             ELSE scheduleReload(b, w, rev)

\* init: resume, arm the scout, and offer the picker.
boot(b) ==
    LET c == resumeSession(b, 0)
        d == [c EXCEPT !.scout = c.cur = None \/ Wrappers(c) = {}]
    IN  IF d.st = "IDLE" THEN setLiveState(d, "PICKING") ELSE d

-----------------------------------------------------------------------------
(* The page changes: mutation observers, in the order they were made *)

scoutPage(b) ==
    IF b.scout /\ Wrappers(b) # {}
    THEN LET c == resumeSession([b EXCEPT !.scout = FALSE], 0)
         IN  [c EXCEPT !.late = @ \/ c.cur # b.cur]
    ELSE b

observeVariants(b) ==
    LET s == b.observed
    IN  IF s # None /\ b.dom[s] > b.arrived
        THEN queueCheckpoint(saveSession([b EXCEPT !.arrived = b.dom[s], !.st = "CYCLING"]))
        ELSE b

\* waitForVariantAnchorAndRetry, once the wrapper is there.
retryAnchor(b) ==
    LET s == b.anchor
    IN  IF s # None /\ b.dom[s] # Absent
        THEN inject([b EXCEPT !.anchor = None], s, 0, FALSE, FALSE)
        ELSE b

\* findHandledWrapper of every watcher.
watchPage(b) ==
    LET due == {t \in b.tasks : t.k = "watch" /\ b.dom[t.s] # Absent /\ MayReload(b, t.s, t.rev)}
    IN  [b EXCEPT !.tries = [s \in Sessions |-> IF \E t \in due : t.s = s THEN @[s] + 1 ELSE @[s]],
                  !.tasks = @ \cup {Timer("handledReload", t.s, t.rev) : t \in due}]

pageChanged(b) == watchPage(retryAnchor(observeVariants(scoutPage(b))))

=============================================================================

--------------------------- MODULE LiveEditorProofs ----------------------------
(***************************************************************************)
(* Proofs about the live editor, for any numbers of sessions, variants,    *)
(* page loads, requests and faults.                                        *)
(***************************************************************************)
EXTENDS LiveEditor, SequenceTheorems, WellFoundedInduction, TLAPS

-----------------------------------------------------------------------------
(* The first of some numbers *)

LEMMA LeastNumber ==
  ASSUME NEW T \in SUBSET Nat, T # {}
  PROVE  \E m \in T : \A k \in T : m <= k
<1> DEFINE R == {ss \in Nat \X Nat : ss[1] < ss[2]}
<1>1. IsWellFoundedOn(R, Nat)
  BY NatLessThanWellFounded, Zenon DEF OpToRel
<1>2. \E x \in T : \A y \in T : ~ (<<y, x>> \in R)
  <2> HIDE DEF R
  <2> QED BY <1>1, WFMin
<1>3. PICK x \in T : \A y \in T : ~ (<<y, x>> \in R)
  BY <1>2
<1>4. ASSUME NEW y \in T PROVE x <= y
  <2>1. ~ (<<y, x>> \in R)
    BY <1>3
  <2> QED BY <2>1
<1> QED BY <1>4

-----------------------------------------------------------------------------
(* Copy edits: the records *)

Phases  == {"none", "applying", "repairing", "decision"}
Docks   == [n : Int, busy : BOOLEAN, off : BOOLEAN, choice : BOOLEAN, trash : BOOLEAN,
            barred : BOOLEAN, kept : Phases, st : {"PICKING", "CONFIGURING", "EDITING"},
            stuck : BOOLEAN]
Kinds   == {"idle", "count", "stash", "commit", "repair", "rollback", "discard"}
CallSet == [k : Kinds, at : {"sent", "ok", "over", "failed"}, n : Int, heard : BOOLEAN]
Events  == [ev : {"stashed", "started", "restarted", "chunk", "repair", "decide",
                  "rolledBack", "done", "failed", "discarded"}, n : Int]
Places  == 1..MaxCalls

\* An apply the tab takes for one that runs.
Held(u) == (u.busy \/ u.kept \in {"applying", "repairing"}) /\ ~u.stuck

\* The events that have the editor frozen.
Freezing == {"started", "restarted", "repair"}

Asks(c) == c.k \in {"commit", "repair"} /\ c.at # "ok"

\* The apply runs, or its end is on its way to the tab.
Pursued == Runs \/ Ending(feed) \/ \E i \in Places : Asks(calls[i])

CopyTypeOK ==
    /\ ui \in Docks /\ calls \in [Places -> CallSet] /\ feed \in Seq(Events)
    /\ \A i \in Places : calls[i].k = "idle" => calls[i] = Idle
    /\ linked \in BOOLEAN /\ missed \in BOOLEAN /\ staged \in Nat
    /\ job \in {"none", "applying", "repairing", "decide"} /\ slips \in Nat /\ pages \in Nat

\* What is frozen, or would be by the next page load, is released.
HeldIsPursued == ~missed /\ Held(ui) => Pursued

FreezingIsEnded ==
    ~missed => \A i \in DOMAIN feed : feed[i].ev \in Freezing =>
                   Runs \/ \E j \in DOMAIN feed : j > i /\ feed[j].ev \in Endings

CopyInv == CopyTypeOK /\ HeldIsPursued /\ FreezingIsEnded

-----------------------------------------------------------------------------
(* Copy edits: what the operators of the dock leave of a frozen editor *)

LEMMA DockIsNotHeld ==
  ASSUME NEW kept \in Phases
  PROVE  Dock(kept) \in Docks /\ Dock(kept).kept = kept /\ ~Dock(kept).busy
         /\ ~Dock(kept).stuck
  BY DEF Dock, Docks

LEMMA HiddenIsReleased ==
  ASSUME NEW u \in Docks
  PROVE  hidePendingApplyDock(u) \in Docks /\ ~Held(hidePendingApplyDock(u))
<1> DEFINE v == [u EXCEPT !.busy = FALSE, !.kept = "none"]
           w == [v EXCEPT !.off = FALSE, !.choice = FALSE, !.trash = FALSE]
<1>1. v \in Docks /\ ~v.busy /\ v.kept = "none"
  BY DEF Docks, Phases
<1> DEFINE z == 0
<1>2. hidePendingApplyDock(u) = [w EXCEPT !.n = z, !.barred = FALSE, !.stuck = FALSE]
  BY DEF hidePendingApplyDock, Docks
<1>4. z \in Int
  OBVIOUS
<1> HIDE DEF z
<1> HIDE DEF v
<1>3. w \in Docks /\ ~w.busy /\ w.kept = "none"
  BY <1>1 DEF Docks
<1> HIDE DEF w
<1> QED BY <1>2, <1>3, <1>4 DEF Docks, Held

LEMMA LoadingStates ==
  ASSUME NEW u \in Docks
  PROVE  Loading(u) \in Docks /\ Loading(u).stuck = u.stuck
<1> DEFINE v == [u EXCEPT !.busy = TRUE, !.off = TRUE, !.barred = TRUE]
<1>1. v \in Docks /\ v.stuck = u.stuck /\ v.kept = u.kept
  BY DEF Docks
<1>2. Loading(u) = [v EXCEPT !.choice = FALSE, !.trash = TRUE,
                             !.kept = IF u.kept = "none" /\ u.n > 0 THEN "applying" ELSE u.kept]
  BY DEF Loading, Docks
<1>3. (IF u.kept = "none" /\ u.n > 0 THEN "applying" ELSE u.kept) \in Phases
  BY DEF Docks, Phases
<1> HIDE DEF v
<1> QED BY <1>1, <1>2, <1>3 DEF Docks

LEMMA NotLoadingIsReleased ==
  ASSUME NEW u \in Docks
  PROVE  /\ NotLoading(u) \in Docks /\ ~Held(NotLoading(u))
         /\ ~NotLoading(u).busy /\ NotLoading(u).kept = "none"
<1> DEFINE v == [u EXCEPT !.busy = FALSE, !.kept = "none"]
<1>1. v \in Docks /\ ~v.busy /\ v.kept = "none"
  BY DEF Docks, Phases
<1>2. NotLoading(u) = [v EXCEPT !.off = FALSE, !.barred = FALSE, !.stuck = FALSE]
  BY DEF NotLoading, Docks
<1> HIDE DEF v
<1> QED BY <1>1, <1>2 DEF Docks, Held

\* A counter that is updated freezes what was frozen, or what the user is to decide.
LEMMA CounterHoldsNothing ==
  ASSUME NEW u \in Docks, NEW n \in Int
  PROVE  /\ updatePendingCounter(u, n) \in Docks
         /\ Held(updatePendingCounter(u, n)) => Held(u)
<1> DEFINE v == [u EXCEPT !.n = n, !.trash = TRUE, !.stuck = u.stuck \/ u.kept = "decision"]
<1>1. /\ v \in Docks /\ v.busy = u.busy /\ v.kept = u.kept
      /\ v.stuck = (u.stuck \/ u.kept = "decision")
  BY DEF Docks
<1>2. updatePendingCounter(u, n) = IF n = 0 THEN hidePendingApplyDock(u)
                                   ELSE IF u.busy \/ u.kept # "none" THEN Loading(v) ELSE v
  BY DEF updatePendingCounter
<1> HIDE DEF v
<1>3. CASE n = 0
  BY <1>2, <1>3, HiddenIsReleased
<1>4. CASE n # 0 /\ (u.busy \/ u.kept # "none")
  <2>1. updatePendingCounter(u, n) = Loading(v)
    BY <1>2, <1>4
  <2>2. Loading(v) \in Docks /\ Loading(v).stuck = (u.stuck \/ u.kept = "decision")
    BY <1>1, LoadingStates
  <2>3. u.kept \in Phases
    BY DEF Docks
  <2> QED BY <1>4, <2>1, <2>2, <2>3 DEF Held, Phases
<1>5. CASE n # 0 /\ ~(u.busy \/ u.kept # "none")
  BY <1>1, <1>2, <1>5 DEF Held
<1> QED BY <1>3, <1>4, <1>5

LEMMA RepairingStates ==
  ASSUME NEW u \in Docks
  PROVE  Repairing(u) \in Docks
<1>1. [u EXCEPT !.kept = "repairing"] \in Docks
  BY DEF Docks, Phases
<1> QED BY <1>1, LoadingStates DEF Repairing

LEMMA ProgressHoldsNothing ==
  ASSUME NEW u \in Docks
  PROVE  Progress(u) \in Docks /\ (Held(Progress(u)) => Held(u))
<1>1. [u EXCEPT !.kept = "applying"] \in Docks /\ [u EXCEPT !.kept = "applying"].stuck = u.stuck
  BY DEF Docks, Phases
<1>2. CASE u.busy
  BY <1>1, <1>2, LoadingStates DEF Progress, Held
<1>3. CASE ~u.busy
  BY <1>3 DEF Progress
<1> QED BY <1>2, <1>3

LEMMA DecisionIsReleased ==
  ASSUME NEW u \in Docks, NEW n \in Int
  PROVE  showManualApplyDecision(u, n) \in Docks /\ ~Held(showManualApplyDecision(u, n))
<1> DEFINE k == IF u.n > 0 \/ n > 0 \/ u.kept # "none" THEN "decision" ELSE u.kept
           v == [u EXCEPT !.busy = FALSE, !.off = TRUE, !.trash = FALSE]
<1>1. v \in Docks /\ ~v.busy
  BY DEF Docks
<1>2. k \in {"none", "decision"}
  OBVIOUS
<1>3. showManualApplyDecision(u, n) = [v EXCEPT !.choice = TRUE, !.stuck = FALSE, !.kept = k]
  BY DEF showManualApplyDecision, Docks
<1> HIDE DEF v, k
<1> QED BY <1>1, <1>2, <1>3 DEF Docks, Phases, Held

LEMMA CommitDoneIsReleased ==
  ASSUME NEW u \in Docks, NEW n \in Int
  PROVE  CommitDone(u, n) \in Docks /\ ~Held(CommitDone(u, n))
  BY NotLoadingIsReleased, CounterHoldsNothing DEF CommitDone

\* An answer freezes nothing, and one that may end an apply releases the editor.
LEMMA AnswersHoldNothing ==
  ASSUME ui \in Docks, NEW c \in CallSet, c.k # "idle", c.at # "sent"
  PROVE  /\ Heard(c) \in Docks
         /\ Held(Heard(c)) => Held(ui)
         /\ Asks(c) => ~Held(Heard(c))
<1>1. c.n \in Int /\ c.k \in Kinds /\ c.at \in {"ok", "over", "failed"}
  BY DEF CallSet
<1>2. CASE c.k \in {"count", "stash"} /\ c.at = "failed"
  BY <1>2 DEF Heard, Asks
<1>3. CASE c.k = "count" /\ c.at # "failed"
  BY <1>1, <1>3, CounterHoldsNothing DEF Heard, Asks
<1>4. CASE c.k = "stash" /\ c.at # "failed"
  <2> DEFINE u == updatePendingCounter(ui, c.n)
  <2>1. u \in Docks /\ (Held(u) => Held(ui))
    BY <1>1, CounterHoldsNothing
  <2>2. Heard(c) = [u EXCEPT !.st = "CONFIGURING"]
    BY <1>4 DEF Heard
  <2> HIDE DEF u
  <2> QED BY <1>4, <2>1, <2>2 DEF Docks, Held, Asks
<1>5. CASE c.k = "commit"
  <2> DEFINE u == IF c.at = "over" THEN updatePendingCounter(ui, c.n) ELSE ui
  <2>1. u \in Docks
    BY <1>1, CounterHoldsNothing
  <2>2. Heard(c) = IF c.at = "ok" THEN ui
                   ELSE IF u.n > 0 THEN NotLoading(u) ELSE hidePendingApplyDock(u)
    BY <1>5 DEF Heard
  <2> HIDE DEF u
  <2> QED BY <2>1, <2>2, NotLoadingIsReleased, HiddenIsReleased DEF Asks
<1>6. CASE c.k = "repair"
  <2>1. Heard(c) = IF c.at = "ok" THEN [ui EXCEPT !.choice = FALSE, !.trash = TRUE]
                   ELSE showManualApplyDecision(ui, 1)
    BY <1>6 DEF Heard
  <2>2. CASE c.at = "ok"
    BY <2>1, <2>2 DEF Docks, Held, Asks
  <2>3. CASE c.at # "ok"
    BY <2>1, <2>3, DecisionIsReleased
  <2> QED BY <2>2, <2>3
<1>7. CASE c.k = "rollback"
  <2> DEFINE u == [ui EXCEPT !.kept = "none"]
  <2>1. u \in Docks /\ (Held(u) => Held(ui))
    BY DEF Docks, Phases, Held
  <2>2. Heard(c) = IF c.at = "ok" THEN updatePendingCounter(u, c.n) ELSE ui
    BY <1>7 DEF Heard
  <2> HIDE DEF u
  <2> QED BY <1>1, <1>7, <2>1, <2>2, CounterHoldsNothing DEF Asks
<1>8. CASE c.k = "discard"
  <2>1. Heard(c) = IF c.at = "ok" THEN updatePendingCounter(ui, 0) ELSE ui
    BY <1>8 DEF Heard
  <2> QED BY <1>8, <2>1, CounterHoldsNothing DEF Asks
<1> QED BY <1>1, <1>2, <1>3, <1>4, <1>5, <1>6, <1>7, <1>8 DEF Kinds

\* So does an event, but for those that follow the start of a job.
LEMMA EventsHoldNothing ==
  ASSUME ui \in Docks, NEW e \in Events
  PROVE  /\ Activity(ui, e) \in Docks
         /\ Held(Activity(ui, e)) => Held(ui) \/ e.ev \in Freezing
         /\ e.ev \in Endings => ~Held(Activity(ui, e))
<1>1. e.n \in Int /\ updatePendingCounter(ui, e.n) \in Docks
  BY CounterHoldsNothing DEF Events
<1>2. CASE e.ev = "stashed"
  BY <1>1, <1>2, CounterHoldsNothing DEF Activity, Endings
<1>3. CASE e.ev = "started"
  <2> DEFINE u == [updatePendingCounter(ui, e.n) EXCEPT !.kept = "applying"]
  <2>1. u \in Docks
    BY <1>1 DEF Docks, Phases
  <2>2. Activity(ui, e) = Loading(u)
    BY <1>3 DEF Activity
  <2> HIDE DEF u
  <2> QED BY <1>3, <2>1, <2>2, LoadingStates DEF Freezing, Endings
<1>4. CASE e.ev = "restarted"
  BY <1>1, <1>4, RepairingStates, LoadingStates DEF Activity, Freezing, Endings
<1>5. CASE e.ev = "chunk"
  BY <1>5, ProgressHoldsNothing DEF Activity, Endings
<1>6. CASE e.ev = "repair"
  BY <1>6, RepairingStates DEF Activity, Freezing, Endings
<1>7. CASE e.ev = "decide"
  BY <1>1, <1>7, DecisionIsReleased DEF Activity
<1>8. CASE e.ev = "rolledBack"
  BY <1>8 DEF Activity, Endings, Docks, Phases, Held
<1>9. CASE e.ev = "done"
  BY <1>1, <1>9, CommitDoneIsReleased DEF Activity
<1>10. CASE e.ev = "failed"
  BY <1>10, NotLoadingIsReleased DEF Activity
<1>11. CASE e.ev = "discarded"
  BY <1>11 DEF Activity, Endings
<1> QED BY <1>2, <1>3, <1>4, <1>5, <1>6, <1>7, <1>8, <1>9, <1>10, <1>11 DEF Events

-----------------------------------------------------------------------------
(* Copy edits: requests and events *)

CallsOK(cs) == cs \in [Places -> CallSet] /\ \A i \in Places : cs[i].k = "idle" => cs[i] = Idle

LEMMA IdleIsNoRequest ==
  Idle \in CallSet /\ Idle.k = "idle" /\ Idle.at = "sent" /\ ~Asks(Idle)
  BY DEF Idle, CallSet, Kinds, Asks

\* A request takes a place that is free, and no other request's.
LEMMA RequestsAreKept ==
  ASSUME NEW cs, CallsOK(cs), NEW k \in Kinds \ {"idle"}, \E i \in Places : cs[i] = Idle
  PROVE  /\ CallsOK(With(cs, k))
         /\ \A j \in Places : Asks(cs[j]) => Asks(With(cs, k)[j])
         /\ k \in {"commit", "repair"} => \E j \in Places : Asks(With(cs, k)[j])
<1> DEFINE F == {j \in Places : cs[j] = Idle}
           First(j) == cs[j] = Idle /\ \A l \in 1..(j - 1) : cs[l] # Idle
           i == CHOOSE j \in Places : First(j)
           c == [Idle EXCEPT !.k = k]
<1>1. MaxCalls \in Nat
  BY CopyAssumption
<1>2. \E j \in Places : First(j)
  <2>1. F \in SUBSET Nat /\ F # {}
    BY <1>1 DEF Places
  <2>2. PICK m \in F : \A l \in F : m <= l
    BY <2>1, LeastNumber
  <2>3. \A l \in 1..(m - 1) : l \in Places /\ l \notin F
    BY <1>1, <2>2 DEF Places
  <2> QED BY <2>2, <2>3
<1>3. i \in Places /\ cs[i] = Idle
  BY <1>2
<1>4. With(cs, k) = [cs EXCEPT ![i] = c]
  BY DEF With, Places
<1>5. c \in CallSet /\ c.k = k /\ c.at = "sent"
  BY IdleIsNoRequest DEF CallSet
<1> HIDE DEF i, c
<1>6. With(cs, k)[i] = c /\ \A j \in Places \ {i} : With(cs, k)[j] = cs[j]
  BY <1>3, <1>4 DEF CallsOK
<1>7. With(cs, k) \in [Places -> CallSet]
  BY <1>4, <1>5 DEF CallsOK
<1>8. ~Asks(cs[i])
  BY <1>3, IdleIsNoRequest
<1>9. CallsOK(With(cs, k))
  BY <1>5, <1>6, <1>7 DEF CallsOK
<1>10. k \in {"commit", "repair"} => Asks(With(cs, k)[i])
  BY <1>5, <1>6 DEF Asks
<1> QED BY <1>3, <1>6, <1>8, <1>9, <1>10

LEMMA AnswersAreKept ==
  ASSUME CallsOK(calls), NEW i \in Places, calls[i] # Idle,
         NEW at \in {"ok", "over", "failed"}, NEW n \in Int, Answers(i, at, n)
  PROVE  /\ CallsOK(calls')
         /\ \A j \in Places : Asks(calls[j]) /\ (j = i => at # "ok") => Asks(calls'[j])
<1> DEFINE c == [calls[i] EXCEPT !.at = at, !.n = n]
<1>1. calls' = [calls EXCEPT ![i] = c]
  BY DEF Answers
<1>2. c \in CallSet /\ c.k = calls[i].k /\ c.at = at /\ c.k # "idle"
  BY DEF CallsOK, CallSet
<1> HIDE DEF c
<1>3. calls'[i] = c /\ \A j \in Places \ {i} : calls'[j] = calls[j]
  BY <1>1 DEF CallsOK
<1>4. CallsOK(calls')
  BY <1>1, <1>2, <1>3 DEF CallsOK
<1> QED BY <1>2, <1>3, <1>4 DEF Asks

\* What the tab is told keeps the ends that are on their way, and the order they came in.
LEMMA ToldInOrder ==
  ASSUME CopyTypeOK, FreezingIsEnded, NEW ev, NEW n, [ev |-> ev, n |-> n] \in Events,
         Tells(ev, n), Runs => Runs' \/ ev \in Endings, ev \in Freezing => Runs'
  PROVE  /\ feed' \in Seq(Events) /\ missed' \in BOOLEAN /\ (missed => missed')
         /\ Ending(feed) => Ending(feed')
         /\ ~missed' /\ ev \in Endings => Ending(feed')
         /\ FreezingIsEnded'
<1>1. CASE linked
  <2> DEFINE e == [ev |-> ev, n |-> n]
  <2>1. feed' = Append(feed, e) /\ missed' = missed
    BY <1>1 DEF Tells
  <2>2. e \in Events /\ e.ev = ev /\ feed \in Seq(Events) /\ missed \in BOOLEAN
    BY DEF CopyTypeOK
  <2> HIDE DEF e
  <2>3. /\ feed' \in Seq(Events) /\ DOMAIN feed = 1..Len(feed) /\ Len(feed) \in Nat
        /\ DOMAIN feed' = 1..(Len(feed) + 1) /\ feed'[Len(feed) + 1] = e
        /\ \A i \in DOMAIN feed : feed'[i] = feed[i] /\ i \in DOMAIN feed' /\ i < Len(feed) + 1
    BY <2>1, <2>2
  <2>4. Ending(feed) => Ending(feed')
    BY <2>3 DEF Ending
  <2>5. ev \in Endings => Ending(feed')
    BY <2>2, <2>3 DEF Ending
  <2>6. ASSUME ~missed', NEW i \in DOMAIN feed', feed'[i].ev \in Freezing, ~Runs'
        PROVE  \E j \in DOMAIN feed' : j > i /\ feed'[j].ev \in Endings
    <3>1. CASE i \in DOMAIN feed
      <4>1. Runs \/ \E j \in DOMAIN feed : j > i /\ feed[j].ev \in Endings
        BY <2>1, <2>3, <2>6, <3>1 DEF FreezingIsEnded
      <4>2. CASE Runs
        BY <2>2, <2>3, <2>6, <3>1, <4>2
      <4>3. CASE \E j \in DOMAIN feed : j > i /\ feed[j].ev \in Endings
        BY <2>3, <4>3
      <4> QED BY <4>1, <4>2, <4>3
    <3>2. CASE i = Len(feed) + 1
      BY <2>2, <2>3, <2>6, <3>2
    <3> QED BY <2>3, <2>6, <3>1, <3>2
  <2> QED BY <2>1, <2>2, <2>3, <2>4, <2>5, <2>6 DEF FreezingIsEnded
<1>2. CASE ~linked
  <2>1. feed' = feed /\ missed' = (missed \/ ev \in Endings) /\ missed \in BOOLEAN
        /\ feed \in Seq(Events)
    BY <1>2 DEF Tells, CopyTypeOK
  <2>2. FreezingIsEnded'
    BY <2>1 DEF FreezingIsEnded
  <2> QED BY <2>1, <2>2
<1> QED BY <1>1, <1>2

-----------------------------------------------------------------------------
(* Copy edits: the steps *)

\* The tab acts: what it has newly frozen, it has asked for.
LEMMA TabActs ==
  ASSUME CopyInv, ui' \in Docks, CallsOK(calls'), Elsewhere,
         \A j \in Places : Asks(calls[j]) => Asks(calls'[j]),
         Held(ui') => Held(ui) \/ \E j \in Places : Asks(calls'[j])
  PROVE  CopyInv'
<1>1. CopyTypeOK'
  BY DEF CopyInv, CopyTypeOK, CallsOK, Elsewhere
<1>2. FreezingIsEnded'
  BY DEF CopyInv, FreezingIsEnded, Elsewhere, Runs
<1>3. HeldIsPursued'
  BY DEF CopyInv, HeldIsPursued, Elsewhere, Pursued, Runs, Ending
<1> QED BY <1>1, <1>2, <1>3 DEF CopyInv

LEMMA Shown ==
  ASSUME CopyInv, NEW u \in Docks, Held(u) => Held(ui), Show(u)
  PROVE  CopyInv'
<1>1. ui' = u /\ calls' = calls /\ Elsewhere /\ CallsOK(calls)
  BY DEF Show, CopyInv, CopyTypeOK, CallsOK
<1> QED BY <1>1, TabActs

LEMMA Requested ==
  ASSUME CopyInv, NEW k \in Kinds \ {"idle"}, Calls(k)
  PROVE  /\ CallsOK(calls')
         /\ \A j \in Places : Asks(calls[j]) => Asks(calls'[j])
         /\ k \in {"commit", "repair"} => \E j \in Places : Asks(calls'[j])
<1>1. calls' = With(calls, k) /\ CallsOK(calls) /\ \E i \in Places : calls[i] = Idle
  BY DEF Calls, Free, Places, CopyInv, CopyTypeOK, CallsOK
<1> QED BY <1>1, RequestsAreKept

LEMMA EditsKeepCopies ==
  ASSUME CopyInv, Edits
  PROVE  CopyInv'
<1>1. ui \in Docks
  BY DEF CopyInv, CopyTypeOK
<1>2. \A st \in {"PICKING", "CONFIGURING", "EDITING"} :
         [ui EXCEPT !.st = st] \in Docks /\ (Held([ui EXCEPT !.st = st]) => Held(ui))
  BY <1>1 DEF Docks, Held
<1>3. CASE \E st \in {"PICKING", "CONFIGURING", "EDITING"} : Show([ui EXCEPT !.st = st])
  <2>1. PICK st \in {"PICKING", "CONFIGURING", "EDITING"} : Show([ui EXCEPT !.st = st])
    BY <1>3
  <2> DEFINE u == [ui EXCEPT !.st = st]
  <2>2. u \in Docks /\ (Held(u) => Held(ui)) /\ Show(u)
    BY <1>2, <2>1
  <2> HIDE DEF u
  <2> QED BY <2>2, Shown
<1>4. CASE Calls("stash") /\ UNCHANGED ui /\ Elsewhere
  <2>1. "stash" \in Kinds \ {"idle"}
    BY DEF Kinds
  <2>2. CallsOK(calls') /\ \A j \in Places : Asks(calls[j]) => Asks(calls'[j])
    BY <1>4, <2>1, Requested
  <2> QED BY <1>1, <1>4, <2>2, TabActs
<1> QED BY <1>3, <1>4 DEF Edits, Picks, Leaves, enterEditingMode, cancelEditing, applyEditing

LEMMA DecisionsKeepCopies ==
  ASSUME CopyInv, Decisions
  PROVE  CopyInv'
<1>1. ui \in Docks
  BY DEF CopyInv, CopyTypeOK
<1>2. {"commit", "repair", "discard", "rollback"} \subseteq Kinds \ {"idle"}
  BY DEF Kinds
<1>3. CASE onPendingPillClick
  <2>1. [ui EXCEPT !.kept = "applying"] \in Docks
    BY <1>1 DEF Docks, Phases
  <2>2. ui' \in Docks /\ Calls("commit") /\ Elsewhere
    BY <1>3, <2>1, LoadingStates DEF onPendingPillClick
  <2>3. CallsOK(calls') /\ (\A j \in Places : Asks(calls[j]) => Asks(calls'[j]))
        /\ \E j \in Places : Asks(calls'[j])
    BY <1>2, <2>2, Requested
  <2> QED BY <2>2, <2>3, TabActs
<1>4. CASE onPendingKeepFixingClick
  <2>1. ui' \in Docks /\ Calls("repair") /\ Elsewhere
    BY <1>1, <1>4, RepairingStates DEF onPendingKeepFixingClick
  <2>2. CallsOK(calls') /\ (\A j \in Places : Asks(calls[j]) => Asks(calls'[j]))
        /\ \E j \in Places : Asks(calls'[j])
    BY <1>2, <2>1, Requested
  <2> QED BY <2>1, <2>2, TabActs
<1>5. CASE onPendingTrashClick \/ onPendingRollbackClick
  <2>1. PICK k \in {"discard", "rollback"} : Calls(k)
    BY <1>5 DEF onPendingTrashClick, onPendingRollbackClick
  <2>2. CallsOK(calls') /\ (\A j \in Places : Asks(calls[j]) => Asks(calls'[j]))
    BY <1>2, <2>1, Requested
  <2>3. ui' = ui /\ Elsewhere
    BY <1>5 DEF onPendingTrashClick, onPendingRollbackClick
  <2> QED BY <1>1, <2>2, <2>3, TabActs
<1> QED BY <1>3, <1>4, <1>5 DEF Decisions

\* The server or the agent acts, and tells the tab.
LEMMA Told ==
  ASSUME CopyInv, CallsOK(calls'), staged' \in Nat,
         job' \in {"none", "applying", "repairing", "decide"},
         UNCHANGED <<ui, linked, slips, pages>>,
         \A j \in Places : Asks(calls[j]) => Asks(calls'[j]) \/ Runs',
         \/ Quietly /\ (Runs => Runs')
         \/ \E ev \in {"stashed", "started", "restarted", "chunk", "repair", "decide",
                       "rolledBack", "done", "failed", "discarded"}, n \in Int :
               /\ Tells(ev, n)
               /\ Runs => Runs' \/ ev \in Endings
               /\ ev \in Freezing => Runs'
  PROVE  CopyInv'
<1>1. CASE Quietly /\ (Runs => Runs')
  <2>1. CopyTypeOK'
    BY <1>1 DEF CopyInv, CopyTypeOK, CallsOK, Quietly
  <2>2. FreezingIsEnded'
    BY <1>1 DEF CopyInv, FreezingIsEnded, Quietly
  <2>3. HeldIsPursued'
    BY <1>1 DEF CopyInv, HeldIsPursued, Pursued, Ending, Quietly
  <2> QED BY <2>1, <2>2, <2>3 DEF CopyInv
<1>2. CASE ~(Quietly /\ (Runs => Runs'))
  <2>1. PICK ev \in {"stashed", "started", "restarted", "chunk", "repair", "decide",
                     "rolledBack", "done", "failed", "discarded"}, n \in Int :
               Tells(ev, n) /\ (Runs => Runs' \/ ev \in Endings) /\ (ev \in Freezing => Runs')
    BY <1>2
  <2>2. [ev |-> ev, n |-> n] \in Events
    BY DEF Events
  <2>3. /\ feed' \in Seq(Events) /\ missed' \in BOOLEAN /\ (missed => missed')
        /\ Ending(feed) => Ending(feed')
        /\ ~missed' /\ ev \in Endings => Ending(feed')
        /\ FreezingIsEnded'
    BY <2>1, <2>2, ToldInOrder DEF CopyInv
  <2>4. CopyTypeOK'
    BY <2>3 DEF CopyInv, CopyTypeOK, CallsOK
  <2>5. HeldIsPursued'
    <3>1. SUFFICES ASSUME ~missed', Held(ui') PROVE Pursued'
      BY DEF HeldIsPursued
    <3>2. Pursued
      BY <2>3, <3>1 DEF CopyInv, HeldIsPursued
    <3>3. Ending(feed)' = Ending(feed')
      BY DEF Ending
    <3> QED BY <2>1, <2>3, <3>1, <3>2, <3>3 DEF Pursued
  <2> QED BY <2>3, <2>4, <2>5 DEF CopyInv
<1> QED BY <1>1, <1>2

LEMMA ServesKeepsCopies ==
  ASSUME CopyInv, NEW i \in Places, Serves(i)
  PROVE  CopyInv'
<1>1. /\ calls[i] # Idle /\ CallsOK(calls) /\ staged \in Nat
      /\ job \in {"none", "applying", "repairing", "decide"}
      /\ UNCHANGED <<ui, linked, slips, pages>>
  BY DEF Serves, CopyInv, CopyTypeOK, CallsOK
<1> DEFINE Answered(at, n) ==
             /\ CallsOK(calls')
             /\ \A j \in Places : Asks(calls[j]) => Asks(calls'[j]) \/ (j = i /\ at = "ok")
<1>2. ASSUME NEW at \in {"ok", "over", "failed"}, NEW n \in Int, Answers(i, at, n)
      PROVE  Answered(at, n)
  BY <1>1, <1>2, AnswersAreKept
<1>3. \A ev \in Freezing : ev \in {"started", "restarted", "repair"} /\ ev \notin Endings
  BY DEF Freezing, Endings
<1>4. CASE calls[i].k = "stash" /\ Stashed(i)
  <2>1. /\ staged' = staged + 1 /\ job' = job /\ Answers(i, "ok", staged + 1)
        /\ Tells("stashed", staged + 1)
    BY <1>4 DEF Stashed
  <2>2. Answered("ok", staged + 1) /\ staged + 1 \in Int
    BY <1>1, <1>2, <2>1
  <2>3. ~Asks(calls[i])
    BY <1>4 DEF Asks
  <2> QED BY <1>1, <1>3, <2>1, <2>2, <2>3, Told DEF Runs
<1>5. CASE calls[i].k = "count" /\ Counted(i)
  <2>1. Answers(i, "ok", staged) /\ Quietly /\ UNCHANGED <<staged, job>>
    BY <1>5 DEF Counted
  <2>2. Answered("ok", staged)
    BY <1>1, <1>2, <2>1
  <2>3. ~Asks(calls[i])
    BY <1>5 DEF Asks
  <2> QED BY <1>1, <2>1, <2>2, <2>3, Told DEF Runs
<1>6. CASE calls[i].k = "commit" /\ Committed(i)
  <2>1. CASE /\ job' = "applying" /\ staged' = staged /\ Answers(i, "ok", 0)
             /\ Tells("started", staged)
    <3>1. Answered("ok", 0) /\ staged \in Int
      BY <1>1, <1>2, <2>1
    <3> QED BY <1>1, <1>3, <2>1, <3>1, Told DEF Runs
  <2>2. CASE /\ staged' \in 0..staged /\ job' = job /\ Answers(i, "over", staged') /\ Quietly
    <3>1. Answered("over", staged') /\ staged' \in Nat
      BY <1>1, <1>2, <2>2
    <3> QED BY <1>1, <2>2, <3>1, Told DEF Runs
  <2> QED BY <1>6, <2>1, <2>2 DEF Committed
<1>7. CASE calls[i].k = "repair" /\ Restarted(i)
  <2>1. /\ job' = "repairing" /\ staged' = staged /\ Answers(i, "ok", 0)
        /\ Tells("restarted", staged)
    BY <1>7 DEF Restarted
  <2>2. Answered("ok", 0) /\ staged \in Int
    BY <1>1, <1>2, <2>1
  <2> QED BY <1>1, <1>3, <2>1, <2>2, Told DEF Runs
<1>8. CASE calls[i].k = "rollback" /\ RolledBack(i)
  <2>1. /\ job = "decide" /\ job' = "none" /\ staged' = staged /\ Answers(i, "ok", staged)
        /\ Tells("rolledBack", staged)
    BY <1>8 DEF RolledBack
  <2>2. Answered("ok", staged) /\ staged \in Int
    BY <1>1, <1>2, <2>1
  <2>3. ~Asks(calls[i]) /\ ~Runs
    BY <1>8, <2>1 DEF Asks, Runs
  <2> QED BY <1>1, <1>3, <2>1, <2>2, <2>3, Told
<1>9. CASE calls[i].k = "discard" /\ Discarded(i)
  <2>1. staged' = 0 /\ job' = job /\ Answers(i, "ok", 0) /\ Tells("discarded", 0)
    BY <1>9 DEF Discarded
  <2>2. Answered("ok", 0)
    BY <1>2, <2>1
  <2>3. ~Asks(calls[i])
    BY <1>9 DEF Asks
  <2> QED BY <1>1, <1>3, <2>1, <2>2, <2>3, Told DEF Runs
<1>10. CASE Declined(i)
  <2>1. Answers(i, "failed", 0) /\ Quietly /\ UNCHANGED <<staged, job>>
    BY <1>10 DEF Declined
  <2>2. Answered("failed", 0)
    BY <1>2, <2>1
  <2> QED BY <1>1, <2>1, <2>2, Told DEF Runs
<1> QED BY <1>4, <1>5, <1>6, <1>7, <1>8, <1>9, <1>10 DEF Serves

LEMMA JobStepsKeepCopies ==
  ASSUME CopyInv, JobSteps
  PROVE  CopyInv'
<1>1. /\ CallsOK(calls) /\ staged \in Nat /\ UNCHANGED <<ui, calls, linked, slips, pages>>
      /\ CallsOK(calls')
  BY DEF JobSteps, CopyInv, CopyTypeOK, CallsOK
<1>2. Runs /\ job \in {"applying", "repairing"}
  BY DEF JobSteps, Runs
<1>3. {"chunk", "decide", "done", "failed"} \cap Freezing = {}
      /\ {"decide", "done", "failed"} \subseteq Endings
  BY DEF Freezing, Endings
<1>4. CASE job = "applying" /\ Tells("chunk", 0) /\ UNCHANGED <<staged, job>>
  <2>1. Runs'
    BY <1>2, <1>4 DEF Runs
  <2> QED BY <1>1, <1>2, <1>3, <1>4, <2>1, Told
<1>5. CASE job' = "repairing" /\ Tells("repair", 0) /\ UNCHANGED staged
  <2>1. Runs'
    BY <1>5 DEF Runs
  <2> QED BY <1>1, <1>5, <2>1, Told
<1>6. CASE job' = "decide" /\ Tells("decide", staged) /\ UNCHANGED staged
  BY <1>1, <1>3, <1>6, Told
<1>7. CASE job' = "none" /\ staged' \in 0..staged /\ Tells("done", staged')
  <2>1. staged' \in Nat /\ staged' \in Int
    BY <1>1, <1>7
  <2> QED BY <1>1, <1>3, <1>7, <2>1, Told
<1>8. CASE job' = "none" /\ Tells("failed", 0) /\ UNCHANGED staged
  BY <1>1, <1>3, <1>8, Told
<1> QED BY <1>4, <1>5, <1>6, <1>7, <1>8 DEF JobSteps

LEMMA DropsKeepsCopies ==
  ASSUME CopyInv, NEW i \in Places, Drops(i)
  PROVE  CopyInv'
<1>1. /\ calls[i] # Idle /\ CallsOK(calls) /\ Answers(i, "failed", 0)
      /\ slips' = slips + 1 /\ UNCHANGED <<ui, feed, linked, staged, job, missed, pages>>
  BY DEF Drops, CopyInv, CopyTypeOK, CallsOK
<1>2. CallsOK(calls') /\ \A j \in Places : Asks(calls[j]) => Asks(calls'[j])
  BY <1>1, AnswersAreKept
<1>3. CopyTypeOK'
  BY <1>1, <1>2 DEF CopyInv, CopyTypeOK, CallsOK
<1>4. FreezingIsEnded'
  BY <1>1 DEF CopyInv, FreezingIsEnded, Runs
<1>5. HeldIsPursued'
  BY <1>1, <1>2 DEF CopyInv, HeldIsPursued, Pursued, Ending, Runs
<1> QED BY <1>3, <1>4, <1>5 DEF CopyInv

\* An answer nobody hears of, and that is not the start of a job, is an end the tab missed.
LEMMA HearsAnswerKeepsCopies ==
  ASSUME CopyInv, NEW i \in Places, HearsAnswer(i)
  PROVE  CopyInv'
<1> DEFINE c == calls[i]
<1>1. /\ c # Idle /\ c.at # "sent" /\ c \in CallSet /\ c.k # "idle" /\ ui \in Docks
      /\ ui' = (IF c.heard THEN Heard(c) ELSE ui)
      /\ missed' = (missed \/ (~c.heard /\ c.at # "ok"))
      /\ calls' = [calls EXCEPT ![i] = Idle] /\ CallsOK(calls)
      /\ UNCHANGED <<feed, linked, staged, job, slips, pages>>
  BY DEF HearsAnswer, CopyInv, CopyTypeOK, CallsOK
<1>2. calls'[i] = Idle /\ \A j \in Places \ {i} : calls'[j] = calls[j]
  BY <1>1 DEF CallsOK
<1>3. CallsOK(calls')
  BY <1>1, <1>2, IdleIsNoRequest DEF CallsOK
<1> HIDE DEF c
<1>4. ui' \in Docks /\ (Held(ui') => Held(ui)) /\ (c.heard /\ Asks(c) => ~Held(ui'))
  BY <1>1, AnswersHoldNothing
<1>5. c.heard \in BOOLEAN
  BY <1>1 DEF CallSet
<1>6. CopyTypeOK'
  <2>1. missed' \in BOOLEAN
    BY <1>1, <1>5 DEF CopyInv, CopyTypeOK
  <2> QED BY <1>1, <1>3, <1>4, <2>1 DEF CopyInv, CopyTypeOK, CallsOK
<1>7. FreezingIsEnded'
  BY <1>1 DEF CopyInv, FreezingIsEnded, Runs
<1>8. HeldIsPursued'
  <2>1. SUFFICES ASSUME ~missed', Held(ui') PROVE Pursued'
    BY DEF HeldIsPursued
  <2>2. Pursued
    BY <1>1, <1>4, <2>1 DEF CopyInv, HeldIsPursued
  <2>3. ~Asks(c)
    BY <1>1, <1>4, <1>5, <2>1 DEF Asks
  <2>4. \A j \in Places : Asks(calls[j]) => Asks(calls'[j])
    BY <1>2, <2>3 DEF c
  <2> QED BY <1>1, <2>2, <2>4 DEF Pursued, Runs, Ending
<1> QED BY <1>6, <1>7, <1>8 DEF CopyInv

LEMMA HearsEventKeepsCopies ==
  ASSUME CopyInv, HearsEvent
  PROVE  CopyInv'
<1> DEFINE e == Head(feed)
<1>1. /\ feed \in Seq(Events) /\ feed # <<>> /\ ui \in Docks /\ ui' = Activity(ui, e)
      /\ feed' = Tail(feed) /\ UNCHANGED <<linked, staged, job, missed, slips, pages>>
  BY DEF HearsEvent, CopyInv, CopyTypeOK
<1>2. /\ e \in Events /\ e = feed[1] /\ feed' \in Seq(Events) /\ 1 \in DOMAIN feed
      /\ DOMAIN feed = 1..Len(feed) /\ Len(feed) \in Nat /\ DOMAIN feed' = 1..(Len(feed) - 1)
      /\ \A j \in DOMAIN feed' : j + 1 \in DOMAIN feed /\ feed'[j] = feed[j + 1]
      /\ \A j \in DOMAIN feed : j # 1 => j - 1 \in DOMAIN feed' /\ feed'[j - 1] = feed[j]
  BY <1>1
<1>3. CallsOK(calls') /\ \A j \in Places : Asks(calls[j]) => Asks(calls'[j])
  <2>1. CASE calls' = calls
    BY <2>1 DEF CopyInv, CopyTypeOK, CallsOK
  <2>2. CASE Calls("count")
    <3>1. "count" \in Kinds \ {"idle"}
      BY DEF Kinds
    <3> QED BY <2>2, <3>1, Requested
  <2> QED BY <2>1, <2>2 DEF HearsEvent
<1> HIDE DEF e
<1>4. /\ ui' \in Docks /\ (Held(ui') => Held(ui) \/ e.ev \in Freezing)
      /\ (e.ev \in Endings => ~Held(ui'))
  BY <1>1, <1>2, EventsHoldNothing
<1>5. CopyTypeOK'
  BY <1>1, <1>2, <1>3, <1>4 DEF CopyInv, CopyTypeOK, CallsOK
<1>6. FreezingIsEnded'
  <2>1. SUFFICES ASSUME ~missed', NEW j \in DOMAIN feed', feed'[j].ev \in Freezing, ~Runs'
                 PROVE  \E l \in DOMAIN feed' : l > j /\ feed'[l].ev \in Endings
    BY DEF FreezingIsEnded
  <2>2. ~missed /\ ~Runs /\ j + 1 \in DOMAIN feed /\ feed[j + 1].ev \in Freezing
    BY <1>1, <1>2, <2>1 DEF Runs
  <2>3. PICK l \in DOMAIN feed : l > j + 1 /\ feed[l].ev \in Endings
    BY <2>2 DEF CopyInv, FreezingIsEnded
  <2>4. l - 1 \in DOMAIN feed' /\ feed'[l - 1] = feed[l] /\ l - 1 > j
    BY <1>2, <2>1, <2>3
  <2> QED BY <2>3, <2>4
<1>7. HeldIsPursued'
  <2>1. SUFFICES ASSUME ~missed', Held(ui') PROVE Pursued'
    BY DEF HeldIsPursued
  <2>2. ~missed /\ e.ev \notin Endings
    BY <1>1, <1>4, <2>1
  <2>3. Ending(feed) => Ending(feed')
    <3>1. SUFFICES ASSUME NEW l \in DOMAIN feed, feed[l].ev \in Endings PROVE Ending(feed')
      BY DEF Ending
    <3>2. l # 1
      BY <1>2, <2>2, <3>1
    <3> QED BY <1>2, <3>1, <3>2 DEF Ending
  <2>4. Pursued
    <3>1. CASE Held(ui)
      BY <2>2, <3>1 DEF CopyInv, HeldIsPursued
    <3>2. CASE feed[1].ev \in Freezing
      BY <1>2, <2>2, <3>2 DEF CopyInv, FreezingIsEnded, Pursued, Ending
    <3> QED BY <1>2, <1>4, <2>1, <3>1, <3>2
  <2>5. (Runs => Runs') /\ (Ending(feed)' <=> Ending(feed'))
    BY <1>1 DEF Runs, Ending
  <2> QED BY <1>3, <2>3, <2>4, <2>5 DEF Pursued
<1> QED BY <1>5, <1>6, <1>7 DEF CopyInv

LEMMA ConnectionsKeepCopies ==
  ASSUME CopyInv, Links \/ Unlinks
  PROVE  CopyInv'
<1>1. CASE Links
  <2>1. CopyTypeOK'
    BY <1>1 DEF Links, CopyInv, CopyTypeOK
  <2> QED BY <1>1, <2>1 DEF Links, CopyInv, FreezingIsEnded, HeldIsPursued, Pursued, Runs, Ending
<1>2. CASE Unlinks
  <2>1. /\ feed' = <<>> /\ missed' = (missed \/ Ending(feed)) /\ slips' = slips + 1
        /\ linked' = FALSE /\ UNCHANGED <<ui, calls, staged, job, pages>>
    BY <1>2 DEF Unlinks
  <2>2. CopyTypeOK'
    <3>1. Ending(feed) \in BOOLEAN
      BY DEF Ending
    <3>2. missed' \in BOOLEAN
      BY <2>1, <3>1 DEF CopyInv, CopyTypeOK
    <3>3. feed' \in Seq(Events)
      BY <2>1
    <3>4. linked' \in BOOLEAN
      BY <2>1
    <3>7. slips' \in Nat
      BY <2>1 DEF CopyInv, CopyTypeOK
    <3>5. /\ ui' \in Docks /\ staged' \in Nat /\ pages' \in Nat
          /\ job' \in {"none", "applying", "repairing", "decide"}
      BY <2>1 DEF CopyInv, CopyTypeOK
    <3>6. CallsOK(calls')
      BY <2>1 DEF CopyInv, CopyTypeOK, CallsOK
    <3> QED BY <3>2, <3>3, <3>4, <3>5, <3>6, <3>7 DEF CopyTypeOK, CallsOK
  <2>3. FreezingIsEnded'
    BY <2>1 DEF FreezingIsEnded
  <2>4. HeldIsPursued'
    BY <2>1 DEF CopyInv, HeldIsPursued, Pursued, Runs
  <2> QED BY <2>2, <2>3, <2>4 DEF CopyInv
<1> QED BY <1>1, <1>2

\* What a page load leaves: the requests that outlive it, and what is stored.
LEMMA LoadsPageKeepsCopies ==
  ASSUME CopyInv, LoadsPage
  PROVE  CopyInv'
<1> DEFINE left == [i \in Places |-> IF Outlives(calls[i]) THEN [calls[i] EXCEPT !.heard = FALSE]
                                     ELSE Idle]
           u == [Dock(ui.kept) EXCEPT !.stuck = ui.stuck]
           Lost == \E i \in Places : /\ calls[i].k \in {"commit", "repair"}
                                     /\ calls[i].at \in {"over", "failed"}
<1>1. /\ pages' = pages + 1 /\ ui' = u /\ calls' = With(left, "count")
      /\ (\E i \in Places : left[i] = Idle) /\ linked' = FALSE /\ feed' = <<>>
      /\ missed' = (missed \/ Ending(feed) \/ Lost) /\ UNCHANGED <<staged, job, slips>>
  BY DEF LoadsPage, Places
<1>2. ui \in Docks /\ CallsOK(calls) /\ ui.kept \in Phases /\ ui.stuck \in BOOLEAN
  BY DEF CopyInv, CopyTypeOK, CallsOK, Docks
<1>3. u \in Docks /\ (Held(u) => Held(ui))
  <2>1. Dock(ui.kept) \in Docks /\ Dock(ui.kept).kept = ui.kept /\ ~Dock(ui.kept).busy
    BY <1>2, DockIsNotHeld
  <2> QED BY <1>2, <2>1 DEF Docks, Held
<1>4. \A i \in Places : /\ left[i] \in CallSet /\ (left[i].k = "idle" => left[i] = Idle)
                        /\ Asks(calls[i]) /\ calls[i].at = "sent" => Asks(left[i])
  <2>1. TAKE i \in Places
  <2>2. calls[i] \in CallSet
    BY <1>2 DEF CallsOK
  <2>3. CASE Outlives(calls[i])
    BY <2>2, <2>3 DEF Outlives, CallSet, Asks
  <2>4. CASE ~Outlives(calls[i])
    BY <2>4, IdleIsNoRequest DEF Outlives, Asks
  <2> QED BY <2>3, <2>4
<1>5. CallsOK(left)
  BY <1>4 DEF CallsOK
<1>6. \A i \in Places : Asks(calls[i]) => Lost \/ calls[i].at = "sent"
  BY <1>2 DEF CallsOK, CallSet, Asks
<1>7. Lost \in BOOLEAN /\ Ending(feed) \in BOOLEAN
  BY DEF Ending
<1> HIDE DEF left, u, Lost
<1>8. CallsOK(calls') /\ \A i \in Places : Asks(left[i]) => Asks(calls'[i])
  <2>1. "count" \in Kinds \ {"idle"}
    BY DEF Kinds
  <2> QED BY <1>1, <1>5, <2>1, RequestsAreKept
<1>9. CopyTypeOK'
  <2>1. feed' \in Seq(Events) /\ missed' \in BOOLEAN
    BY <1>1, <1>7 DEF CopyInv, CopyTypeOK
  <2>2. linked' \in BOOLEAN
    BY <1>1
  <2>4. pages' \in Nat
    BY <1>1 DEF CopyInv, CopyTypeOK
  <2>3. staged' \in Nat /\ slips' \in Nat /\ job' \in {"none", "applying", "repairing", "decide"}
    BY <1>1 DEF CopyInv, CopyTypeOK
  <2> QED BY <1>1, <1>3, <1>8, <2>1, <2>2, <2>3, <2>4 DEF CopyTypeOK, CallsOK
<1>10. FreezingIsEnded'
  BY <1>1 DEF FreezingIsEnded
<1>11. HeldIsPursued'
  BY <1>1, <1>3, <1>4, <1>6, <1>8 DEF CopyInv, HeldIsPursued, Pursued, Runs
<1> QED BY <1>9, <1>10, <1>11 DEF CopyInv

LEMMA CopyStepsKeepCopies ==
  ASSUME CopyInv, [CopyNext]_copied
  PROVE  CopyInv'
<1>1. CASE Edits
  BY <1>1, EditsKeepCopies
<1>2. CASE Decisions
  BY <1>2, DecisionsKeepCopies
<1>3. CASE JobSteps
  BY <1>3, JobStepsKeepCopies
<1>4. CASE \E i \in 1..MaxCalls : Serves(i) \/ Drops(i) \/ HearsAnswer(i)
  <2>1. PICK i \in Places : Serves(i) \/ Drops(i) \/ HearsAnswer(i)
    BY <1>4 DEF Places
  <2> QED BY <2>1, ServesKeepsCopies, DropsKeepsCopies, HearsAnswerKeepsCopies
<1>5. CASE HearsEvent
  BY <1>5, HearsEventKeepsCopies
<1>6. CASE Links \/ Unlinks
  BY <1>6, ConnectionsKeepCopies
<1>7. CASE LoadsPage
  BY <1>7, LoadsPageKeepsCopies
<1>8. CASE UNCHANGED copied
  BY <1>8 DEF copied, CopyInv, CopyTypeOK, FreezingIsEnded, HeldIsPursued, Pursued, Runs, Ending
<1> QED BY <1>1, <1>2, <1>3, <1>4, <1>5, <1>6, <1>7, <1>8 DEF CopyNext

LEMMA CopyInitial == CopyInit => CopyInv
<1> SUFFICES ASSUME CopyInit PROVE CopyInv
  OBVIOUS
<1> DEFINE blank == [i \in Places |-> Idle]
<1>1. CallsOK(blank) /\ \E i \in Places : blank[i] = Idle
  BY IdleIsNoRequest, CopyAssumption DEF CallsOK, Places
<1>2. calls = With(blank, "count")
  BY DEF CopyInit, Places
<1> HIDE DEF blank
<1>3. CallsOK(calls)
  <2>1. "count" \in Kinds \ {"idle"}
    BY DEF Kinds
  <2> QED BY <1>1, <1>2, <2>1, RequestsAreKept
<1>4. ui \in Docks /\ ui.kept = "none" /\ ~ui.busy
  BY DockIsNotHeld DEF CopyInit, Phases
<1>5. feed = <<>> /\ feed \in Seq(Events)
  BY DEF CopyInit
<1>6. CopyTypeOK
  BY <1>3, <1>4, <1>5 DEF CopyInit, CopyTypeOK, CallsOK
<1>7. FreezingIsEnded /\ HeldIsPursued
  BY <1>4, <1>5 DEF FreezingIsEnded, HeldIsPursued, Held
<1> QED BY <1>6, <1>7 DEF CopyInv

\* "leave the picker frozen forever after a partial/failed apply": an editor that is frozen by
\* an apply whose end the tab did not miss has an end to come, whatever the order of answers,
\* events and page loads.
THEOREM FrozenEditorsArePursued == CopySpec => []FrozenIsPursued
<1>1. CopyInv => FrozenIsPursued
  BY DEF CopyInv, HeldIsPursued, FrozenIsPursued, Held, Pursued, Asks, Places
<1> QED BY <1>1, CopyInitial, CopyStepsKeepCopies, PTL DEF CopySpec

-----------------------------------------------------------------------------
(* Sessions: the records *)

Recoveries == {"acceptClean", "acceptReload", "discardClean", "discardReload", "handledReload",
               "watch"}
Sourceless == {"missing", "checkpoint"}
TaskKinds  == Recoveries \cup Sourceless \cup
              {"capture", "settle", "retry", "orphanRetry", "read", "probe", "discardWatch"}

\* What there may be of the sessions 1..m.
Tasks(m)   == [k : TaskKinds, s : 0..m, rev : Nat, n : Nat, done : BOOLEAN, orphan : BOOLEAN]
Records(m) == [id : 0..m, st : States, arrived : Int, file : BOOLEAN]
Tabs(m)    == [st : States, cur : 0..m, rev : Nat, arrived : Int, file : BOOLEAN, pend : 0..m,
               awaiting : 0..m, observed : 0..m, anchor : 0..m, scout : BOOLEAN,
               tasks : SUBSET Tasks(m), told : BOOLEAN, late : BOOLEAN,
               dom : [Sessions -> Int], saved : Records(m), handled : Seq(1..m), tries : [Sessions -> Int]]

ListedOnce(q) == \A i, j \in DOMAIN q : q[i] = q[j] => i = j
OfSession(t)  == t.k \notin Sourceless => t.s # None

\* The tab knows of no session beyond the m-th, and no recovery is of a later revision.
Sound(b, m) ==
    /\ b \in Tabs(m) /\ ListedOnce(b.handled)
    /\ \A s \in Sessions : s > m => b.dom[s] = Absent
    /\ \A t \in b.tasks : OfSession(t) /\ (t.k \in Recoveries => t.rev <= b.rev)

\* A configuration makes every recovery there is an earlier one's.
Settled(b) ==
    b.st = "CONFIGURING" => b.rev > 0 /\ \A t \in b.tasks : t.k \in Recoveries => t.rev < b.rev

CurIsOpen(b) == b.cur # None => ~isHandled(b, b.cur)

Good(b, m) == Sound(b, m) /\ Settled(b) /\ CurIsOpen(b)

\* What differs between the two tabs is neither known sessions nor recoveries.
Alike(b, c) == /\ c.cur = b.cur /\ c.rev = b.rev /\ c.tasks = b.tasks /\ c.dom = b.dom
               /\ c.handled = b.handled

LEMMA AlikeIsGood ==
  ASSUME NEW m \in Nat, NEW b, Good(b, m), NEW c \in Tabs(m), Alike(b, c),
         c.st = b.st \/ c.st # "CONFIGURING"
  PROVE  Good(c, m)
  BY DEF Good, Sound, Settled, CurIsOpen, Alike, isHandled

LEMMA StatesAreGood ==
  ASSUME NEW m \in Nat, NEW b, Good(b, m), NEW st \in States \ {"CONFIGURING"}
  PROVE  Good(setLiveState(b, st), m)
<1>1. b \in Tabs(m)
  BY DEF Good, Sound
<1>2. setLiveState(b, st) \in Tabs(m) /\ setLiveState(b, st).st = st
      /\ Alike(b, setLiveState(b, st))
  BY <1>1 DEF setLiveState, Tabs, Alike
<1> QED BY <1>2, AlikeIsGood

LEMMA TellIsGood ==
  ASSUME NEW m \in Nat, NEW b, Good(b, m)
  PROVE  Good(Tell(b), m)
<1>1. b \in Tabs(m)
  BY DEF Good, Sound
<1>2. Tell(b) \in Tabs(m) /\ Tell(b).st = b.st /\ Alike(b, Tell(b))
  BY <1>1 DEF Tell, Tabs, Alike
<1> QED BY <1>2, AlikeIsGood

LEMMA LateIsGood ==
  ASSUME NEW m \in Nat, NEW b, Good(b, m), NEW w \in BOOLEAN
  PROVE  Good([b EXCEPT !.late = w], m)
<1>1. b \in Tabs(m)
  BY DEF Good, Sound
<1>2. [b EXCEPT !.late = w] \in Tabs(m) /\ [b EXCEPT !.late = w].st = b.st
      /\ Alike(b, [b EXCEPT !.late = w])
  BY <1>1 DEF Tabs, Alike
<1> QED BY <1>2, AlikeIsGood

LEMMA SaveIsGood ==
  ASSUME NEW m \in Nat, NEW b, Good(b, m)
  PROVE  Good(saveSession(b), m)
<1> DEFINE r == [id |-> b.cur, st |-> b.st, arrived |-> b.arrived, file |-> b.file]
           c == [b EXCEPT !.saved = r]
<1>1. b \in Tabs(m)
  BY DEF Good, Sound
<1>2. r \in Records(m)
  BY <1>1 DEF Tabs, Records
<1>3. saveSession(b) = IF b.cur = None THEN b ELSE c
  BY DEF saveSession
<1> HIDE DEF r
<1>4. c \in Tabs(m) /\ c.st = b.st /\ Alike(b, c)
  BY <1>1, <1>2 DEF Tabs, Alike
<1> QED BY <1>3, <1>4, AlikeIsGood

\* A sequence without its i-th element, and its end from the place from.
LEMMA WithoutOne ==
  ASSUME NEW S, NEW q \in Seq(S), NEW i \in 1..Len(q)
  PROVE  LET o == SubSeq(q, 1, i - 1) \o SubSeq(q, i + 1, Len(q))
         IN  /\ o \in Seq(S) /\ Len(o) = Len(q) - 1
             /\ \A j \in 1..(Len(q) - 1) : o[j] = IF j < i THEN q[j] ELSE q[j + 1]
<1> DEFINE l == SubSeq(q, 1, i - 1)
           r == SubSeq(q, i + 1, Len(q))
<1>1. Len(q) \in Nat /\ i \in Nat
  OBVIOUS
<1>2. i - 1 \in (1 - 1)..Len(q) /\ 1 \in 1..(Len(q) + 1)
      /\ i + 1 \in 1..(Len(q) + 1) /\ Len(q) \in ((i + 1) - 1)..Len(q)
  BY <1>1
<1>3. /\ l \in Seq(S) /\ Len(l) = IF 1 <= i - 1 THEN (i - 1) - 1 + 1 ELSE 0
      /\ \A j \in 1..((i - 1) - 1 + 1) : l[j] = q[1 + j - 1]
  BY <1>2, SubSeqProperties
<1>4. /\ r \in Seq(S) /\ Len(r) = IF i + 1 <= Len(q) THEN Len(q) - (i + 1) + 1 ELSE 0
      /\ \A j \in 1..(Len(q) - (i + 1) + 1) : r[j] = q[(i + 1) + j - 1]
  BY <1>2, SubSeqProperties
<1>5. Len(l) = i - 1 /\ Len(r) = Len(q) - i
  BY <1>1, <1>3, <1>4
<1> HIDE DEF l, r
<1>6. /\ l \o r \in Seq(S) /\ Len(l \o r) = Len(l) + Len(r)
      /\ \A j \in 1..(Len(l) + Len(r)) :
            (l \o r)[j] = IF j <= Len(l) THEN l[j] ELSE r[j - Len(l)]
  BY <1>3, <1>4, ConcatProperties
<1>7. ASSUME NEW j \in 1..(Len(q) - 1)
      PROVE  (l \o r)[j] = IF j < i THEN q[j] ELSE q[j + 1]
  <2>1. (l \o r)[j] = IF j <= i - 1 THEN l[j] ELSE r[j - (i - 1)]
    BY <1>1, <1>5, <1>6
  <2>2. CASE j < i
    BY <1>1, <1>3, <2>1, <2>2
  <2>3. CASE ~(j < i)
    <3>1. j - (i - 1) \in 1..(Len(q) - (i + 1) + 1) /\ (i + 1) + (j - (i - 1)) - 1 = j + 1
      BY <1>1, <2>3
    <3> QED BY <1>1, <1>4, <2>1, <2>3, <3>1
  <2> QED BY <2>2, <2>3
<1>8. l \o r \in Seq(S) /\ Len(l \o r) = Len(q) - 1
  BY <1>1, <1>5, <1>6
<1> QED BY <1>7, <1>8, Zenon DEF l, r

LEMMA Window ==
  ASSUME NEW S, NEW q \in Seq(S), NEW from \in 1..Len(q)
  PROVE  LET w == SubSeq(q, from, Len(q))
         IN  /\ w \in Seq(S) /\ Len(w) = Len(q) - from + 1
             /\ \A j \in 1..(Len(q) - from + 1) : w[j] = q[from + j - 1]
<1>1. Len(q) \in Nat /\ from \in 1..(Len(q) + 1) /\ Len(q) \in (from - 1)..Len(q)
  OBVIOUS
<1>2. /\ SubSeq(q, from, Len(q)) \in Seq(S)
      /\ Len(SubSeq(q, from, Len(q))) = IF from <= Len(q) THEN Len(q) - from + 1 ELSE 0
      /\ \A j \in 1..(Len(q) - from + 1) : SubSeq(q, from, Len(q))[j] = q[from + j - 1]
  BY <1>1, SubSeqProperties
<1> QED BY <1>1, <1>2

LEMMA MarkedIsListedOnce ==
  ASSUME NEW m \in Nat, NEW q \in Seq(1..m), ListedOnce(q), NEW s \in 1..m
  PROVE  markHandled(q, s) \in Seq(1..m) /\ ListedOnce(markHandled(q, s))
<1> DEFINE others == Unlisted(q, s)
           ids == Append(others, s)
           from == IF Len(ids) > HandledLimit THEN Len(ids) - HandledLimit + 1 ELSE 1
<1>1. /\ others \in Seq(1..m) /\ ListedOnce(others)
      /\ \A i \in DOMAIN others : others[i] # s
  <2>1. CASE \E i \in DOMAIN q : q[i] = s
    <3> DEFINE i == CHOOSE j \in DOMAIN q : q[j] = s
    <3>1. i \in 1..Len(q) /\ q[i] = s /\ Len(q) \in Nat /\ DOMAIN q = 1..Len(q)
      BY <2>1
    <3>2. others = SubSeq(q, 1, i - 1) \o SubSeq(q, i + 1, Len(q))
      BY <2>1 DEF Unlisted
    <3> HIDE DEF i, others
    <3>3. /\ others \in Seq(1..m) /\ Len(others) = Len(q) - 1
          /\ \A j \in 1..(Len(q) - 1) : others[j] = IF j < i THEN q[j] ELSE q[j + 1]
      BY <3>1, <3>2, WithoutOne
    <3> DEFINE At(j) == IF j < i THEN j ELSE j + 1
    <3>4. DOMAIN others = 1..(Len(q) - 1)
      BY <3>1, <3>3
    <3>5. \A j \in DOMAIN others : At(j) \in DOMAIN q /\ At(j) # i /\ others[j] = q[At(j)]
      <4>1. TAKE j \in DOMAIN others
      <4>2. j \in 1..(Len(q) - 1) /\ j \in Int /\ i \in Int
        BY <3>1, <3>4
      <4>3. At(j) \in 1..Len(q) /\ At(j) # i
        BY <3>1, <4>2
      <4> QED BY <3>1, <3>3, <4>2, <4>3
    <3>6. \A j, k \in DOMAIN others : At(j) = At(k) => j = k
      BY <3>1, <3>4
    <3> HIDE DEF At
    <3> QED BY <3>1, <3>3, <3>5, <3>6 DEF ListedOnce
  <2>2. CASE ~\E i \in DOMAIN q : q[i] = s
    BY <2>2 DEF Unlisted
  <2> QED BY <2>1, <2>2
<1>2. markHandled(q, s) = SubSeq(ids, from, Len(ids))
  BY DEF markHandled
<1> HIDE DEF others
<1>3. /\ ids \in Seq(1..m) /\ Len(ids) = Len(others) + 1 /\ Len(others) \in Nat
      /\ \A i \in 1..Len(others) : ids[i] = others[i] /\ others[i] # s
      /\ ids[Len(ids)] = s /\ DOMAIN others = 1..Len(others) /\ DOMAIN ids = 1..Len(ids)
  BY <1>1
<1>4. ListedOnce(ids)
  BY <1>1, <1>3 DEF ListedOnce
<1>5. from \in 1..Len(ids)
  BY <1>3, TabAssumption
<1> HIDE DEF ids, from
<1> DEFINE w == SubSeq(ids, from, Len(ids))
<1>6. /\ w \in Seq(1..m) /\ Len(w) = Len(ids) - from + 1
      /\ \A j \in 1..(Len(ids) - from + 1) : w[j] = ids[from + j - 1]
  BY <1>3, <1>5, Window
<1>7. DOMAIN w = 1..(Len(ids) - from + 1) /\ Len(ids) \in Nat
  BY <1>3, <1>6
<1> HIDE DEF w
<1>8. \A j \in DOMAIN w : from + j - 1 \in DOMAIN ids /\ w[j] = ids[from + j - 1]
  <2>1. TAKE j \in DOMAIN w
  <2>2. j \in 1..(Len(ids) - from + 1) /\ j \in Int /\ from \in Int
    BY <1>5, <1>7
  <2>3. from + j - 1 \in 1..Len(ids)
    BY <1>5, <1>7, <2>2
  <2> QED BY <1>3, <1>6, <2>2, <2>3
<1>9. ListedOnce(w)
  BY <1>4, <1>5, <1>7, <1>8 DEF ListedOnce
<1> QED BY <1>2, <1>6, <1>9 DEF w

-----------------------------------------------------------------------------
(* Sessions: what is put off, and how a session ends *)

LEMMA NoneIsKnown == \A m \in Nat : None \in 0..m /\ \A s \in 1..m : s \in 0..m /\ s # None
  BY DEF None

LEMMA TasksAreTyped ==
  ASSUME NEW m \in Nat, NEW k \in TaskKinds, NEW s \in 0..m, NEW rev \in Nat, NEW n \in Nat,
         NEW done \in BOOLEAN, NEW orphan \in BOOLEAN
  PROVE  /\ Task(k, s, rev, n, done, orphan) \in Tasks(m)
         /\ Task(k, s, rev, n, done, orphan).k = k
         /\ Task(k, s, rev, n, done, orphan).s = s
         /\ Task(k, s, rev, n, done, orphan).rev = rev
  BY DEF Task, Tasks

LEMMA TimersAreTyped ==
  ASSUME NEW m \in Nat, NEW k \in TaskKinds, NEW s \in 0..m, NEW rev \in Nat
  PROVE  /\ Timer(k, s, rev) \in Tasks(m)
         /\ Timer(k, s, rev).k = k /\ Timer(k, s, rev).s = s /\ Timer(k, s, rev).rev = rev
<1> DEFINE z == 0
           no == FALSE
           t == Task(k, s, rev, z, no, no)
<1>1. z \in Nat /\ no \in BOOLEAN
  OBVIOUS
<1> HIDE DEF z, no
<1>2. t \in Tasks(m) /\ t.k = k /\ t.s = s /\ t.rev = rev
  BY <1>1, TasksAreTyped
<1>3. Timer(k, s, rev) = t
  BY DEF Timer, z, no
<1> QED BY <1>2, <1>3

LEMMA LaterIsSound ==
  ASSUME NEW m \in Nat, NEW b, Sound(b, m), NEW t \in Tasks(m), OfSession(t),
         t.k \in Recoveries => t.rev <= b.rev
  PROVE  /\ Sound(Later(b, t), m) /\ Later(b, t).tasks = b.tasks \cup {t}
         /\ Later(b, t).cur = b.cur /\ Later(b, t).st = b.st /\ Later(b, t).rev = b.rev
         /\ Later(b, t).dom = b.dom /\ Later(b, t).handled = b.handled
<1>1. b \in Tabs(m)
  BY DEF Sound
<1>2. /\ Later(b, t) \in Tabs(m) /\ Later(b, t).tasks = b.tasks \cup {t}
      /\ Later(b, t).cur = b.cur /\ Later(b, t).st = b.st /\ Later(b, t).rev = b.rev
      /\ Later(b, t).dom = b.dom /\ Later(b, t).handled = b.handled
  BY <1>1 DEF Later, Tabs
<1> QED BY <1>2 DEF Sound

LEMMA LaterIsGood ==
  ASSUME NEW m \in Nat, NEW b, Good(b, m), NEW t \in Tasks(m), OfSession(t),
         t.k \in Recoveries => t.rev <= b.rev /\ (b.st = "CONFIGURING" => t.rev < b.rev)
  PROVE  Good(Later(b, t), m)
<1>1. /\ Sound(Later(b, t), m) /\ Later(b, t).tasks = b.tasks \cup {t}
      /\ Later(b, t).cur = b.cur /\ Later(b, t).st = b.st /\ Later(b, t).rev = b.rev
      /\ Later(b, t).handled = b.handled
  BY LaterIsSound DEF Good
<1> QED BY <1>1 DEF Good, Settled, CurIsOpen, isHandled

LEMMA ClearIsGood ==
  ASSUME NEW m \in Nat, NEW b, Good(b, m)
  PROVE  Good(clearSession(b), m)
<1>1. b \in Tabs(m)
  BY DEF Good, Sound
<1>2. NotSaved \in Records(m)
  BY NoneIsKnown DEF NotSaved, Records, States
<1>3. clearSession(b) \in Tabs(m) /\ clearSession(b).st = b.st /\ Alike(b, clearSession(b))
  BY <1>1, <1>2 DEF clearSession, Tabs, Alike
<1> QED BY <1>3, AlikeIsGood

LEMMA MarkedIsSound ==
  ASSUME NEW m \in Nat, NEW b, Sound(b, m)
  PROVE  /\ Sound(markSessionHandled(b), m) /\ markSessionHandled(b).cur = b.cur
         /\ markSessionHandled(b).rev = b.rev /\ markSessionHandled(b).st = b.st
         /\ markSessionHandled(b).tasks = b.tasks /\ markSessionHandled(b).dom = b.dom
<1>1. b \in Tabs(m) /\ b.cur \in 0..m /\ b.handled \in Seq(1..m) /\ ListedOnce(b.handled)
  BY DEF Sound, Tabs
<1>2. CASE b.cur = None
  BY <1>2 DEF markSessionHandled
<1>3. CASE b.cur # None
  <2> DEFINE q == markHandled(b.handled, b.cur)
  <2>1. b.cur \in 1..m
    BY <1>1, <1>3 DEF None
  <2>2. q \in Seq(1..m) /\ ListedOnce(q)
    BY <1>1, <2>1, MarkedIsListedOnce
  <2>3. markSessionHandled(b) = [b EXCEPT !.handled = q]
    BY <1>3 DEF markSessionHandled
  <2> HIDE DEF q
  <2>4. [b EXCEPT !.handled = q] \in Tabs(m) /\ [b EXCEPT !.handled = q].handled = q
    BY <1>1, <2>2 DEF Tabs
  <2>5. /\ [b EXCEPT !.handled = q].cur = b.cur /\ [b EXCEPT !.handled = q].rev = b.rev
        /\ [b EXCEPT !.handled = q].st = b.st /\ [b EXCEPT !.handled = q].tasks = b.tasks
        /\ [b EXCEPT !.handled = q].dom = b.dom
    BY <1>1 DEF Tabs
  <2> QED BY <2>2, <2>3, <2>4, <2>5 DEF Sound
<1> QED BY <1>2, <1>3

\* Both endings leave the tab without a session, and picking.
LEMMA ReleasedIsGood ==
  ASSUME NEW m \in Nat, NEW b, Sound(b, m)
  PROVE  /\ Good(Release(b), m) /\ Release(b).cur = None /\ Release(b).st = "PICKING"
         /\ Release(b).rev = b.rev /\ Release(b).tasks = b.tasks /\ Release(b).dom = b.dom
<1> DEFINE c == [b EXCEPT !.saved = NotSaved, !.observed = None]
<1>1. b \in Tabs(m) /\ None \in 0..m /\ "PICKING" \in States
  BY NoneIsKnown DEF Sound, States
<1>2. NotSaved \in Records(m)
  BY <1>1 DEF NotSaved, Records, States
<1>3. c \in Tabs(m) /\ c.rev = b.rev /\ c.tasks = b.tasks /\ c.dom = b.dom /\ c.handled = b.handled
  BY <1>1, <1>2 DEF Tabs
<1>4. Release(b) = [c EXCEPT !.file = FALSE, !.cur = None, !.st = "PICKING"]
  BY <1>1 DEF Release, clearSession, Tabs
<1> HIDE DEF c
<1>5. /\ Release(b) \in Tabs(m) /\ Release(b).cur = None /\ Release(b).st = "PICKING"
      /\ Release(b).rev = b.rev /\ Release(b).tasks = b.tasks /\ Release(b).dom = b.dom
      /\ Release(b).handled = b.handled
  BY <1>1, <1>3, <1>4 DEF Tabs
<1> QED BY <1>5 DEF Good, Sound, Settled, CurIsOpen

LEMMA CleanedIsGood ==
  ASSUME NEW m \in Nat, NEW b, Sound(b, m)
  PROVE  Good(cleanup(b), m)
<1> DEFINE c == [Release(b) EXCEPT !.anchor = None]
           t == Timer("discardClean", b.cur, b.rev)
<1>1. /\ Good(Release(b), m) /\ Release(b) \in Tabs(m) /\ Release(b).st = "PICKING"
      /\ Release(b).rev = b.rev /\ None \in 0..m
  BY ReleasedIsGood, NoneIsKnown DEF Good, Sound
<1>2. c \in Tabs(m) /\ c.st = "PICKING" /\ c.rev = b.rev /\ Alike(Release(b), c)
  BY <1>1 DEF Tabs, Alike
<1>3. Good(c, m)
  BY <1>1, <1>2, AlikeIsGood
<1>4. cleanup(b) = IF b.cur = None THEN c ELSE Later(c, t)
  BY DEF cleanup
<1>5. b.cur \in 0..m /\ b.rev \in Nat
  BY DEF Sound, Tabs
<1>6. t \in Tasks(m) /\ t.s = b.cur /\ t.rev = b.rev
  BY <1>5, TimersAreTyped DEF TaskKinds, Recoveries
<1> HIDE DEF c, t
<1>7. b.cur # None => Good(Later(c, t), m)
  BY <1>2, <1>3, <1>5, <1>6, LaterIsGood DEF OfSession
<1> QED BY <1>3, <1>4, <1>7

LEMMA EmptyCyclingIsGood ==
  ASSUME NEW m \in Nat, NEW b, Sound(b, m)
  PROVE  Good(recoverEmptyCycling(b), m)
  BY CleanedIsGood, TellIsGood DEF recoverEmptyCycling

LEMMA AbandonedIsGood ==
  ASSUME NEW m \in Nat, NEW b, Sound(b, m)
  PROVE  Good(abandonForeignSession(b), m) /\ Good(cleanup(markSessionHandled(b)), m)
  BY MarkedIsSound, CleanedIsGood, TellIsGood DEF abandonForeignSession

\* A reload for a handled wrapper is only asked for in the revision it is of.
LEMMA ScheduledIsSound ==
  ASSUME NEW m \in Nat, NEW b, Sound(b, m), NEW s \in 1..m, NEW rev \in Nat
  PROVE  /\ Sound(scheduleReload(b, s, rev), m)
         /\ scheduleReload(b, s, rev).cur = b.cur /\ scheduleReload(b, s, rev).st = b.st
         /\ scheduleReload(b, s, rev).rev = b.rev /\ scheduleReload(b, s, rev).dom = b.dom
         /\ scheduleReload(b, s, rev).handled = b.handled
         /\ \A t \in scheduleReload(b, s, rev).tasks : t \in b.tasks \/ b.rev = rev
<1> DEFINE c == [b EXCEPT !.tries[s] = @ + 1]
           t == Timer("handledReload", s, rev)
<1>1. b \in Tabs(m) /\ b.tries \in [Sessions -> Int]
  BY DEF Sound, Tabs
<1>2. c = [b EXCEPT !.tries = [b.tries EXCEPT ![s] = b.tries[s] + 1]]
  BY <1>1 DEF Tabs
<1>3. [b.tries EXCEPT ![s] = b.tries[s] + 1] \in [Sessions -> Int]
  <2>1. CASE s \in Sessions
    BY <1>1, <2>1
  <2>2. CASE s \notin Sessions
    BY <1>1, <2>2
  <2> QED BY <2>1, <2>2
<1>4. /\ c \in Tabs(m) /\ c.cur = b.cur /\ c.st = b.st /\ c.rev = b.rev /\ c.dom = b.dom
      /\ c.handled = b.handled /\ c.tasks = b.tasks
  BY <1>1, <1>2, <1>3 DEF Tabs
<1>5. Sound(c, m)
  BY <1>4 DEF Sound
<1>6. t \in Tasks(m) /\ t.s = s /\ t.rev = rev /\ s # None
  BY TimersAreTyped, NoneIsKnown DEF TaskKinds, Recoveries
<1>7. scheduleReload(b, s, rev) = IF MayReload(b, s, rev) THEN Later(c, t) ELSE b
  BY DEF scheduleReload
<1>8. MayReload(b, s, rev) => b.rev = rev
  BY DEF MayReload, Superseded
<1> HIDE DEF c, t
<1>9. CASE MayReload(b, s, rev)
  <2>1. t.rev <= c.rev /\ OfSession(t)
    BY <1>1, <1>4, <1>6, <1>8, <1>9 DEF OfSession
  <2>2. /\ Sound(Later(c, t), m) /\ Later(c, t).tasks = c.tasks \cup {t}
        /\ Later(c, t).cur = c.cur /\ Later(c, t).st = c.st /\ Later(c, t).rev = c.rev
        /\ Later(c, t).dom = c.dom /\ Later(c, t).handled = c.handled
    BY <1>5, <1>6, <2>1, LaterIsSound
  <2> QED BY <1>4, <1>7, <1>8, <1>9, <2>2
<1>10. CASE ~MayReload(b, s, rev)
  BY <1>7, <1>10
<1> QED BY <1>9, <1>10

LEMMA WatchedIsSound ==
  ASSUME NEW m \in Nat, NEW b, Sound(b, m), NEW s \in 1..m
  PROVE  Sound(watchForHandled(b, s), m) /\ watchForHandled(b, s).rev = b.rev
<1> DEFINE c == [b EXCEPT !.tasks = {t \in b.tasks : ~(t.k = "watch" /\ t.s = s)}]
           t == Timer("watch", s, b.rev)
           w == Later(c, t)
<1>1. b \in Tabs(m) /\ b.rev \in Nat
  BY DEF Sound, Tabs
<1>2. /\ c \in Tabs(m) /\ c.tasks \subseteq b.tasks /\ c.rev = b.rev /\ c.dom = b.dom
      /\ c.handled = b.handled
  BY <1>1 DEF Tabs
<1>3. Sound(c, m)
  BY <1>2 DEF Sound
<1>4. t \in Tasks(m) /\ t.s = s /\ t.rev = b.rev /\ s # None
  BY <1>1, TimersAreTyped, NoneIsKnown DEF TaskKinds, Recoveries
<1>5. watchForHandled(b, s) = IF b.dom[s] = Absent THEN w ELSE scheduleReload(w, s, b.rev)
  BY DEF watchForHandled
<1> HIDE DEF c, t
<1>6. Sound(w, m) /\ w.rev = b.rev
  BY <1>1, <1>2, <1>3, <1>4, LaterIsSound DEF OfSession
<1> HIDE DEF w
<1> QED BY <1>1, <1>5, <1>6, ScheduledIsSound

LEMMA FinishedIsGood ==
  ASSUME NEW m \in Nat, NEW b, Sound(b, m), NEW s \in 1..m
  PROVE  Good(finishAccept(b, s), m)
<1> DEFINE c == watchForHandled(markSessionHandled(b), s)
           t == Timer("acceptClean", s, b.rev)
           d == Later(c, t)
<1>1. Sound(c, m) /\ c.rev = b.rev /\ b.rev \in Nat
  <2>1. b.rev \in Nat
    BY DEF Sound, Tabs
  <2> QED BY <2>1, MarkedIsSound, WatchedIsSound
<1>2. t \in Tasks(m) /\ t.s = s /\ t.rev = b.rev /\ s # None
  BY <1>1, TimersAreTyped, NoneIsKnown DEF TaskKinds, Recoveries
<1>3. finishAccept(b, s) = [Release(d) EXCEPT !.pend = None]
  BY DEF finishAccept, cleanupAcceptedSession
<1> HIDE DEF c, t
<1>4. Sound(d, m)
  BY <1>1, <1>2, LaterIsSound DEF OfSession
<1> HIDE DEF d
<1>5. Good(Release(d), m) /\ Release(d) \in Tabs(m) /\ None \in 0..m
  BY <1>4, ReleasedIsGood, NoneIsKnown DEF Good, Sound
<1>6. /\ finishAccept(b, s) \in Tabs(m) /\ finishAccept(b, s).st = Release(d).st
      /\ Alike(Release(d), finishAccept(b, s))
  BY <1>3, <1>5 DEF Tabs, Alike
<1> QED BY <1>5, <1>6, AlikeIsGood

-----------------------------------------------------------------------------
(* Sessions: variants from the source files *)

LEMMA CompletedIsGood ==
  ASSUME NEW m \in 0..NSessions, NEW b, Good(b, m), NEW s \in 1..m, NEW t \in Tasks(m)
  PROVE  Good(completeInjection(b, s, t), m)
<1> DEFINE c == [b EXCEPT !.anchor = None, !.arrived = b.dom[s]]
           u == Task("retry", s, 0, t.n + 1, TRUE, t.orphan)
<1>1. m \in Nat /\ s \in Sessions /\ None \in 0..m /\ s # None /\ s \in 0..m
  BY TabAssumption DEF Sessions, None
<1>2. b \in Tabs(m) /\ b.dom[s] \in Int
  BY <1>1 DEF Good, Sound, Tabs
<1>3. c \in Tabs(m) /\ c.st = b.st /\ Alike(b, c)
  BY <1>1, <1>2 DEF Tabs, Alike
<1>4. /\ u \in Tasks(m) /\ u.k = "retry" /\ u.s = s
  <2> DEFINE z == 0
             n == t.n + 1
             yes == TRUE
             o == t.orphan
  <2>1. n \in Nat /\ o \in BOOLEAN /\ yes \in BOOLEAN /\ z \in Nat
    BY DEF Tasks
  <2>2. "retry" \in TaskKinds
    BY DEF TaskKinds
  <2> HIDE DEF z, n, yes, o
  <2>3. Task("retry", s, z, n, yes, o) \in Tasks(m)
        /\ Task("retry", s, z, n, yes, o).k = "retry" /\ Task("retry", s, z, n, yes, o).s = s
    BY <1>1, <2>1, <2>2, TasksAreTyped
  <2> QED BY <2>3 DEF z, n, yes, o
<1>5. completeInjection(b, s, t) =
        IF b.dom[s] > 0 THEN saveSession(setLiveState(c, "CYCLING"))
        ELSE IF b.st = "GENERATING" /\ ~t.done THEN c
        ELSE IF b.st = "GENERATING" /\ t.n < Retries THEN Later(c, u)
        ELSE recoverEmptyCycling(c)
  BY DEF completeInjection
<1> HIDE DEF c, u
<1>6. Good(c, m) /\ Sound(c, m)
  BY <1>1, <1>3, AlikeIsGood DEF Good
<1>7. Good(saveSession(setLiveState(c, "CYCLING")), m)
  <2>1. "CYCLING" \in States \ {"CONFIGURING"}
    BY DEF States
  <2>2. Good(setLiveState(c, "CYCLING"), m)
    BY <1>1, <1>6, <2>1, StatesAreGood
  <2> QED BY <1>1, <2>2, SaveIsGood
<1>8. Good(Later(c, u), m)
  BY <1>1, <1>4, <1>6, LaterIsGood DEF OfSession, Recoveries
<1>9. Good(recoverEmptyCycling(c), m)
  BY <1>1, <1>6, EmptyCyclingIsGood
<1> QED BY <1>5, <1>6, <1>7, <1>8, <1>9

LEMMA InjectedIsGood ==
  ASSUME NEW m \in 0..NSessions, NEW b, Good(b, m), NEW s \in 1..m, NEW n \in Nat,
         NEW done \in BOOLEAN, NEW orphan \in BOOLEAN
  PROVE  Good(inject(b, s, n, done, orphan), m)
<1> DEFINE c == [b EXCEPT !.file = TRUE]
           t == Task("read", s, 0, n, done, orphan)
           r == [t EXCEPT !.k = "retry", !.n = n + 1]
           p == [t EXCEPT !.k = "probe"]
<1>1. m \in Nat /\ s # None /\ s \in 0..m
  BY TabAssumption DEF None
<1>2. b \in Tabs(m)
  BY DEF Good, Sound
<1>3. c \in Tabs(m) /\ c.st = b.st /\ Alike(b, c)
  BY <1>2 DEF Tabs, Alike
<1>4. t \in Tasks(m) /\ t.k = "read" /\ t.s = s
  <2>1. 0 \in Nat /\ "read" \in TaskKinds
    BY DEF TaskKinds
  <2> QED BY <1>1, <2>1, TasksAreTyped
<1>5. inject(b, s, n, done, orphan) =
        IF ~framework THEN Later(c, t)
        ELSE IF b.dom[s] > 0 THEN completeInjection(c, s, t)
        ELSE IF done /\ s = b.cur
        THEN IF n < Retries THEN Later(c, r)
             ELSE IF b.dom[s] = Absent THEN Tell(c) ELSE recoverEmptyCycling(c)
        ELSE IF orphan /\ b.dom[s] = Absent /\ s = b.cur THEN Later(c, p)
        ELSE c
  BY DEF inject
<1> HIDE DEF c, t
<1>6. /\ r \in Tasks(m) /\ r.k = "retry" /\ r.s = s
      /\ p \in Tasks(m) /\ p.k = "probe" /\ p.s = s
  <2> DEFINE k == n + 1
  <2>1. k \in Nat /\ "retry" \in TaskKinds /\ "probe" \in TaskKinds
    BY DEF TaskKinds
  <2> HIDE DEF k
  <2>2. [t EXCEPT !.k = "retry", !.n = k] \in Tasks(m)
    BY <1>4, <2>1 DEF Tasks
  <2>3. p \in Tasks(m)
    BY <1>4, <2>1 DEF Tasks
  <2>4. r.k = "retry" /\ r.s = s /\ p.k = "probe" /\ p.s = s
    BY <1>4 DEF Tasks
  <2> QED BY <2>2, <2>3, <2>4 DEF k
<1> HIDE DEF r, p
<1>7. Good(c, m) /\ Sound(c, m)
  BY <1>1, <1>3, AlikeIsGood DEF Good
<1>8. Good(Later(c, t), m) /\ Good(Later(c, r), m) /\ Good(Later(c, p), m)
  BY <1>1, <1>4, <1>6, <1>7, LaterIsGood DEF OfSession, Recoveries
<1>9. Good(completeInjection(c, s, t), m)
  BY <1>4, <1>7, CompletedIsGood
<1>10. Good(Tell(c), m) /\ Good(recoverEmptyCycling(c), m)
  BY <1>1, <1>7, TellIsGood, EmptyCyclingIsGood
<1> QED BY <1>5, <1>7, <1>8, <1>9, <1>10

LEMMA CheckpointIsGood ==
  ASSUME NEW m \in Nat, NEW b, Good(b, m)
  PROVE  Good(queueCheckpoint(b), m)
<1> DEFINE t == Timer("checkpoint", None, 0)
<1>1. t \in Tasks(m) /\ t.k = "checkpoint"
  <2>1. 0 \in Nat /\ "checkpoint" \in TaskKinds
    BY DEF TaskKinds, Sourceless
  <2> QED BY <2>1, TimersAreTyped, NoneIsKnown
<1> HIDE DEF t
<1>2. Good(Later(b, t), m)
  BY <1>1, LaterIsGood DEF OfSession, Sourceless, Recoveries
<1> QED BY <1>2 DEF queueCheckpoint, t

-----------------------------------------------------------------------------
(* Sessions: resuming and the page *)

SrvPhases == {"none", "generating", "ready", "failed", "accepted", "completed", "discarded"}
Lists(m)  == {l \in [Sessions -> SrvPhases] : \A s \in Sessions : s > m => l[s] = "none"}
Sources(m) == {f \in [Sessions -> Int] : \A s \in Sessions : s > m => f[s] = Absent}

LEMMA OpenIsKnown ==
  ASSUME NEW m \in 0..NSessions, NEW l \in Lists(m)
  PROVE  Open(l) \subseteq 1..m
<1> SUFFICES ASSUME NEW s \in Open(l) PROVE s \in 1..m
  OBVIOUS
<1>1. s \in Sessions /\ l[s] # "none" /\ s \in Int /\ m \in Int
  BY TabAssumption DEF Open, Sessions
<1> QED BY <1>1 DEF Lists, Sessions

LEMMA ListingsAreKnown ==
  ASSUME NEW m \in 0..NSessions, srv \in Lists(m)
  PROVE  Unheard \in Lists(m) /\ activeSessions \in Lists(m)
<1>1. Unheard \in Lists(m)
  BY DEF Unheard, Lists, SrvPhases
<1>2. activeSessions \in [Sessions -> SrvPhases]
  BY DEF activeSessions, Lists, SrvPhases
<1>3. \A s \in Sessions : s > m => activeSessions[s] = "none"
  BY DEF activeSessions, Lists
<1> QED BY <1>1, <1>2, <1>3 DEF Lists

\* The record that is restored is of a session that is known, and not handled.
LEMMA RecordIsKnown ==
  ASSUME NEW m \in 0..NSessions, NEW b, Good(b, m), NEW l \in Lists(m), src \in Sources(m)
  PROVE  Record(b, l) \in Records(m)
<1> DEFINE A == Adoptable(b, l)
           s == CHOOSE s \in A : \A r \in A : s <= r
<1>1. b.saved \in Records(m)
  BY DEF Good, Sound, Tabs
<1>2. A \in SUBSET Nat /\ A \subseteq 1..m /\ m \in Nat
  BY OpenIsKnown, TabAssumption DEF Adoptable
<1>3. Record(b, l) = IF b.saved.id # None \/ A = {} THEN b.saved ELSE asSaved(s)
  BY DEF Record
<1>4. A # {} => s \in A
  <2> HIDE DEF A
  <2> QED BY <1>2, LeastNumber
<1> HIDE DEF A, s
<1>5. \A z \in 1..m : asSaved(z) \in Records(m)
  <2>1. TAKE z \in 1..m
  <2>2. z \in Sessions /\ z \in 0..m
    BY <1>2, TabAssumption DEF Sessions
  <2>3. Published(z) \in Int
    BY <2>2 DEF Published, Sources
  <2> QED BY <2>2, <2>3 DEF asSaved, Records, States
<1> QED BY <1>1, <1>2, <1>3, <1>4, <1>5

LEMMA RestoredIsGood ==
  ASSUME NEW m \in 0..NSessions, NEW b, Good(b, m), NEW l \in Lists(m), src \in Sources(m),
         Restorable(b, l)
  PROVE  Good(restoreWithoutWrapper(b, l), m)
<1> DEFINE r == Record(b, l)
           here == r.id \in Open(l)
           f == b.file \/ r.file \/ (here /\ HasFile(r.id))
           a == IF r.arrived = 0 /\ here THEN Published(r.id) ELSE r.arrived
           e == [b EXCEPT !.cur = r.id, !.file = f, !.arrived = a]
           d == [e EXCEPT !.st = "GENERATING", !.observed = r.id]
           c == queueCheckpoint(saveSession(d))
<1>1. m \in Nat /\ r \in Records(m) /\ r.id # None /\ ~isHandled(b, r.id)
  BY RecordIsKnown, TabAssumption DEF Restorable
<1>2. b \in Tabs(m) /\ r.id \in 0..m /\ r.id \in 1..m
  <2>1. r.id \in 0..m
    BY <1>1 DEF Records
  <2> QED BY <1>1, <2>1 DEF Good, Sound, None
<1>3. f \in BOOLEAN /\ a \in Int /\ (r.st = "CYCLING") \in BOOLEAN
  <2>1. Published(r.id) \in Int
    BY <1>2, TabAssumption DEF Published, Sources, Sessions
  <2> QED BY <1>1, <1>2, <2>1 DEF Records, Tabs
<1>4. restoreWithoutWrapper(b, l) =
        IF c.file THEN inject(c, r.id, 0, FALSE, r.st = "CYCLING") ELSE c
  <2>1. [b EXCEPT !.cur = r.id, !.file = f, !.arrived = a, !.st = "GENERATING", !.observed = r.id] = d
    BY <1>2 DEF Tabs
  <2> QED BY <2>1 DEF restoreWithoutWrapper
<1> HIDE DEF f, a, here, r
<1>5. /\ e \in Tabs(m) /\ e.cur = r.id /\ e.rev = b.rev /\ e.tasks = b.tasks /\ e.dom = b.dom
      /\ e.handled = b.handled
  BY <1>2, <1>3 DEF Tabs
<1> HIDE DEF e
<1>6. /\ d \in Tabs(m) /\ d.cur = r.id /\ d.rev = b.rev /\ d.tasks = b.tasks /\ d.dom = b.dom
      /\ d.handled = b.handled /\ d.st = "GENERATING"
  <2>1. "GENERATING" \in States
    BY DEF States
  <2> QED BY <1>2, <1>5, <2>1 DEF Tabs
<1> HIDE DEF d
<1>7. Good(d, m)
  BY <1>1, <1>6 DEF Good, Sound, Settled, CurIsOpen, isHandled
<1>8. Good(c, m)
  BY <1>1, <1>7, SaveIsGood, CheckpointIsGood
<1> HIDE DEF c
<1>9. Good(inject(c, r.id, 0, FALSE, r.st = "CYCLING"), m)
  <2>1. 0 \in Nat /\ FALSE \in BOOLEAN
    OBVIOUS
  <2> QED BY <1>2, <1>3, <1>8, <2>1, InjectedIsGood
<1> QED BY <1>4, <1>8, <1>9

LEMMA AnyWrapperIsKnown ==
  ASSUME NEW m \in 0..NSessions, NEW b, Good(b, m), Wrappers(b) # {}
  PROVE  AnyWrapper(b) \in 1..m
<1> DEFINE P == {s \in Wrappers(b) : b.dom[s] > 0}
           A == IF P = {} THEN Wrappers(b) ELSE P
<1>1. Wrappers(b) \subseteq 1..m
  <2>1. SUFFICES ASSUME NEW s \in Wrappers(b) PROVE s \in 1..m
    OBVIOUS
  <2>2. s \in Sessions /\ b.dom[s] # Absent /\ s \in Int /\ m \in Int
    BY TabAssumption DEF Wrappers, Sessions
  <2> QED BY <2>2 DEF Good, Sound, Sessions
<1>2. A \in SUBSET Nat /\ A # {} /\ A \subseteq 1..m
  BY <1>1, TabAssumption
<1>3. AnyWrapper(b) = CHOOSE s \in A : \A r \in A : s <= r
  BY DEF AnyWrapper
<1> HIDE DEF A
<1> QED BY <1>2, <1>3, LeastNumber

LEMMA ResumedWrapperIsGood ==
  ASSUME NEW m \in 0..NSessions, NEW b, Good(b, m), NEW w \in 1..m, ~isHandled(b, w)
  PROVE  Good(resumeWrapper(b, w), m)
<1> DEFINE f == b.file \/ (b.saved.id = w /\ b.saved.file)
           st == IF b.dom[w] > 0 THEN "CYCLING" ELSE "GENERATING"
           e == [b EXCEPT !.cur = w, !.arrived = b.dom[w], !.observed = w]
           d == [e EXCEPT !.file = f, !.st = st]
<1>1. m \in Nat /\ w \in Sessions /\ w \in 0..m
  BY TabAssumption DEF Sessions
<1>2. b \in Tabs(m) /\ b.dom[w] \in Int /\ f \in BOOLEAN /\ st \in States /\ st # "CONFIGURING"
  <2>1. b \in Tabs(m)
    BY DEF Good, Sound
  <2>2. b.dom[w] \in Int
    BY <1>1, <2>1 DEF Tabs
  <2>3. f \in BOOLEAN
    BY <2>1 DEF Tabs, Records
  <2> QED BY <2>1, <2>2, <2>3 DEF States
<1>3. resumeWrapper(b, w) = queueCheckpoint(saveSession(d))
  <2>1. [b EXCEPT !.cur = w, !.arrived = b.dom[w], !.observed = w, !.file = f, !.st = st] = d
    BY <1>2 DEF Tabs
  <2> QED BY <2>1 DEF resumeWrapper
<1> HIDE DEF f, st
<1>4. /\ e \in Tabs(m) /\ e.cur = w /\ e.rev = b.rev /\ e.tasks = b.tasks /\ e.dom = b.dom
      /\ e.handled = b.handled
  BY <1>1, <1>2 DEF Tabs
<1> HIDE DEF e
<1>5. /\ d \in Tabs(m) /\ d.cur = w /\ d.rev = b.rev /\ d.tasks = b.tasks /\ d.dom = b.dom
      /\ d.handled = b.handled /\ d.st = st
  BY <1>2, <1>4 DEF Tabs
<1> HIDE DEF d
<1>6. Good(d, m)
  BY <1>2, <1>5 DEF Good, Sound, Settled, CurIsOpen, isHandled
<1> QED BY <1>1, <1>3, <1>6, SaveIsGood, CheckpointIsGood

\* In the first revision nothing is being configured.
LEMMA ScheduledIsGood ==
  ASSUME NEW m \in Nat, NEW b, Good(b, m), NEW s \in 1..m
  PROVE  Good(scheduleReload(b, s, 0), m)
<1> DEFINE z == 0
           c == scheduleReload(b, s, z)
<1>1. z \in Nat
  OBVIOUS
<1>2. b.st = "CONFIGURING" => b.rev # z
  BY DEF Good, Settled
<1> HIDE DEF z
<1>s. Sound(b, m)
  BY DEF Good
<1>t. c = scheduleReload(b, s, z)
  OBVIOUS
<1> HIDE DEF c
<1>3. /\ Sound(c, m) /\ c.cur = b.cur /\ c.st = b.st /\ c.rev = b.rev /\ c.handled = b.handled
      /\ \A t \in c.tasks : t \in b.tasks \/ b.rev = z
  BY ONLY <1>1, <1>s, <1>t, ScheduledIsSound
<1>4. Good(c, m)
  BY <1>2, <1>3 DEF Good, Settled, CurIsOpen, isHandled
<1> QED BY <1>4 DEF c, z

LEMMA ResumedIsGood ==
  ASSUME NEW m \in 0..NSessions, NEW b, Good(b, m), srv \in Lists(m), src \in Sources(m)
  PROVE  Good(resumeSession(b, 0), m)
<1> DEFINE w == AnyWrapper(b)
<1>1. m \in Nat /\ Unheard \in Lists(m)
  BY ListingsAreKnown, TabAssumption
<1>2. CASE Wrappers(b) = {}
  <2>1. resumeSession(b, 0) = IF Restorable(b, Unheard) THEN restoreWithoutWrapper(b, Unheard)
                              ELSE clearSession(b)
    BY <1>2 DEF resumeSession
  <2> QED BY <1>1, <2>1, RestoredIsGood, ClearIsGood
<1>3. CASE Wrappers(b) # {}
  <2>1. w \in 1..m
    BY <1>3, AnyWrapperIsKnown
  <2>2. \/ ~isHandled(b, w) /\ resumeSession(b, 0) = resumeWrapper(b, w)
        \/ resumeSession(b, 0) = b
        \/ Restorable(b, Unheard) /\ resumeSession(b, 0) = restoreWithoutWrapper(b, Unheard)
        \/ resumeSession(b, 0) = scheduleReload(b, w, 0)
    BY <1>3 DEF resumeSession
  <2> HIDE DEF w
  <2> QED BY <1>1, <2>1, <2>2, ResumedWrapperIsGood, RestoredIsGood, ScheduledIsGood
<1> QED BY <1>2, <1>3

LEMMA BootedIsGood ==
  ASSUME NEW m \in 0..NSessions, NEW b, Good(b, m), srv \in Lists(m), src \in Sources(m)
  PROVE  Good(boot(b), m)
<1> DEFINE c == resumeSession(b, 0)
           f == c.cur = None \/ Wrappers(c) = {}
           d == [c EXCEPT !.scout = f]
<1>1. Good(c, m) /\ m \in Nat
  BY ResumedIsGood, TabAssumption
<1>2. f \in BOOLEAN
  OBVIOUS
<1>3. boot(b) = IF d.st = "IDLE" THEN setLiveState(d, "PICKING") ELSE d
  BY DEF boot
<1> HIDE DEF c, f
<1>4. d \in Tabs(m) /\ d.st = c.st /\ Alike(c, d)
  BY <1>1, <1>2 DEF Good, Sound, Tabs, Alike
<1>5. Good(d, m) /\ "PICKING" \in States \ {"CONFIGURING"}
  BY <1>1, <1>4, AlikeIsGood DEF States
<1> HIDE DEF d
<1> QED BY <1>1, <1>3, <1>5, StatesAreGood

LEMMA ScoutedIsGood ==
  ASSUME NEW m \in 0..NSessions, NEW b, Good(b, m), srv \in Lists(m), src \in Sources(m)
  PROVE  Good(scoutPage(b), m)
<1> DEFINE c == [b EXCEPT !.scout = FALSE]
<1>1. c \in Tabs(m) /\ c.st = b.st /\ Alike(b, c)
  BY DEF Good, Sound, Tabs, Alike
<1> HIDE DEF c
<1>2. m \in Nat /\ Good(c, m)
  <2>1. m \in Nat
    BY TabAssumption
  <2> QED BY <1>1, <2>1, AlikeIsGood
<1> DEFINE r == resumeSession(c, 0)
           w == r.late \/ r.cur # b.cur
<1>3. Good(r, m) /\ w \in BOOLEAN
  <2>1. Good(r, m)
    BY <1>2, ResumedIsGood
  <2>2. r \in Tabs(m)
    BY <2>1 DEF Good, Sound
  <2> HIDE DEF r
  <2> QED BY <2>1, <2>2 DEF Tabs
<1>4. scoutPage(b) = IF b.scout /\ Wrappers(b) # {} THEN [r EXCEPT !.late = w] ELSE b
  BY DEF scoutPage, c
<1> HIDE DEF r, w
<1>5. Good([r EXCEPT !.late = w], m)
  BY <1>2, <1>3, LateIsGood
<1> QED BY <1>4, <1>5

LEMMA ObservedIsGood ==
  ASSUME NEW m \in 0..NSessions, NEW b, Good(b, m)
  PROVE  Good(observeVariants(b), m)
<1> DEFINE s == b.observed
           c == [b EXCEPT !.arrived = b.dom[s], !.st = "CYCLING"]
<1>1. b \in Tabs(m) /\ s \in 0..m /\ m \in Nat
  BY TabAssumption DEF Good, Sound, Tabs
<1>2. observeVariants(b) = IF s # None /\ b.dom[s] > b.arrived
                           THEN queueCheckpoint(saveSession(c)) ELSE b
  BY DEF observeVariants
<1> HIDE DEF s
<1>3. CASE s # None
  <2>1. b.dom[s] \in Int /\ "CYCLING" \in States
    BY <1>1, <1>3, TabAssumption DEF Tabs, Sessions, None, States
  <2>2. c \in Tabs(m) /\ c.st = "CYCLING" /\ Alike(b, c)
    BY <1>1, <2>1 DEF Tabs, Alike
  <2>3. Good(c, m)
    BY <1>1, <2>2, AlikeIsGood
  <2> QED BY <1>1, <1>2, <2>3, SaveIsGood, CheckpointIsGood
<1>4. CASE s = None
  BY <1>2, <1>4
<1> QED BY <1>3, <1>4

LEMMA RetriedIsGood ==
  ASSUME NEW m \in 0..NSessions, NEW b, Good(b, m)
  PROVE  Good(retryAnchor(b), m)
<1> DEFINE s == b.anchor
           c == [b EXCEPT !.anchor = None]
           z == 0
           no == FALSE
<1>1. b \in Tabs(m) /\ s \in 0..m /\ m \in Nat /\ None \in 0..m /\ z \in Nat /\ no \in BOOLEAN
  BY TabAssumption, NoneIsKnown DEF Good, Sound, Tabs
<1>2. retryAnchor(b) = IF s # None /\ b.dom[s] # Absent THEN inject(c, s, z, no, no) ELSE b
  BY DEF retryAnchor
<1> HIDE DEF s, z, no
<1>3. c \in Tabs(m) /\ c.st = b.st /\ Alike(b, c)
  BY <1>1 DEF Tabs, Alike
<1>4. Good(c, m)
  BY <1>1, <1>3, AlikeIsGood
<1> HIDE DEF c
<1>5. s # None => s \in 1..m
  BY <1>1 DEF None
<1> QED BY <1>1, <1>2, <1>4, <1>5, InjectedIsGood

\* A watcher of an earlier revision asks for nothing.
LEMMA WatchersAreGood ==
  ASSUME NEW m \in 0..NSessions, NEW b, Good(b, m)
  PROVE  Good(watchPage(b), m)
<1> DEFINE due == {t \in b.tasks : t.k = "watch" /\ b.dom[t.s] # Absent /\ MayReload(b, t.s, t.rev)}
           tries == [s \in Sessions |-> IF \E t \in due : t.s = s THEN b.tries[s] + 1 ELSE b.tries[s]]
           new == {Timer("handledReload", t.s, t.rev) : t \in due}
           c == [b EXCEPT !.tries = tries, !.tasks = b.tasks \cup new]
<1>1. b \in Tabs(m) /\ m \in Nat /\ b.tasks \in SUBSET Tasks(m)
  BY TabAssumption DEF Good, Sound, Tabs
<1>2. tries \in [Sessions -> Int]
  <2> HIDE DEF due
  <2> QED BY <1>1 DEF Tabs
<1>3. \A t \in due : /\ t \in b.tasks /\ t.s \in 0..m /\ t.s # None /\ t.rev = b.rev /\ t.rev \in Nat
                     /\ b.st # "CONFIGURING"
  <2>1. TAKE t \in due
  <2>2. t \in Tasks(m) /\ t \in b.tasks /\ t.k = "watch" /\ MayReload(b, t.s, t.rev)
    BY <1>1
  <2>3. t.rev = b.rev
    BY <2>2 DEF MayReload, Superseded
  <2>4. t.s # None
    BY <2>2 DEF Good, Sound, OfSession, Sourceless
  <2>5. b.st # "CONFIGURING"
    BY <2>2, <2>3 DEF Good, Settled, Recoveries, Tasks
  <2> QED BY <2>2, <2>3, <2>4, <2>5 DEF Tasks
<1>4. \A u \in new : u \in Tasks(m) /\ u.k = "handledReload" /\ OfSession(u) /\ u.rev = b.rev
                     /\ b.st # "CONFIGURING"
  <2>1. TAKE u \in new
  <2>2. PICK t \in due : u = Timer("handledReload", t.s, t.rev)
    OBVIOUS
  <2>3. "handledReload" \in TaskKinds
    BY DEF TaskKinds, Recoveries
  <2> HIDE DEF due
  <2>4. u \in Tasks(m) /\ u.k = "handledReload" /\ u.s = t.s /\ u.rev = t.rev
    BY <1>1, <1>3, <2>2, <2>3, TimersAreTyped
  <2> QED BY <1>3, <2>4 DEF OfSession
<1>5. watchPage(b) = c
  BY <1>1 DEF watchPage, Tabs
<1> HIDE DEF due, tries, new
<1>6. b.tasks \cup new \in SUBSET Tasks(m)
  BY <1>1, <1>4
<1>7. /\ c \in Tabs(m) /\ c.st = b.st /\ c.cur = b.cur /\ c.rev = b.rev /\ c.dom = b.dom
      /\ c.handled = b.handled /\ c.tasks = b.tasks \cup new
  BY <1>1, <1>2, <1>6 DEF Tabs
<1> HIDE DEF c
<1>8. b.rev \in Nat
  BY <1>1 DEF Tabs
<1>9. Sound(c, m)
  <2>1. \A t \in c.tasks : OfSession(t) /\ (t.k \in Recoveries => t.rev <= c.rev)
    BY <1>4, <1>7, <1>8 DEF Good, Sound
  <2> QED BY <1>7, <2>1 DEF Good, Sound
<1>10. Settled(c) /\ CurIsOpen(c)
  BY <1>4, <1>7 DEF Good, Settled, CurIsOpen, isHandled
<1> QED BY <1>5, <1>9, <1>10 DEF Good

LEMMA ChangedIsGood ==
  ASSUME NEW m \in 0..NSessions, NEW b, Good(b, m), srv \in Lists(m), src \in Sources(m)
  PROVE  Good(pageChanged(b), m)
  BY ScoutedIsGood, ObservedIsGood, RetriedIsGood, WatchersAreGood DEF pageChanged

LEMMA DomIsGood ==
  ASSUME NEW m \in 0..NSessions, NEW b, Good(b, m), NEW s \in 1..m, NEW v \in Int
  PROVE  Good([b EXCEPT !.dom[s] = v], m)
<1> DEFINE d == [b.dom EXCEPT ![s] = v]
           c == [b EXCEPT !.dom = d]
<1>1. b \in Tabs(m) /\ b.dom \in [Sessions -> Int] /\ s \in Sessions /\ s <= m
  BY TabAssumption DEF Good, Sound, Tabs, Sessions
<1>2. d \in [Sessions -> Int] /\ \A r \in Sessions : r > m => d[r] = b.dom[r]
  BY <1>1, TabAssumption DEF Sessions
<1>3. [b EXCEPT !.dom[s] = v] = c
  BY <1>1 DEF Tabs
<1> HIDE DEF d
<1>4. /\ c \in Tabs(m) /\ c.st = b.st /\ c.cur = b.cur /\ c.rev = b.rev /\ c.dom = d
      /\ c.handled = b.handled /\ c.tasks = b.tasks
  BY <1>1, <1>2 DEF Tabs
<1> HIDE DEF c
<1>5. Sound(c, m) /\ Settled(c) /\ CurIsOpen(c)
  BY <1>2, <1>4 DEF Good, Sound, Settled, CurIsOpen, isHandled
<1> QED BY <1>3, <1>5 DEF Good

\* A session more may be known.
LEMMA GoodOfMore ==
  ASSUME NEW m \in Nat, NEW b, Good(b, m)
  PROVE  Good(b, m + 1)
<1> DEFINE k == m + 1
<1>1. k \in Nat /\ 0..m \subseteq 0..k /\ 1..m \subseteq 1..k /\ \A s \in Int : s > k => s > m
  OBVIOUS
<1>2. Sessions \subseteq Int
  BY DEF Sessions
<1>3. Tasks(m) \subseteq Tasks(k)
  <2> HIDE DEF k
  <2> QED BY <1>1 DEF Tasks
<1>4. Records(m) \subseteq Records(k)
  <2> HIDE DEF k
  <2> QED BY <1>1 DEF Records
<1>5. Seq(1..m) \subseteq Seq(1..k)
  <2> HIDE DEF k
  <2> QED BY <1>1
<1> HIDE DEF k
<1>6. b \in Tabs(k)
  <2>1. b \in Tabs(m)
    BY DEF Good, Sound
  <2>2. b.tasks \in SUBSET Tasks(k)
    BY <1>3, <2>1 DEF Tabs
  <2>3. b.saved \in Records(k) /\ b.handled \in Seq(1..k)
    BY <1>4, <1>5, <2>1 DEF Tabs
  <2>4. /\ b.cur \in 0..k /\ b.pend \in 0..k /\ b.awaiting \in 0..k /\ b.observed \in 0..k
        /\ b.anchor \in 0..k
    BY <1>1, <2>1 DEF Tabs
  <2> QED BY <2>1, <2>2, <2>3, <2>4 DEF Tabs
<1>7. Good(b, k)
  BY <1>1, <1>2, <1>6 DEF Good, Sound
<1> QED BY <1>7 DEF k

-----------------------------------------------------------------------------
(* Sessions: the invariant *)

PostSet(m)  == [k : {"generate", "accept", "discard", "orphan"}, s : 1..m, at : {"sent", "ok", "failed"}]
EventSet(m) == {e \in [ev : {"connected", "progress", "done", "complete", "discarded", "error"},
                       s : 0..m, listed : Lists(m)] : e.ev # "connected" => e.s # None}

\* What the tab, the server, the files and all that is on its way know of is started.
SessionInv ==
    /\ started \in 0..NSessions
    /\ srv \in Lists(started) /\ src \in Sources(started)
    /\ Good(tab, started)
    /\ posts \subseteq PostSet(started)
    /\ stream \in Seq(EventSet(started))

\* The tab alone changes.
LEMMA TabStep ==
  ASSUME SessionInv, Good(tab', started), UNCHANGED <<srv, src, posts, stream, started>>
  PROVE  SessionInv'
  BY DEF SessionInv

LEMMA Becomes ==
  ASSUME SessionInv, NEW b, Good(b, started), Become(b)
  PROVE  SessionInv'
  BY TabStep DEF Become

\* The tab changes, and asks the server.
LEMMA TabPosts ==
  ASSUME SessionInv, Good(tab', started), posts' \subseteq PostSet(started),
         UNCHANGED <<srv, src, stream, started>>
  PROVE  SessionInv'
  BY DEF SessionInv

LEMMA SentIsTyped ==
  ASSUME NEW m \in Nat, NEW k \in {"generate", "accept", "discard", "orphan"}, NEW s \in 1..m
  PROVE  Post(k, s) \in PostSet(m)
  BY DEF Post, PostSet

\* What the conjuncts of the invariant say, for the steps below.
LEMMA SessionFacts ==
  ASSUME SessionInv
  PROVE  /\ started \in 0..NSessions /\ started \in Nat /\ srv \in Lists(started)
         /\ src \in Sources(started) /\ Good(tab, started) /\ tab \in Tabs(started)
         /\ posts \subseteq PostSet(started) /\ stream \in Seq(EventSet(started))
         /\ 1..started \subseteq Sessions /\ None \in 0..started
         /\ Sound(tab, started)
         /\ \A s \in 0..started : s # None => s \in 1..started
  BY TabAssumption DEF SessionInv, Good, Sound, Sessions, None

-----------------------------------------------------------------------------
(* Sessions: the user and the requests *)

LEMMA PickKeepsSessions ==
  ASSUME SessionInv, Pick
  PROVE  SessionInv'
<1> DEFINE k == tab.rev + 1
           left == {t \in tab.tasks : t.k \notin Voided}
           c == [tab EXCEPT !.rev = k, !.tasks = left]
           b == setLiveState(c, "CONFIGURING")
<1>1. tab \in Tabs(started) /\ Good(tab, started)
  BY SessionFacts
<1>2. Become(b)
  BY <1>1 DEF Pick, Tabs
<1>3. k \in Nat /\ left \in SUBSET Tasks(started) /\ tab.rev \in Nat
  BY <1>1 DEF Tabs
<1>4. \A t \in left : OfSession(t) /\ (t.k \in Recoveries => t.rev < k)
  <2>1. \A t \in left : t \in Tasks(started) /\ OfSession(t) /\ (t.k \in Recoveries => t.rev <= tab.rev)
    BY <1>1 DEF Good, Sound, Tabs
  <2> QED BY <1>3, <2>1 DEF Tasks
<1>5. k > 0
  BY <1>3
<1> HIDE DEF k, left
<1>6. /\ c \in Tabs(started) /\ c.cur = tab.cur /\ c.rev = k /\ c.dom = tab.dom
      /\ c.handled = tab.handled /\ c.tasks = left
  BY <1>1, <1>3 DEF Tabs
<1> HIDE DEF c
<1>7. /\ b \in Tabs(started) /\ b.cur = tab.cur /\ b.rev = k /\ b.dom = tab.dom
      /\ b.handled = tab.handled /\ b.tasks = left
  BY <1>6 DEF setLiveState, Tabs, States
<1> HIDE DEF b
<1>8. \A t \in b.tasks : t.k \in Recoveries => t.rev \in Nat
  BY <1>3, <1>7 DEF Tasks
<1>9. Sound(b, started) /\ Settled(b) /\ CurIsOpen(b)
  BY <1>1, <1>3, <1>4, <1>5, <1>7, <1>8 DEF Good, Sound, Settled, CurIsOpen, isHandled
<1> QED BY <1>2, <1>9, Becomes DEF Good

LEMMA CancelKeepsSessions ==
  ASSUME SessionInv, CancelConfigure
  PROVE  SessionInv'
<1>1. "PICKING" \in States \ {"CONFIGURING"}
  BY DEF States
<1>2. Good(setLiveState(tab, "PICKING"), started)
  BY <1>1, SessionFacts, StatesAreGood
<1> QED BY <1>2, Becomes DEF CancelConfigure

LEMMA AskedIsGood ==
  ASSUME NEW m \in Nat, Good(tab, m)
  PROVE  Good(Asked(m + 1), m + 1)
<1> DEFINE k == m + 1
           c == [tab EXCEPT !.pend = None, !.awaiting = None, !.cur = k, !.observed = k]
           z == 0
           d == [c EXCEPT !.arrived = z, !.file = FALSE, !.st = "GENERATING", !.told = FALSE,
                       !.late = FALSE]
<1>1. Good(tab, k) /\ tab \in Tabs(k)
  BY GoodOfMore DEF Good, Sound
<1>2. k \in Nat /\ k \in 0..k /\ None \in 0..k /\ z \in Int /\ "GENERATING" \in States
  BY NoneIsKnown DEF States
<1>3. \A i \in DOMAIN tab.handled : tab.handled[i] # k
  <2>1. tab.handled \in Seq(1..m)
    BY DEF Good, Sound, Tabs
  <2>2. \A i \in DOMAIN tab.handled : tab.handled[i] \in 1..m
    BY <2>1
  <2> QED BY <2>2
<1>4. Asked(k) = saveSession(d)
  BY <1>1 DEF Asked, Tabs
<1> HIDE DEF k, z
<1>5. /\ c \in Tabs(k) /\ c.cur = k /\ c.rev = tab.rev /\ c.dom = tab.dom
      /\ c.handled = tab.handled /\ c.tasks = tab.tasks
  BY <1>1, <1>2 DEF Tabs
<1> HIDE DEF c
<1>6. /\ d \in Tabs(k) /\ d.cur = k /\ d.rev = tab.rev /\ d.dom = tab.dom /\ d.st = "GENERATING"
      /\ d.handled = tab.handled /\ d.tasks = tab.tasks
  BY <1>2, <1>5 DEF Tabs
<1> HIDE DEF d
<1>7. Good(d, k)
  BY <1>1, <1>3, <1>6 DEF Good, Sound, Settled, CurIsOpen, isHandled
<1>8. Good(Asked(k), k)
  BY <1>2, <1>4, <1>7, SaveIsGood
<1> QED BY <1>8 DEF k

LEMMA GoKeepsSessions ==
  ASSUME SessionInv, Go
  PROVE  SessionInv'
<1> DEFINE k == started + 1
           t == Timer("capture", k, 0)
<1>1. /\ started \in Nat /\ started < NSessions /\ started' = k
      /\ UNCHANGED <<framework, srv, src, stream, conn, loads, faults>>
  BY SessionFacts DEF Go, Another
<1>2. k \in 0..NSessions /\ k \in Nat /\ k \in 1..k /\ 1..started \subseteq 1..k
      /\ 0..started \subseteq 0..k /\ \A s \in Int : s > k => s > started
  BY <1>1, TabAssumption
<1>3. Good(Asked(k), k)
  BY <1>1, SessionFacts, AskedIsGood
<1>4. t \in Tasks(k) /\ t.k = "capture" /\ t.s = k
  <2> DEFINE z == 0
  <2>1. z \in Nat /\ "capture" \in TaskKinds /\ k \in 0..k
    BY <1>2 DEF TaskKinds
  <2> HIDE DEF z, k
  <2>2. Timer("capture", k, z) \in Tasks(k) /\ Timer("capture", k, z).k = "capture"
        /\ Timer("capture", k, z).s = k
    BY <1>2, <2>1, TimersAreTyped
  <2> QED BY <2>2 DEF z
<1>5. \/ tab' = Asked(k) /\ posts' = posts \cup {Post("generate", k)}
      \/ tab' = Later(Asked(k), t) /\ posts' = posts
  BY DEF Go, Sends
<1> HIDE DEF k, t
<1>6. Good(Later(Asked(k), t), k)
  <2>1. k # None
    BY <1>2 DEF None
  <2> QED BY <1>2, <1>3, <1>4, <2>1, LaterIsGood DEF OfSession, Recoveries
<1>7. Lists(started) \subseteq Lists(k) /\ Sources(started) \subseteq Sources(k)
  BY <1>2 DEF Lists, Sources, Sessions
<1>8. PostSet(started) \subseteq PostSet(k) /\ Post("generate", k) \in PostSet(k)
  BY <1>2, SentIsTyped DEF PostSet
<1>9. EventSet(started) \subseteq EventSet(k)
  BY <1>2, <1>7 DEF EventSet
<1>10. stream \in Seq(EventSet(k))
  BY <1>9, SessionFacts
<1>11. Good(tab', k)
  BY <1>3, <1>5, <1>6
<1>12. posts' \subseteq PostSet(k)
  BY <1>5, <1>8, SessionFacts
<1> QED BY <1>1, <1>2, <1>7, <1>10, <1>11, <1>12, SessionFacts DEF SessionInv

LEMMA AcceptKeepsSessions ==
  ASSUME SessionInv, handleAccept
  PROVE  SessionInv'
<1> DEFINE c == [tab EXCEPT !.st = "SAVING", !.pend = tab.cur]
<1>1. tab \in Tabs(started) /\ tab.cur \in 1..started /\ started \in Nat
  <2>1. tab \in Tabs(started) /\ tab.cur # None
    BY SessionFacts, SessionAssumption DEF handleAccept, None
  <2> QED BY <2>1, SessionFacts DEF Tabs
<1>2. tab' = saveSession(c) /\ posts' = posts \cup {Post("accept", tab.cur)}
      /\ UNCHANGED <<srv, src, stream, started>>
  BY <1>1 DEF handleAccept, Sends, Tabs
<1>3. c \in Tabs(started) /\ c.st = "SAVING" /\ Alike(tab, c)
  BY <1>1 DEF Tabs, Alike, States
<1> HIDE DEF c
<1>4. Good(saveSession(c), started)
  BY <1>1, <1>3, SessionFacts, AlikeIsGood, SaveIsGood
<1>5. Post("accept", tab.cur) \in PostSet(started)
  BY <1>1, SentIsTyped
<1> QED BY <1>2, <1>4, <1>5, SessionFacts, TabPosts

LEMMA DiscardKeepsSessions ==
  ASSUME SessionInv, handleDiscard
  PROVE  SessionInv'
<1>1. tab.cur \in 1..started /\ started \in Nat
  <2>1. tab \in Tabs(started) /\ tab.cur # None
    BY SessionFacts, SessionAssumption DEF handleDiscard, None
  <2> QED BY <2>1, SessionFacts DEF Tabs
<1>2. Post("discard", tab.cur) \in PostSet(started)
  BY <1>1, SentIsTyped
<1> QED BY <1>2, SessionFacts, TabPosts DEF handleDiscard, Sends

\* A new page has no session, no anchor and no task.
LEMMA FreshIsGood ==
  ASSUME SessionInv, NEW dom \in Sources(started)
  PROVE  LET b == Fresh(tab.saved, tab.handled, tab.tries, dom)
         IN  Good(b, started) /\ b.cur = None /\ b.anchor = None /\ b.tasks = {}
<1> DEFINE b == Fresh(tab.saved, tab.handled, tab.tries, dom)
           z == 0
           f == [st |-> "IDLE", cur |-> None, rev |-> z, arrived |-> z, file |-> FALSE,
                 pend |-> None, awaiting |-> None, observed |-> None, anchor |-> None,
                 scout |-> FALSE, tasks |-> {}, told |-> FALSE, late |-> FALSE, dom |-> dom,
                 saved |-> tab.saved, handled |-> tab.handled, tries |-> tab.tries]
<1>1. tab \in Tabs(started) /\ z \in Nat /\ z \in Int /\ None \in 0..started /\ "IDLE" \in States
      /\ Sound(tab, started)
  BY SessionFacts DEF States
<1>2. /\ tab.saved \in Records(started) /\ tab.handled \in Seq(1..started)
      /\ tab.tries \in [Sessions -> Int] /\ dom \in [Sessions -> Int]
  BY <1>1 DEF Tabs, Sources
<1>3. b = f
  BY DEF Fresh
<1> HIDE DEF z, b
<1>4. f \in Tabs(started)
  BY <1>1, <1>2 DEF Tabs
<1>5. Good(f, started)
  BY <1>1, <1>4 DEF Good, Sound, Settled, CurIsOpen, Sources
<1> QED BY <1>3, <1>5 DEF b

\* A page load keeps the stored record, the handled ids and the reloads, and no recovery.
LEMMA ReloadKeepsSessions ==
  ASSUME SessionInv, NEW by, Reload(by)
  PROVE  SessionInv'
<1>1. PICK dom \in {src} \cup {[s \in Sessions |-> Absent]} :
        tab' = boot(Fresh(tab.saved, tab.handled, tab.tries, dom))
  BY DEF Reload
<1> DEFINE b == Fresh(tab.saved, tab.handled, tab.tries, dom)
<1>2. posts' = {} /\ stream' = <<>> /\ UNCHANGED <<srv, src, started>>
  BY DEF Reload
<1>3. dom \in Sources(started)
  <2>1. [s \in Sessions |-> Absent] \in Sources(started)
    BY DEF Sources, Absent
  <2> QED BY <1>1, <2>1, SessionFacts
<1>4. Good(b, started)
  BY <1>3, FreshIsGood
<1> HIDE DEF b
<1>5. Good(tab', started)
  BY <1>1, <1>4, SessionFacts, BootedIsGood DEF b
<1>6. stream' \in Seq(EventSet(started)) /\ posts' \subseteq PostSet(started)
  BY <1>2
<1> QED BY <1>2, <1>5, <1>6 DEF SessionInv

LEMMA AnsweredIsTyped ==
  ASSUME NEW m \in Nat, NEW p \in PostSet(m), NEW at \in {"ok", "failed"}
  PROVE  [p EXCEPT !.at = at] \in PostSet(m)
  BY DEF PostSet

LEMMA ServeKeepsSessions ==
  ASSUME SessionInv, NEW p \in posts, Serve(p)
  PROVE  SessionInv'
<1>1. p \in PostSet(started) /\ started \in Nat /\ p.s \in 1..started /\ p.s \in Sessions
      /\ p.s <= started
  <2>1. p \in PostSet(started) /\ started \in Nat
    BY SessionFacts
  <2>2. p.s \in 1..started
    BY <2>1 DEF PostSet
  <2> QED BY <2>1, <2>2, SessionFacts
<1>2. posts' \subseteq PostSet(started)
  <2>1. \A at \in {"ok", "failed"} : [p EXCEPT !.at = at] \in PostSet(started)
    BY <1>1, AnsweredIsTyped
  <2>2. \E at \in {"ok", "failed"} : posts' = (posts \ {p}) \cup {[p EXCEPT !.at = at]}
    BY DEF Serve
  <2> QED BY <2>1, <2>2, SessionFacts
<1>3. srv' \in Lists(started)
  <2>1. srv' = srv \/ \E ph \in SrvPhases : srv' = [srv EXCEPT ![p.s] = ph]
    BY DEF Serve, Accepted, Refused, SrvPhases
  <2> QED BY <1>1, <2>1, SessionFacts DEF Lists
<1>4. UNCHANGED <<src, tab, stream, started>>
  BY DEF Serve
<1> QED BY <1>2, <1>3, <1>4 DEF SessionInv

LEMMA LoseKeepsSessions ==
  ASSUME SessionInv, NEW p \in posts, Lose(p)
  PROVE  SessionInv'
<1>1. p \in PostSet(started) /\ started \in Nat
  BY SessionFacts
<1>2. posts' \subseteq PostSet(started)
  <2>1. [p EXCEPT !.at = "failed"] \in PostSet(started)
    BY <1>1, AnsweredIsTyped
  <2> QED BY <2>1, SessionFacts DEF Lose
<1>3. Good(tab', started) /\ UNCHANGED <<srv, src, stream, started>>
  BY SessionFacts DEF Lose
<1> QED BY <1>2, <1>3, TabPosts

LEMMA AnswerKeepsSessions ==
  ASSUME SessionInv, NEW p \in posts, Answer(p)
  PROVE  SessionInv'
<1>1. /\ p \in PostSet(started) /\ started \in Nat /\ tab \in Tabs(started) /\ Good(tab, started)
      /\ Sound(tab, started) /\ None \in 0..started
  BY SessionFacts
<1>2. p.s \in 1..started /\ p.s \in 0..started
  BY <1>1 DEF PostSet
<1>3. Good(Confirmed(p), started)
  <2> DEFINE c == [tab EXCEPT !.awaiting = p.s]
  <2>1. c \in Tabs(started) /\ c.st = tab.st /\ Alike(tab, c)
    BY <1>1, <1>2 DEF Tabs, Alike
  <2>2. Confirmed(p) \in {finishAccept(c, p.s), cleanup(markSessionHandled(tab)), tab}
    BY DEF Confirmed
  <2> HIDE DEF c
  <2>3. Good(finishAccept(c, p.s), started)
    BY <1>1, <1>2, <2>1, AlikeIsGood, FinishedIsGood DEF Good
  <2>4. Good(cleanup(markSessionHandled(tab)), started)
    BY <1>1, AbandonedIsGood
  <2> QED BY <1>1, <2>2, <2>3, <2>4
<1>4. Good(Unconfirmed(p), started)
  <2> DEFINE v == IF tab.pend = p.s THEN None ELSE tab.pend
             c == [tab EXCEPT !.pend = v]
  <2>1. v \in 0..started /\ "CYCLING" \in States \ {"CONFIGURING"}
    BY <1>1 DEF Tabs, States
  <2>2. Unconfirmed(p) = IF p.k = "accept" THEN setLiveState(c, "CYCLING") ELSE tab
    BY <1>1 DEF Unconfirmed, Tabs
  <2> HIDE DEF v
  <2>3. c \in Tabs(started) /\ c.st = tab.st /\ Alike(tab, c)
    BY <1>1, <2>1 DEF Tabs, Alike
  <2> HIDE DEF c
  <2>4. Good(setLiveState(c, "CYCLING"), started)
    BY <1>1, <2>1, <2>3, AlikeIsGood, StatesAreGood
  <2> QED BY <1>1, <2>2, <2>4
<1>5. Good(tab', started) /\ posts' \subseteq PostSet(started)
      /\ UNCHANGED <<srv, src, stream, started>>
  BY <1>3, <1>4, SessionFacts DEF Answer
<1> QED BY <1>5, TabPosts

-----------------------------------------------------------------------------
(* Sessions: the stream of events *)

LEMMA ConnectionKeepsSessions ==
  ASSUME SessionInv, Connect \/ Disconnect
  PROVE  SessionInv'
<1>1. <<>> \in Seq(EventSet(started))
  OBVIOUS
<1>2. <<Event("connected", None, activeSessions)>> \in Seq(EventSet(started))
  <2>1. activeSessions \in Lists(started)
    BY SessionFacts, ListingsAreKnown
  <2>2. Event("connected", None, activeSessions) \in EventSet(started)
    BY <2>1, SessionFacts DEF Event, EventSet
  <2> QED BY <2>2
<1>3. stream' \in Seq(EventSet(started)) /\ UNCHANGED <<srv, src, tab, posts, started>>
  BY <1>1, <1>2 DEF Connect, Disconnect
<1> QED BY <1>3 DEF SessionInv

LEMMA GiveUpKeepsSessions ==
  ASSUME SessionInv, GiveUp
  PROVE  SessionInv'
<1> DEFINE st == IF tab.cur = None THEN "IDLE" ELSE tab.st
           told == tab.told \/ tab.st \in {"GENERATING", "CYCLING", "SAVING"}
           c == [tab EXCEPT !.st = st, !.told = told, !.observed = None]
<1>1. tab \in Tabs(started) /\ Good(tab, started) /\ None \in 0..started /\ started \in Nat
  BY SessionFacts
<1>2. tab' = saveSession(c) /\ UNCHANGED <<srv, src, posts, stream, started>>
  BY <1>1 DEF GiveUp, Tabs
<1>3. st \in States /\ told \in BOOLEAN /\ (st = tab.st \/ st # "CONFIGURING")
  BY <1>1 DEF Tabs, States
<1> HIDE DEF st, told
<1>4. c \in Tabs(started) /\ c.st = st /\ Alike(tab, c)
  BY <1>1, <1>3 DEF Tabs, Alike
<1> HIDE DEF c
<1>5. Good(saveSession(c), started)
  BY <1>1, <1>3, <1>4, AlikeIsGood, SaveIsGood
<1> QED BY <1>2, <1>5, TabStep

LEMMA ConnectedIsGood ==
  ASSUME SessionInv, NEW l \in Lists(started)
  PROVE  Good(onConnected(l), started)
<1> DEFINE b == IF Wrappers(tab) = {} /\ Restorable(tab, l) THEN restoreWithoutWrapper(tab, l)
                ELSE tab
           a == recoverMissed(b, l)
           c == [a EXCEPT !.late = FALSE]
<1>1. started \in 0..NSessions /\ started \in Nat
  BY SessionFacts
<1>2. Good(b, started)
  BY SessionFacts, RestoredIsGood
<1>3. onConnected(l) = IF c.st = "IDLE" THEN setLiveState(c, "PICKING") ELSE c
  BY DEF onConnected
<1> HIDE DEF b
<1>4. Good(a, started)
  <2> DEFINE d == [b EXCEPT !.file = TRUE]
             t == Timer("settle", b.cur, 0)
  <2>1. (a = Later(d, t) /\ b.cur # None) \/ a = b
    BY DEF recoverMissed
  <2>2. b \in Tabs(started) /\ b.cur \in 0..started
    BY <1>2 DEF Good, Sound, Tabs
  <2>3. t \in Tasks(started) /\ t.k = "settle" /\ t.s = b.cur
    <3> DEFINE z == 0
    <3>1. z \in Nat /\ "settle" \in TaskKinds
      BY DEF TaskKinds
    <3> HIDE DEF z
    <3>2. Timer("settle", b.cur, z) \in Tasks(started) /\ Timer("settle", b.cur, z).k = "settle"
          /\ Timer("settle", b.cur, z).s = b.cur
      BY <1>1, <2>2, <3>1, TimersAreTyped
    <3> QED BY <3>2 DEF z
  <2>4. d \in Tabs(started) /\ d.st = b.st /\ Alike(b, d)
    BY <2>2 DEF Tabs, Alike
  <2> HIDE DEF a, d, t
  <2>5. Good(d, started)
    BY <1>1, <1>2, <2>4, AlikeIsGood
  <2>6. b.cur # None => Good(Later(d, t), started)
    BY <1>1, <2>3, <2>5, LaterIsGood DEF OfSession, Recoveries
  <2> QED BY <1>2, <2>1, <2>6
<1> HIDE DEF a
<1>5. Good(c, started)
  BY <1>1, <1>4, LateIsGood
<1> HIDE DEF c
<1>6. "PICKING" \in States \ {"CONFIGURING"}
  BY DEF States
<1> QED BY <1>1, <1>3, <1>5, <1>6, StatesAreGood

LEMMA DoneIsGood ==
  ASSUME SessionInv, NEW s \in 1..started
  PROVE  Good(onDone(s), started)
<1> DEFINE d == [tab EXCEPT !.file = TRUE]
           b == d
           t == Timer("settle", s, 0)
           u == Timer("missing", None, 0)
<1>1. /\ started \in Nat /\ tab \in Tabs(started) /\ Good(tab, started) /\ None \in 0..started
      /\ s \in 0..started /\ s # None
  BY SessionFacts DEF None
<1>2. d \in Tabs(started) /\ d.st = tab.st /\ Alike(tab, d)
  BY <1>1 DEF Tabs, Alike
<1>3. Good(d, started) /\ Good(b, started)
  <2> HIDE DEF d
  <2> QED BY <1>1, <1>2, AlikeIsGood
<1>4. onDone(s) \in {setLiveState(b, "CYCLING"), b, Later(b, t), Later(b, u)}
  BY DEF onDone
<1>5. /\ t \in Tasks(started) /\ t.k = "settle" /\ t.s = s
      /\ u \in Tasks(started) /\ u.k = "missing"
  <2> DEFINE z == 0
  <2>1. z \in Nat /\ "settle" \in TaskKinds /\ "missing" \in TaskKinds
    BY DEF TaskKinds, Sourceless
  <2> HIDE DEF z
  <2>2. /\ Timer("settle", s, z) \in Tasks(started) /\ Timer("settle", s, z).k = "settle"
        /\ Timer("settle", s, z).s = s
        /\ Timer("missing", None, z) \in Tasks(started) /\ Timer("missing", None, z).k = "missing"
    BY <1>1, <2>1, TimersAreTyped
  <2> QED BY <2>2 DEF z
<1> HIDE DEF b, t, u
<1>6. Good(Later(b, t), started) /\ Good(Later(b, u), started)
  BY <1>1, <1>3, <1>5, LaterIsGood DEF OfSession, Recoveries, Sourceless
<1>7. Good(setLiveState(b, "CYCLING"), started)
  <2>1. "CYCLING" \in States \ {"CONFIGURING"}
    BY DEF States
  <2> QED BY <1>1, <1>3, <2>1, StatesAreGood
<1> QED BY <1>3, <1>4, <1>6, <1>7

LEMMA CompleteIsGood ==
  ASSUME SessionInv, NEW s \in 1..started
  PROVE  Good(onComplete(s), started)
<1> DEFINE v == IF tab.awaiting = s THEN None ELSE tab.awaiting
           b == [tab EXCEPT !.awaiting = v]
           c == [b EXCEPT !.pend = None]
<1>1. started \in Nat /\ tab \in Tabs(started) /\ Good(tab, started) /\ None \in 0..started
  BY SessionFacts
<1>2. v \in 0..started
  BY <1>1 DEF Tabs
<1>3. onComplete(s) = IF b.pend # s THEN b ELSE IF b.cur \notin {None, s} THEN c
                      ELSE finishAccept(b, s)
  BY <1>1 DEF onComplete, Tabs
<1> HIDE DEF v
<1>4. b \in Tabs(started) /\ b.st = tab.st /\ Alike(tab, b)
  BY <1>1, <1>2 DEF Tabs, Alike
<1> HIDE DEF b
<1>5. Good(b, started) /\ Sound(b, started)
  BY <1>1, <1>4, AlikeIsGood DEF Good
<1>6. c \in Tabs(started) /\ c.st = b.st /\ Alike(b, c)
  BY <1>1, <1>4 DEF Tabs, Alike
<1> HIDE DEF c
<1>7. Good(c, started) /\ Good(finishAccept(b, s), started)
  BY <1>1, <1>5, <1>6, AlikeIsGood, FinishedIsGood
<1> QED BY <1>3, <1>5, <1>7

LEMMA ErrorIsGood ==
  ASSUME SessionInv, NEW s \in 1..started
  PROVE  Good(onError(s), started)
<1> DEFINE c == [tab EXCEPT !.pend = None, !.awaiting = None]
           d == [tab EXCEPT !.awaiting = None]
           e == IF tab.saved.id = s THEN clearSession(tab) ELSE tab
<1>1. /\ started \in Nat /\ tab \in Tabs(started) /\ Good(tab, started) /\ None \in 0..started
      /\ Sound(tab, started) /\ {"CYCLING", "PICKING"} \subseteq States \ {"CONFIGURING"}
  BY SessionFacts DEF States
<1>2. /\ c \in Tabs(started) /\ c.st = tab.st /\ Alike(tab, c)
      /\ d \in Tabs(started) /\ d.st = tab.st /\ Alike(tab, d)
  BY <1>1 DEF Tabs, Alike
<1>3. onError(s) \in {setLiveState(c, "CYCLING"), Tell(d), Tell(cleanup(markSessionHandled(tab))),
                      Tell(setLiveState(e, "PICKING"))}
  BY DEF onError
<1> HIDE DEF c, d
<1>4. Good(c, started) /\ Good(d, started) /\ Good(e, started)
  BY <1>1, <1>2, AlikeIsGood, ClearIsGood
<1> HIDE DEF e
<1>5. Good(setLiveState(c, "CYCLING"), started) /\ Good(Tell(setLiveState(e, "PICKING")), started)
  BY <1>1, <1>4, StatesAreGood, TellIsGood
<1>6. Good(Tell(d), started) /\ Good(Tell(cleanup(markSessionHandled(tab))), started)
  BY <1>1, <1>4, AbandonedIsGood, TellIsGood
<1> QED BY <1>3, <1>5, <1>6

LEMMA DeliverKeepsSessions ==
  ASSUME SessionInv, Deliver
  PROVE  SessionInv'
<1> DEFINE e == Head(stream)
<1>1. /\ e \in EventSet(started) /\ stream' \in Seq(EventSet(started)) /\ tab' = Handled(e)
      /\ UNCHANGED <<srv, src, posts, started>>
  BY SessionFacts DEF Deliver
<1>2. /\ started \in Nat /\ tab \in Tabs(started) /\ Good(tab, started) /\ Sound(tab, started)
  BY SessionFacts
<1> HIDE DEF e
<1>3. e.listed \in Lists(started) /\ (e.ev # "connected" => e.s \in 1..started)
  BY <1>1, SessionFacts DEF EventSet
<1>4. CASE e.ev = "connected"
  <2>1. Handled(e) = onConnected(e.listed)
    BY <1>4 DEF Handled
  <2> QED BY <1>1, <1>3, <2>1, ConnectedIsGood DEF SessionInv
<1>5. CASE e.ev = "progress"
  <2> DEFINE d == [tab EXCEPT !.file = TRUE]
  <2>1. Handled(e) \in {d, tab}
    BY <1>5 DEF Handled
  <2>2. d \in Tabs(started) /\ d.st = tab.st /\ Alike(tab, d)
    BY <1>2 DEF Tabs, Alike
  <2> HIDE DEF d
  <2>3. Good(d, started)
    BY <1>2, <2>2, AlikeIsGood
  <2> QED BY <1>1, <1>2, <2>1, <2>3 DEF SessionInv
<1>6. CASE e.ev = "done"
  <2>1. Handled(e) = onDone(e.s)
    BY <1>6 DEF Handled
  <2> QED BY <1>1, <1>3, <1>6, <2>1, DoneIsGood DEF SessionInv
<1>7. CASE e.ev = "complete"
  <2>1. Handled(e) = onComplete(e.s)
    BY <1>7 DEF Handled
  <2> QED BY <1>1, <1>3, <1>7, <2>1, CompleteIsGood DEF SessionInv
<1>8. CASE e.ev = "discarded"
  <2>1. Handled(e) \in {cleanup(markSessionHandled(tab)), tab}
    BY <1>8 DEF Handled
  <2>2. Good(cleanup(markSessionHandled(tab)), started)
    BY <1>2, AbandonedIsGood
  <2> QED BY <1>1, <1>2, <2>1, <2>2 DEF SessionInv
<1>9. CASE e.ev = "error"
  <2>1. Handled(e) = onError(e.s)
    BY <1>9 DEF Handled
  <2> QED BY <1>1, <1>3, <1>9, <2>1, ErrorIsGood DEF SessionInv
<1> QED BY <1>1, <1>4, <1>5, <1>6, <1>7, <1>8, <1>9 DEF EventSet

-----------------------------------------------------------------------------
(* Sessions: timers and reads *)

LEMMA WithoutIsGood ==
  ASSUME SessionInv, NEW t \in tab.tasks
  PROVE  /\ Good(Without(t), started) /\ Sound(Without(t), started)
         /\ Without(t) \in Tabs(started)
         /\ Without(t).cur = tab.cur /\ Without(t).st = tab.st /\ Without(t).rev = tab.rev
         /\ Without(t).dom = tab.dom
<1>1. tab \in Tabs(started) /\ Good(tab, started)
  BY SessionFacts
<1>2. /\ Without(t) \in Tabs(started) /\ Without(t).cur = tab.cur /\ Without(t).st = tab.st
      /\ Without(t).rev = tab.rev /\ Without(t).dom = tab.dom
      /\ Without(t).handled = tab.handled /\ Without(t).tasks = tab.tasks \ {t}
  BY <1>1 DEF Without, Tabs
<1>3. Sound(Without(t), started) /\ Settled(Without(t)) /\ CurIsOpen(Without(t))
  BY <1>1, <1>2 DEF Good, Sound, Settled, CurIsOpen, isHandled
<1> QED BY <1>2, <1>3 DEF Good

LEMMA TaskFacts ==
  ASSUME SessionInv, NEW t \in tab.tasks, t.k \notin Sourceless
  PROVE  /\ t \in Tasks(started) /\ t.s \in 1..started /\ t.s \in 0..started
         /\ t.s \in Sessions /\ t.s # None
         /\ t.n \in Nat /\ t.rev \in Nat /\ t.done \in BOOLEAN /\ t.orphan \in BOOLEAN
         /\ t.k \in Recoveries => t.rev <= tab.rev /\ (tab.st = "CONFIGURING" => t.rev < tab.rev)
<1>1. t \in Tasks(started) /\ t.s # None
  BY SessionFacts DEF Good, Sound, OfSession, Tabs
<1>2. /\ t.s \in 0..started /\ t.n \in Nat /\ t.rev \in Nat /\ t.done \in BOOLEAN
      /\ t.orphan \in BOOLEAN
  BY <1>1 DEF Tasks
<1>3. t.s \in 1..started /\ t.s \in Sessions
  BY <1>1, <1>2, SessionFacts
<1>4. t.k \in Recoveries => t.rev <= tab.rev /\ (tab.st = "CONFIGURING" => t.rev < tab.rev)
  BY SessionFacts DEF Good, Sound, Settled
<1> QED BY <1>1, <1>2, <1>3, <1>4

\* A task that stays, under another name: the recoveries among those keep their revision.
LEMMA RenamedIsGood ==
  ASSUME SessionInv, NEW t \in tab.tasks, t.k \notin Sourceless,
         NEW k \in TaskKinds \ Sourceless, k \in Recoveries => t.k \in Recoveries,
         NEW n \in Nat
  PROVE  /\ Good(Later(Without(t), [t EXCEPT !.k = k]), started)
         /\ Good(Later(Without(t), [t EXCEPT !.k = k, !.n = n]), started)
<1> DEFINE u == [t EXCEPT !.k = k]
           v == [t EXCEPT !.k = k, !.n = n]
<1>1. /\ t \in Tasks(started) /\ t.s # None
      /\ t.k \in Recoveries => t.rev <= tab.rev /\ (tab.st = "CONFIGURING" => t.rev < tab.rev)
  BY TaskFacts
<1>2. u \in Tasks(started) /\ u.k = k /\ u.s = t.s /\ u.rev = t.rev
  BY <1>1 DEF Tasks
<1>3. v \in Tasks(started) /\ v.k = k /\ v.s = t.s /\ v.rev = t.rev
  BY <1>1 DEF Tasks
<1>4. /\ Good(Without(t), started) /\ Without(t).rev = tab.rev /\ Without(t).st = tab.st
      /\ started \in Nat
  BY WithoutIsGood, SessionFacts
<1> HIDE DEF u, v
<1> QED BY <1>1, <1>2, <1>3, <1>4, LaterIsGood DEF OfSession, u, v

LEMMA CaptureKeepsSessions ==
  ASSUME SessionInv, NEW t \in tab.tasks, CaptureEnds(t)
  PROVE  SessionInv'
<1>1. t.s \in 1..started /\ started \in Nat
  BY TaskFacts, SessionFacts DEF CaptureEnds, Sourceless
<1>2. Post("generate", t.s) \in PostSet(started)
  BY <1>1, SentIsTyped
<1>3. Good(tab', started) /\ posts' \subseteq PostSet(started)
      /\ UNCHANGED <<srv, src, stream, started>>
  BY <1>2, WithoutIsGood, SessionFacts DEF CaptureEnds, Sends
<1> QED BY <1>3, TabPosts

LEMMA PlainTimersKeepSessions ==
  ASSUME SessionInv, NEW t \in tab.tasks, CheckpointEnds(t) \/ MissingEnds(t) \/ WatchEnds(t)
  PROVE  SessionInv'
<1>1. started \in Nat /\ Good(Without(t), started) /\ Sound(Without(t), started)
  BY WithoutIsGood, SessionFacts
<1>2. Good(abandonForeignSession(Without(t)), started) /\ Good(Tell(Without(t)), started)
  BY <1>1, AbandonedIsGood, TellIsGood
<1>3. \E b \in {abandonForeignSession(Without(t)), Tell(Without(t)), Without(t)} : Become(b)
  BY DEF CheckpointEnds, MissingEnds, WatchEnds
<1> QED BY <1>1, <1>2, <1>3, Becomes

LEMMA SettleAndRetryKeepSessions ==
  ASSUME SessionInv, NEW t \in tab.tasks, SettleEnds(t) \/ RetryEnds(t)
  PROVE  SessionInv'
<1>1. /\ started \in 0..NSessions /\ Good(Without(t), started)
  BY WithoutIsGood, SessionFacts
<1>2. /\ t.s \in 1..started /\ t.n \in Nat /\ t.done \in BOOLEAN /\ t.orphan \in BOOLEAN
  BY TaskFacts DEF SettleEnds, RetryEnds, Sourceless
<1>3. Good(inject(Without(t), t.s, t.n, t.done, t.orphan), started)
  BY <1>1, <1>2, InjectedIsGood
<1>4. Good(inject(Without(t), t.s, 0, TRUE, FALSE), started)
  <2> DEFINE z == 0
             yes == TRUE
             no == FALSE
  <2>1. z \in Nat /\ yes \in BOOLEAN /\ no \in BOOLEAN
    OBVIOUS
  <2> HIDE DEF z, yes, no
  <2>2. Good(inject(Without(t), t.s, z, yes, no), started)
    BY <1>1, <1>2, <2>1, InjectedIsGood
  <2> QED BY <2>2 DEF z, yes, no
<1>5. \E b \in {inject(Without(t), t.s, t.n, t.done, t.orphan),
                inject(Without(t), t.s, 0, TRUE, FALSE), Without(t)} : Become(b)
  BY DEF SettleEnds, RetryEnds
<1> QED BY <1>1, <1>3, <1>4, <1>5, Becomes

LEMMA OrphanedIsGood ==
  ASSUME SessionInv, NEW t \in tab.tasks, t.k \in {"read", "probe"}, Orphaned(t)
  PROVE  Good(tab', started) /\ posts' \subseteq PostSet(started)
<1>1. /\ started \in Nat /\ Sound(Without(t), started) /\ t.s \in 1..started /\ t.n + 1 \in Nat
      /\ t \in Tasks(started)
  BY WithoutIsGood, TaskFacts, SessionFacts DEF Sourceless
<1>2. CASE t.n < Retries
  <2> DEFINE k == t.n + 1
             u == [t EXCEPT !.k = "orphanRetry", !.n = k]
  <2>1. tab' = Later(Without(t), u) /\ posts' = posts
    BY <1>1, <1>2 DEF Orphaned, Tasks
  <2>2. k \in Nat /\ "orphanRetry" \in TaskKinds \ Sourceless /\ "orphanRetry" \notin Recoveries
    BY <1>1 DEF TaskKinds, Sourceless, Recoveries
  <2> HIDE DEF k
  <2>3. t.k \notin Sourceless
    BY DEF Sourceless
  <2>4. Good(Later(Without(t), u), started)
    BY <2>2, <2>3, RenamedIsGood
  <2> QED BY <2>1, <2>4, SessionFacts
<1>3. CASE ~(t.n < Retries)
  <2>1. tab' = Tell(cleanup(markSessionHandled(Without(t)))) /\ Sends(Post("orphan", t.s))
    BY <1>3 DEF Orphaned
  <2>2. Good(Tell(cleanup(markSessionHandled(Without(t)))), started)
    BY <1>1, AbandonedIsGood, TellIsGood
  <2>3. Post("orphan", t.s) \in PostSet(started)
    BY <1>1, SentIsTyped
  <2> QED BY <2>1, <2>2, <2>3, SessionFacts DEF Sends
<1> QED BY <1>2, <1>3

LEMMA PutOnPageIsGood ==
  ASSUME SessionInv, NEW t \in tab.tasks, t.k = "read"
  PROVE  Good(PutOnPage(Without(t), t), started)
<1> DEFINE v == src[t.s]
           c == [Without(t) EXCEPT !.dom[t.s] = v]
<1>1. /\ started \in 0..NSessions /\ Good(Without(t), started)
      /\ t.s \in 1..started /\ t.s \in Sessions /\ t \in Tasks(started)
      /\ srv \in Lists(started) /\ src \in Sources(started)
  BY WithoutIsGood, TaskFacts, SessionFacts DEF Sourceless
<1>2. v \in Int
  BY <1>1 DEF Sources
<1>3. PutOnPage(Without(t), t) = pageChanged(completeInjection(c, t.s, t))
  BY DEF PutOnPage
<1> HIDE DEF v
<1>4. Good(c, started)
  BY <1>1, <1>2, DomIsGood
<1> HIDE DEF c
<1> QED BY <1>1, <1>3, <1>4, CompletedIsGood, ChangedIsGood

LEMMA AwaitedIsGood ==
  ASSUME SessionInv, NEW t \in tab.tasks, t.k = "read"
  PROVE  Good(AwaitAnchor(Without(t), t), started)
<1> DEFINE c == [Without(t) EXCEPT !.st = "GENERATING", !.anchor = t.s]
<1>1. /\ started \in Nat /\ Good(Without(t), started) /\ Without(t) \in Tabs(started)
      /\ t.s \in 0..started /\ "GENERATING" \in States
  BY WithoutIsGood, TaskFacts, SessionFacts DEF Sourceless, States
<1>2. c \in Tabs(started) /\ c.st = "GENERATING" /\ Alike(Without(t), c)
  BY <1>1 DEF Tabs, Alike
<1>3. AwaitAnchor(Without(t), t) = queueCheckpoint(saveSession(Tell(c)))
  BY DEF AwaitAnchor
<1> HIDE DEF c
<1>4. Good(c, started)
  BY <1>1, <1>2, AlikeIsGood
<1> QED BY <1>1, <1>3, <1>4, TellIsGood, SaveIsGood, CheckpointIsGood

LEMMA ReadsKeepSessions ==
  ASSUME SessionInv, NEW t \in tab.tasks, ReadEnds(t) \/ ProbeEnds(t) \/ ReadFails(t)
  PROVE  SessionInv'
<1>1. /\ t.k \in {"read", "probe"} /\ started \in Nat /\ Good(Without(t), started)
      /\ posts \subseteq PostSet(started) /\ UNCHANGED <<srv, src, stream, started>>
      /\ t.k \notin Sourceless /\ t \in Tasks(started)
  BY WithoutIsGood, TaskFacts, SessionFacts DEF ReadEnds, ProbeEnds, ReadFails, Sourceless
<1>2. CASE ReadEnds(t)
  <2>1. \/ Orphaned(t)
        \/ tab' = Without(t) /\ posts' = posts
        \/ tab' = PutOnPage(Without(t), t) /\ posts' = posts
        \/ tab' = AwaitAnchor(Without(t), t) /\ posts' = posts
    BY <1>2 DEF ReadEnds
  <2>2. t.k = "read"
    BY <1>2 DEF ReadEnds
  <2> QED BY <1>1, <2>1, <2>2, OrphanedIsGood, PutOnPageIsGood, AwaitedIsGood, TabPosts
<1>3. CASE ProbeEnds(t)
  <2>1. \/ Orphaned(t)
        \/ tab' = Without(t) /\ posts' = posts
    BY <1>3 DEF ProbeEnds
  <2> QED BY <1>1, <2>1, OrphanedIsGood, TabPosts
<1>4. CASE ReadFails(t)
  <2> DEFINE k == t.n + 1
             u == [t EXCEPT !.k = "orphanRetry", !.n = k]
  <2>1. tab' \in {Tell(Without(t)), Without(t), Later(Without(t), u)} /\ posts' = posts
    BY <1>1, <1>4 DEF ReadFails, Tasks
  <2>2. k \in Nat /\ "orphanRetry" \in TaskKinds \ Sourceless /\ "orphanRetry" \notin Recoveries
    BY <1>1 DEF TaskKinds, Sourceless, Recoveries, Tasks
  <2> HIDE DEF k
  <2>3. Good(Later(Without(t), u), started)
    BY <1>1, <2>2, RenamedIsGood
  <2>4. Good(Tell(Without(t)), started)
    BY <1>1, TellIsGood
  <2> QED BY <1>1, <2>1, <2>3, <2>4, TabPosts
<1> QED BY <1>2, <1>3, <1>4

LEMMA GoneIsGood ==
  ASSUME SessionInv, NEW t \in tab.tasks, t.k \notin Sourceless
  PROVE  Good([Without(t) EXCEPT !.dom[t.s] = Absent], started)
<1>1. /\ started \in 0..NSessions /\ Good(Without(t), started) /\ t.s \in 1..started
  BY WithoutIsGood, TaskFacts, SessionFacts
<1> DEFINE v == Absent
<1>2. v \in Int
  BY DEF Absent
<1> HIDE DEF v
<1>3. Good([Without(t) EXCEPT !.dom[t.s] = v], started)
  BY <1>1, <1>2, DomIsGood
<1> QED BY <1>3 DEF v

LEMMA WatchedOnIsGood ==
  ASSUME SessionInv, NEW t \in tab.tasks, t.k \in Recoveries
  PROVE  Good(Watched(t), started)
<1>1. t.k \notin Sourceless /\ "discardWatch" \in TaskKinds \ Sourceless
      /\ "discardWatch" \notin Recoveries /\ 0 \in Nat
  BY DEF Recoveries, Sourceless, TaskKinds
<1>2. Good(Later(Without(t), [t EXCEPT !.k = "discardWatch"]), started)
  BY <1>1, RenamedIsGood
<1> QED BY <1>2, WithoutIsGood DEF Watched

\* The end of a session's wrapper.
LEMMA RecoveriesKeepSessions ==
  ASSUME SessionInv, NEW t \in tab.tasks,
         \/ AcceptCleanEnds(t) \/ AcceptReloadEnds(t) \/ DiscardCleanEnds(t)
         \/ DiscardReloadEnds(t) \/ DiscardWatchEnds(t) \/ HandledReloadEnds(t)
  PROVE  SessionInv'
<1> DEFINE gone == [Without(t) EXCEPT !.dom[t.s] = Absent]
           first == [Without(t) EXCEPT !.tries[t.s] = 0]
           later(k) == Later(Without(t), [t EXCEPT !.k = k])
<1>1. t.k \notin Sourceless /\ started \in Nat /\ 0 \in Nat
  BY SessionFacts DEF AcceptCleanEnds, AcceptReloadEnds, DiscardCleanEnds, DiscardReloadEnds,
       DiscardWatchEnds, HandledReloadEnds, Sourceless
<1>2. Good(Without(t), started) /\ Good(gone, started)
  BY <1>1, WithoutIsGood, GoneIsGood
<1>3. Good(first, started)
  <2> DEFINE z == 0
             q == [Without(t).tries EXCEPT ![t.s] = z]
             c == [Without(t) EXCEPT !.tries = q]
  <2>1. Without(t) \in Tabs(started) /\ z \in Int
    BY WithoutIsGood
  <2>2. first = c
    BY <2>1 DEF Tabs
  <2> HIDE DEF z
  <2>3. q \in [Sessions -> Int]
    BY <2>1 DEF Tabs
  <2> HIDE DEF q
  <2>4. c \in Tabs(started) /\ c.st = Without(t).st /\ Alike(Without(t), c)
    BY <2>1, <2>3 DEF Tabs, Alike
  <2> HIDE DEF c
  <2> QED BY <1>1, <1>2, <2>2, <2>4, AlikeIsGood
<1>4. t.k \in Recoveries => Good(Watched(t), started)
  BY WatchedOnIsGood
<1>5. t.k \in Recoveries => Good(later("acceptReload"), started) /\ Good(later("discardReload"), started)
  <2>1. "acceptReload" \in TaskKinds \ Sourceless /\ "discardReload" \in TaskKinds \ Sourceless
    BY DEF TaskKinds, Recoveries, Sourceless
  <2> QED BY <1>1, <2>1, RenamedIsGood
<1> HIDE DEF gone, first, later
<1>6. CASE \E by : Reload(by)
  BY <1>6, ReloadKeepsSessions
<1>7. CASE AcceptCleanEnds(t) /\ ~\E by : Reload(by)
  <2>1. t.k \in Recoveries /\ \E b \in {Without(t), later("acceptReload"), gone} : Become(b)
    BY <1>7 DEF AcceptCleanEnds, Recoveries, later, gone
  <2> QED BY <1>2, <1>5, <2>1, Becomes
<1>8. CASE AcceptReloadEnds(t) /\ ~\E by : Reload(by)
  BY <1>2, <1>8, Becomes DEF AcceptReloadEnds
<1>9. CASE DiscardCleanEnds(t)
  <2>1. t.k \in Recoveries /\ \E b \in {Without(t), later("discardReload"), gone, Watched(t)} : Become(b)
    BY <1>9 DEF DiscardCleanEnds, Recoveries, later, gone
  <2> QED BY <1>2, <1>4, <1>5, <2>1, Becomes
<1>10. CASE DiscardReloadEnds(t) /\ ~\E by : Reload(by)
  <2>1. t.k \in Recoveries /\ \E b \in {Without(t), Watched(t)} : Become(b)
    BY <1>10 DEF DiscardReloadEnds, Recoveries
  <2> QED BY <1>2, <1>4, <2>1, Becomes
<1>11. CASE DiscardWatchEnds(t) /\ ~\E by : Reload(by)
  BY <1>2, <1>11, Becomes DEF DiscardWatchEnds
<1>12. CASE HandledReloadEnds(t) /\ ~\E by : Reload(by)
  <2>1. Become(first)
    BY <1>12 DEF HandledReloadEnds, first
  <2> QED BY <1>3, <2>1, Becomes
<1> QED BY <1>6, <1>7, <1>8, <1>9, <1>10, <1>11, <1>12

-----------------------------------------------------------------------------
(* Sessions: the agent, the source files and the page *)

\* A session with a phase, or with a wrapper in the source, is known.
LEMMA PhasesAreOfKnown ==
  ASSUME SessionInv, NEW s \in Sessions
  PROVE  /\ srv[s] # "none" => s \in 1..started
         /\ src[s] # Absent => s \in 1..started
         /\ tab.dom[s] # Absent => s \in 1..started
<1>1. started \in Nat /\ s \in Int /\ s >= 1
  BY SessionFacts DEF Sessions
<1>2. /\ s > started => srv[s] = "none" /\ src[s] = Absent /\ tab.dom[s] = Absent
  BY SessionFacts DEF Lists, Sources, Sound
<1> QED BY <1>1, <1>2

LEMMA BroadcastIsTyped ==
  ASSUME SessionInv, NEW ev \in {"progress", "done", "complete", "discarded", "error"},
         NEW s \in 1..started, Broadcast(ev, s)
  PROVE  stream' \in Seq(EventSet(started))
<1>1. Event(ev, s, Unheard) \in EventSet(started)
  <2>1. Unheard \in Lists(started)
    BY SessionFacts, ListingsAreKnown
  <2>2. s \in 0..started /\ s # None
    BY SessionFacts DEF None
  <2> QED BY <2>1, <2>2 DEF Event, EventSet
<1>2. stream' = Append(stream, Event(ev, s, Unheard)) \/ stream' = stream
  BY DEF Broadcast
<1> QED BY <1>1, <1>2, SessionFacts

LEMMA PhaseIsKnown ==
  ASSUME SessionInv, NEW s \in 1..started, NEW p \in SrvPhases, Phase(s, p)
  PROVE  srv' \in Lists(started)
<1>1. s \in Sessions /\ s <= started /\ started \in Nat /\ s \in Int
  BY SessionFacts DEF Sessions
<1> QED BY <1>1, SessionFacts DEF Phase, Lists

LEMMA SourceIsKnown ==
  ASSUME SessionInv, NEW s \in 1..started, NEW n \in Int, WithSource(s, n)
  PROVE  src' \in Sources(started)
<1>1. s \in Sessions /\ s <= started /\ started \in Nat /\ s \in Int
  BY SessionFacts DEF Sessions
<1> QED BY <1>1, SessionFacts DEF WithSource, Sources

\* The server and the files change, and the tab may be told.
LEMMA WorldStep ==
  ASSUME SessionInv, srv' \in Lists(started), src' \in Sources(started),
         stream' \in Seq(EventSet(started)), UNCHANGED <<tab, posts, started>>
  PROVE  SessionInv'
  BY DEF SessionInv

LEMMA AgentKeepsSessions ==
  ASSUME SessionInv, Agent
  PROVE  SessionInv'
<1>1. PICK s \in Sessions :
        \/ AgentWrites(s) \/ AgentEnds(s) \/ AgentFails(s) \/ Promotes(s) \/ Removes(s)
        \/ EditedAway(s) \/ HotReload(s) \/ Unmounts(s)
  BY DEF Agent
<1>2. /\ started \in 0..NSessions /\ srv \in Lists(started) /\ src \in Sources(started)
      /\ stream \in Seq(EventSet(started)) /\ Good(tab, started) /\ src[s] \in Int
      /\ tab \in Tabs(started)
  BY SessionFacts DEF Sources
<1> DEFINE none == Absent
<1>3. none \in Int /\ none = Absent
  BY DEF Absent
<1> HIDE DEF none
<1>4. CASE AgentWrites(s)
  <2> DEFINE n == src[s] + 1
  <2>1. s \in 1..started /\ n \in Int
    BY <1>2, <1>4, PhasesAreOfKnown DEF AgentWrites
  <2>2. WithSource(s, n) /\ Broadcast("progress", s) /\ UNCHANGED <<srv, tab, posts, started>>
    BY <1>4 DEF AgentWrites
  <2> HIDE DEF n
  <2> QED BY <1>2, <2>1, <2>2, SourceIsKnown, BroadcastIsTyped, WorldStep
<1>5. CASE AgentEnds(s)
  <2>1. s \in 1..started /\ "ready" \in SrvPhases
    BY <1>5, PhasesAreOfKnown DEF AgentEnds, SrvPhases
  <2>2. Phase(s, "ready") /\ Broadcast("done", s) /\ UNCHANGED <<src, tab, posts, started>>
    BY <1>5 DEF AgentEnds
  <2> QED BY <1>2, <2>1, <2>2, PhaseIsKnown, BroadcastIsTyped, WorldStep
<1>6. CASE AgentFails(s)
  <2>1. s \in 1..started /\ "failed" \in SrvPhases
    BY <1>6, PhasesAreOfKnown DEF AgentFails, SrvPhases
  <2>2. Phase(s, "failed") /\ Broadcast("error", s) /\ UNCHANGED <<src, tab, posts, started>>
    BY <1>6 DEF AgentFails
  <2> QED BY <1>2, <2>1, <2>2, PhaseIsKnown, BroadcastIsTyped, WorldStep
<1>7. CASE Promotes(s)
  <2>1. s \in 1..started /\ "completed" \in SrvPhases
    BY <1>7, PhasesAreOfKnown DEF Promotes, SrvPhases
  <2>2. /\ Phase(s, "completed") /\ WithSource(s, none) /\ Broadcast("complete", s)
        /\ UNCHANGED <<tab, posts, started>>
    BY <1>3, <1>7 DEF Promotes
  <2> QED BY <1>3, <2>1, <2>2, PhaseIsKnown, SourceIsKnown, BroadcastIsTyped, WorldStep
<1>8. CASE Removes(s)
  <2>1. s \in 1..started
    BY <1>8, PhasesAreOfKnown DEF Removes
  <2>2. WithSource(s, none) /\ Broadcast("discarded", s) /\ UNCHANGED <<srv, tab, posts, started>>
    BY <1>3, <1>8 DEF Removes
  <2> QED BY <1>2, <1>3, <2>1, <2>2, SourceIsKnown, BroadcastIsTyped, WorldStep
<1>9. CASE EditedAway(s)
  <2>1. s \in 1..started
    BY <1>9, PhasesAreOfKnown DEF EditedAway
  <2>2. WithSource(s, none) /\ UNCHANGED <<srv, tab, posts, stream, started>>
    BY <1>3, <1>9 DEF EditedAway
  <2> QED BY <1>2, <1>3, <2>1, <2>2, SourceIsKnown, WorldStep
<1>10. CASE HotReload(s)
  <2> DEFINE v == src[s]
             c == [tab EXCEPT !.dom[s] = v]
  <2>1. s \in 1..started
    BY <1>10, PhasesAreOfKnown DEF HotReload
  <2>2. Become(pageChanged(c))
    BY <1>10 DEF HotReload
  <2>3. v \in Int
    BY <1>2
  <2> HIDE DEF v
  <2>4. Good(c, started)
    BY <1>2, <2>1, <2>3, DomIsGood
  <2> HIDE DEF c
  <2> QED BY <1>2, <2>2, <2>4, ChangedIsGood, Becomes
<1>11. CASE Unmounts(s)
  <2> DEFINE c == [tab EXCEPT !.dom[s] = none]
  <2>1. s \in 1..started
    BY <1>11, PhasesAreOfKnown DEF Unmounts
  <2>2. tab' = c /\ UNCHANGED <<srv, src, posts, stream, started>>
    BY <1>3, <1>11 DEF Unmounts
  <2>3. Good(c, started)
    BY <1>2, <1>3, <2>1, DomIsGood
  <2> QED BY <2>2, <2>3, TabStep
<1> QED BY <1>1, <1>4, <1>5, <1>6, <1>7, <1>8, <1>9, <1>10, <1>11

-----------------------------------------------------------------------------
(* Sessions: what follows *)

LEMMA SessionInitial == Init => SessionInv
<1> SUFFICES ASSUME Init PROVE SessionInv
  OBVIOUS
<1> DEFINE z == 0
           tries == [s \in Sessions |-> z]
           f == [st |-> "PICKING", cur |-> None, rev |-> z, arrived |-> z, file |-> FALSE,
                 pend |-> None, awaiting |-> None, observed |-> None, anchor |-> None,
                 scout |-> TRUE, tasks |-> {}, told |-> FALSE, late |-> FALSE, dom |-> Blank,
                 saved |-> NotSaved, handled |-> <<>>, tries |-> tries]
<1>1. tab = f
  BY DEF Init, Fresh
<1>2. /\ started = z /\ z \in Nat /\ z \in Int /\ z \in 0..NSessions
      /\ srv = [s \in Sessions |-> "none"] /\ src = Blank /\ posts = {} /\ stream = <<>>
  BY TabAssumption DEF Init
<1>3. {"IDLE", "PICKING"} \subseteq States /\ None \in 0..z
  BY DEF States, None
<1> HIDE DEF z
<1>4. Blank \in Sources(z) /\ Blank \in [Sessions -> Int] /\ \A s \in Sessions : Blank[s] = Absent
  BY DEF Blank, Sources, Absent
<1>5. srv \in Lists(z)
  BY <1>2 DEF Lists, SrvPhases
<1>6. NotSaved \in Records(z)
  BY <1>3 DEF NotSaved, Records
<1>7. tries \in [Sessions -> Int]
  BY <1>2
<1> HIDE DEF tries
<1>8. <<>> \in Seq(1..z) /\ ListedOnce(<<>>) /\ <<>> \in Seq(EventSet(z))
  BY DEF ListedOnce
<1>9. f \in Tabs(z)
  BY <1>2, <1>3, <1>4, <1>6, <1>7, <1>8 DEF Tabs
<1>10. Good(f, z)
  BY <1>4, <1>8, <1>9 DEF Good, Sound, Settled, CurIsOpen
<1> QED BY <1>1, <1>2, <1>4, <1>5, <1>8, <1>10 DEF SessionInv

LEMMA SessionStepsKeepSessions ==
  ASSUME SessionInv, [Next]_vars
  PROVE  SessionInv'
<1>1. CASE User
  BY <1>1, PickKeepsSessions, CancelKeepsSessions, GoKeepsSessions, AcceptKeepsSessions,
     DiscardKeepsSessions, ReloadKeepsSessions DEF User, UserReloads
<1>2. CASE Network
  BY <1>2, ConnectionKeepsSessions, GiveUpKeepsSessions, ServeKeepsSessions, LoseKeepsSessions
  DEF Network
<1>3. CASE Agent
  BY <1>3, AgentKeepsSessions
<1>4. CASE Deliver
  BY <1>4, DeliverKeepsSessions
<1>5. CASE \E p \in posts : Answer(p)
  BY <1>5, AnswerKeepsSessions
<1>6. ASSUME NEW t \in tab.tasks, Ends(t) \/ ReadFails(t) PROVE SessionInv'
  BY <1>6, CaptureKeepsSessions, PlainTimersKeepSessions, SettleAndRetryKeepSessions,
     ReadsKeepSessions, RecoveriesKeepSessions DEF Ends
<1>7. CASE UNCHANGED vars
  BY <1>7 DEF vars, SessionInv
<1> QED BY <1>1, <1>2, <1>3, <1>4, <1>5, <1>6, <1>7 DEF Next

\* A session that was accepted, discarded or given up is never taken up again, however many
\* sessions, page loads and hot reloads there are, and however few handled ids are kept.
THEOREM HandledSessionsAreOver == Spec => []HandledIsOver
<1>1. SessionInv => HandledIsOver
  BY DEF SessionInv, Good, CurIsOpen, HandledIsOver
<1> QED BY <1>1, SessionInitial, SessionStepsKeepSessions, PTL DEF Spec

-----------------------------------------------------------------------------
(* Page loads *)

\* The page loads a recovery asks for are of its own session, and nothing newer is under way.
LEMMA RecoveriesWait ==
  ASSUME SessionInv, NEW t \in tab.tasks, Ends(t), loads' # loads
  PROVE  /\ loads'.by = t.s
         /\ tab.st # "CONFIGURING" /\ tab.cur \in {None, t.s}
<1>1. \/ AcceptCleanEnds(t) /\ Reload(t.s) /\ ~Superseded(tab, t.s, t.rev)
      \/ AcceptReloadEnds(t) /\ Reload(t.s) /\ ~Superseded(tab, t.s, t.rev)
      \/ DiscardReloadEnds(t) /\ Reload(t.s) /\ ~Superseded(tab, t.s, t.rev)
      \/ HandledReloadEnds(t) /\ Reload(t.s) /\ ~Superseded(tab, t.s, t.rev)
      \/ DiscardWatchEnds(t) /\ Reload(t.s) /\ Quiet
  <2>1. CASE \/ CaptureEnds(t) \/ CheckpointEnds(t) \/ SettleEnds(t) \/ MissingEnds(t)
             \/ RetryEnds(t) \/ ReadEnds(t) \/ ProbeEnds(t) \/ WatchEnds(t)
             \/ DiscardCleanEnds(t)
    BY <2>1 DEF CaptureEnds, CheckpointEnds, SettleEnds, MissingEnds, RetryEnds, ReadEnds,
         ProbeEnds, WatchEnds, DiscardCleanEnds, Become
  <2>2. CASE AcceptCleanEnds(t)
    BY <2>2 DEF AcceptCleanEnds, Become
  <2>3. CASE AcceptReloadEnds(t)
    BY <2>3 DEF AcceptReloadEnds, Become
  <2>4. CASE DiscardReloadEnds(t)
    BY <2>4 DEF DiscardReloadEnds, Become
  <2>5. CASE HandledReloadEnds(t)
    BY <2>5 DEF HandledReloadEnds, Become
  <2>6. CASE DiscardWatchEnds(t)
    BY <2>6 DEF DiscardWatchEnds, Become
  <2> QED BY <2>1, <2>2, <2>3, <2>4, <2>5, <2>6 DEF Ends
<1>2. loads'.by = t.s
  BY <1>1 DEF Reload
<1>3. CASE DiscardWatchEnds(t) /\ Quiet
  BY <1>2, <1>3 DEF Quiet
<1>4. CASE ~Superseded(tab, t.s, t.rev) /\ t.k \in Recoveries
  <2>1. t.rev = tab.rev /\ tab.cur \in {None, t.s}
    BY <1>4 DEF Superseded
  <2>2. t.k \notin Sourceless
    BY <1>4 DEF Recoveries, Sourceless
  <2>3. t.rev \in Nat /\ (tab.st = "CONFIGURING" => t.rev < tab.rev)
    BY <1>4, <2>2, TaskFacts
  <2> QED BY <1>2, <2>1, <2>3
<1> QED BY <1>1, <1>3, <1>4
    DEF AcceptCleanEnds, AcceptReloadEnds, DiscardReloadEnds, HandledReloadEnds, Recoveries

LEMMA OnlyReloadsLoad ==
  ASSUME [Next]_vars, loads' # loads, loads'.by # None
  PROVE  \E t \in tab.tasks : Ends(t)
<1>1. ~UNCHANGED vars
  BY DEF vars
<1>2. ~User
  BY DEF User, Pick, CancelConfigure, Go, handleAccept, handleDiscard, UserReloads, Reload, Become
<1>3. ~Network
  BY DEF Network, Connect, Disconnect, GiveUp, Serve, Lose
<1>4. ~Agent
  BY DEF Agent, AgentWrites, AgentEnds, AgentFails, Promotes, Removes, EditedAway, HotReload,
     Unmounts, Become
<1>5. ~Deliver /\ ~\E p \in posts : Answer(p)
  BY DEF Deliver, Answer
<1>6. \A t \in tab.tasks : ~ReadFails(t)
  BY DEF ReadFails
<1> QED BY <1>1, <1>2, <1>3, <1>4, <1>5, <1>6 DEF Next

\* No page load the script asks for, minutes after an accept or a discard, takes a
\* configuration or another session from the user.
THEOREM RecoveriesInterruptNothing == Spec => RecoveryInterruptsNothing
<1>1. SessionInv /\ [Next]_vars
      => [loads' # loads /\ loads'.by # None =>
             tab.st # "CONFIGURING" /\ tab.cur \in {None, loads'.by}]_vars
  BY OnlyReloadsLoad, RecoveriesWait
<1> QED BY <1>1, SessionInitial, SessionStepsKeepSessions, PTL
    DEF Spec, RecoveryInterruptsNothing

-----------------------------------------------------------------------------
(* Ended generations: the invariant *)

\* The record in storage is that of the session the tab is in; one left by a page load that
\* took no session up is not to be restored.
Kept(b) ==
    IF b.cur # None THEN b.saved.id = b.cur
    ELSE b.saved.id = None \/ isHandled(b, b.saved.id) \/ b.saved.st \notin {"GENERATING", "CYCLING"}

\* The scout waits for the first wrapper, so that of the tab's session is not there yet.
ScoutWaits(b) == b.scout /\ b.cur # None => b.dom[b.cur] = Absent

RetriesAreDone(b) == \A t \in b.tasks : t.k = "retry" => t.done

Tidy(b) == Kept(b) /\ ScoutWaits(b) /\ RetriesAreDone(b)

\* The end of session s is announced by the events q.
Announced(q, s)   == \E i \in DOMAIN q : q[i].ev = "done" /\ q[i].s = s
ListedReady(q, s) == \E i \in DOMAIN q : q[i].listed[s] = "ready"

\* A list of sessions is the first event there is, and misses no end that is not announced.
StreamInv ==
    /\ conn # "open" => stream = <<>>
    /\ \A i \in DOMAIN stream : /\ stream[i].ev = "connected" => i = 1
                                /\ stream[i].ev # "connected" => stream[i].listed = Unheard
    /\ stream # <<>> /\ stream[1].ev = "connected" =>
         \A s \in Sessions : srv[s] = "ready" => stream[1].listed[s] = "ready" \/ Announced(stream, s)

\* What has ended is complete in the source, or was taken out of it.
SourceInv == \A s \in Sessions : srv[s] = "ready" => src[s] \in {Variants, Absent}

Waiting(b) == b.st = "GENERATING" /\ b.cur # None /\ ~b.told
Ready(s)   == srv[s] = "ready" /\ src[s] # Absent

\* The tasks that end the wait of the tab.
Chases(b, t) ==
    \/ t.k = "missing" /\ t.s = None
    \/ t.s = b.cur /\ (t.k = "settle" \/ t.k = IF framework THEN "retry" ELSE "read")

\* What is read, or waited for, is of the session of the tab.
Ours(b) == (\A t \in b.tasks : t.k = "read" => t.s = b.cur) /\ b.anchor \in {None, b.cur}

\* A page of HTML that restored a session with all its variants reads them, or has heard of
\* their end, before a read of an older session can take them away.
AllCounted(b, q) ==
    ~framework /\ Waiting(b) /\ b.arrived >= Variants =>
       \/ Ours(b)
       \/ /\ conn = "open"
          /\ Ready(b.cur) => Announced(q, b.cur) \/ \E t \in b.tasks : t.k = "read" /\ t.s = b.cur

Chased(b, q) ==
    Waiting(b) /\ ~b.late /\ b.arrived < Variants /\ conn = "open" /\ Ready(b.cur) =>
       Announced(q, b.cur) \/ ListedReady(q, b.cur) \/ \E t \in b.tasks : Chases(b, t)

Followed(b, q) == AllCounted(b, q) /\ Chased(b, q)

PursuitInv == Tidy(tab) /\ StreamInv /\ SourceInv /\ Followed(tab, stream)

LEMMA PursuitIsEnough == PursuitInv => EndedGenerationIsPursued
<1> SUFFICES ASSUME PursuitInv, Waiting(tab), ~tab.late, tab.arrived < Variants, conn = "open",
                    Ready(tab.cur)
             PROVE  \/ \E i \in DOMAIN stream :
                         \/ stream[i].ev = "done" /\ stream[i].s = tab.cur
                         \/ stream[i].listed[tab.cur] = "ready"
                    \/ \E t \in tab.tasks : Pursues(t)
  BY DEF EndedGenerationIsPursued, Waiting, Ready
<1>1. Announced(stream, tab.cur) \/ ListedReady(stream, tab.cur) \/ \E t \in tab.tasks : Chases(tab, t)
  BY DEF PursuitInv, Followed, Chased
<1> QED BY <1>1 DEF Announced, ListedReady, Chases, Pursues

-----------------------------------------------------------------------------
(* Ended generations: what changes nothing *)

\* The tabs differ in nothing the invariant looks at, but in tasks.
Same(b, c) ==
    /\ c.st = b.st /\ c.cur = b.cur /\ c.told = b.told /\ c.late = b.late
    /\ c.arrived = b.arrived /\ c.anchor = b.anchor
    /\ c.saved = b.saved /\ c.handled = b.handled /\ c.scout = b.scout /\ c.dom = b.dom

Telling == {"missing", "settle", "retry", "read"}

\* Nor in tasks that matter.
Kin(b, c) ==
    /\ Same(b, c)
    /\ \A t \in c.tasks : t.k \in Telling => t \in b.tasks
    /\ \A t \in b.tasks : t.k \in Telling => t \in c.tasks

\* The tab c has let the session of b go.
Over(b, c) ==
    /\ c.cur = None /\ c.saved.id = None
    /\ \A t \in c.tasks : t \in b.tasks \/ t.k # "retry"

LEMMA SameIsTidy ==
  ASSUME NEW b, NEW c, Tidy(b), Same(b, c),
         \A t \in c.tasks : t \in b.tasks \/ (t.k = "retry" => t.done)
  PROVE  Tidy(c)
  BY DEF Tidy, Kept, ScoutWaits, RetriesAreDone, Same, isHandled

\* No task that chases the end is lost, and no read of another session is new.
LEMMA SameIsFollowed ==
  ASSUME NEW b, NEW c, NEW q, Followed(b, q), Same(b, c),
         \A t \in b.tasks : Chases(b, t) => t \in c.tasks,
         \A t \in c.tasks : t.k = "read" => t \in b.tasks \/ t.s = b.cur
  PROVE  Followed(c, q)
<1>1. AllCounted(c, q)
  <2> SUFFICES ASSUME ~framework, Waiting(c), c.arrived >= Variants
               PROVE  \/ Ours(c)
                      \/ /\ conn = "open"
                         /\ Ready(c.cur) => \/ Announced(q, c.cur)
                                            \/ \E t \in c.tasks : t.k = "read" /\ t.s = c.cur
    BY DEF AllCounted
  <2>1. Waiting(b) /\ b.arrived >= Variants
    BY DEF Same, Waiting
  <2>2. CASE Ours(b)
    BY <2>2 DEF Ours, Same
  <2>3. CASE /\ conn = "open"
             /\ Ready(b.cur) => Announced(q, b.cur) \/ \E t \in b.tasks : t.k = "read" /\ t.s = b.cur
    BY <2>3 DEF Same, Chases
  <2> QED BY <2>1, <2>2, <2>3 DEF Followed, AllCounted
<1>2. Chased(c, q)
  BY DEF Followed, Chased, Same, Waiting, Chases
<1> QED BY <1>1, <1>2 DEF Followed

LEMMA KinIsTidy ==
  ASSUME NEW b, NEW c, Kin(b, c)
  PROVE  /\ Tidy(b) => Tidy(c)
         /\ \A q : Followed(b, q) => Followed(c, q)
<1>1. Tidy(b) => Tidy(c)
  BY SameIsTidy DEF Kin, Telling
<1>2. ASSUME NEW q, Followed(b, q) PROVE Followed(c, q)
  <2>1. \A t \in b.tasks : Chases(b, t) => t \in c.tasks
    BY DEF Kin, Telling, Chases
  <2> QED BY <1>2, <2>1, SameIsFollowed DEF Kin, Telling
<1> QED BY <1>1, <1>2

LEMMA KinOfKin ==
  ASSUME NEW b, NEW c, NEW d, Kin(b, c), Kin(c, d)
  PROVE  Kin(b, d)
  BY DEF Kin, Same

LEMMA CalmIsFollowed ==
  ASSUME NEW b, ~Waiting(b), NEW q
  PROVE  Followed(b, q)
  BY DEF Followed, AllCounted, Chased

LEMMA OverIsTidy ==
  ASSUME NEW b, NEW c, RetriesAreDone(b), Over(b, c)
  PROVE  Tidy(c) /\ ~Waiting(c)
  BY DEF Over, Tidy, Kept, ScoutWaits, RetriesAreDone, Waiting

-----------------------------------------------------------------------------
(* Ended generations: the handlers of a tab *)

LEMMA TaskFields ==
  ASSUME NEW k, NEW s, NEW rev, NEW n, NEW done, NEW orphan
  PROVE  /\ Task(k, s, rev, n, done, orphan).k = k /\ Task(k, s, rev, n, done, orphan).s = s
         /\ Task(k, s, rev, n, done, orphan).done = done
         /\ Timer(k, s, rev).k = k /\ Timer(k, s, rev).s = s
  BY DEF Task, Timer

LEMMA LaterIsSame ==
  ASSUME NEW m \in Nat, NEW b \in Tabs(m), NEW t
  PROVE  /\ Same(b, Later(b, t)) /\ Later(b, t).tasks = b.tasks \cup {t}
         /\ t.k \notin Telling => Kin(b, Later(b, t))
<1>1. Same(b, Later(b, t)) /\ Later(b, t).tasks = b.tasks \cup {t}
  BY DEF Later, Same, Tabs
<1> QED BY <1>1 DEF Kin

LEMMA CheckpointIsKin ==
  ASSUME NEW m \in Nat, NEW b \in Tabs(m)
  PROVE  Kin(b, queueCheckpoint(b))
<1>1. Kin(b, b)
  BY DEF Kin, Same
<1>2. Timer("checkpoint", None, 0).k \notin Telling
  BY TaskFields DEF Telling
<1> QED BY <1>1, <1>2, LaterIsSame DEF queueCheckpoint

\* Saving a session whose record is there, or is not kept, keeps it.
LEMMA SavedIsTidy ==
  ASSUME NEW m \in Nat, NEW b \in Tabs(m)
  PROVE  /\ saveSession(b).st = b.st /\ saveSession(b).cur = b.cur /\ saveSession(b).told = b.told
         /\ saveSession(b).late = b.late /\ saveSession(b).arrived = b.arrived
         /\ saveSession(b).anchor = b.anchor /\ saveSession(b).handled = b.handled
         /\ saveSession(b).scout = b.scout /\ saveSession(b).dom = b.dom
         /\ saveSession(b).tasks = b.tasks /\ saveSession(b).file = b.file
         /\ b.cur # None => saveSession(b).saved.id = b.cur
         /\ b.cur = None => saveSession(b) = b
<1> DEFINE r == [id |-> b.cur, st |-> b.st, arrived |-> b.arrived, file |-> b.file]
<1>1. saveSession(b) = IF b.cur = None THEN b ELSE [b EXCEPT !.saved = r]
  BY DEF saveSession
<1>2. r.id = b.cur
  OBVIOUS
<1> HIDE DEF r
<1> QED BY <1>1, <1>2 DEF Tabs

LEMMA SavingKeeps ==
  ASSUME NEW m \in Nat, NEW b \in Tabs(m), NEW q
  PROVE  /\ ScoutWaits(b) /\ RetriesAreDone(b) /\ (b.cur = None => Kept(b)) => Tidy(saveSession(b))
         /\ Waiting(saveSession(b)) <=> Waiting(b)
         /\ Followed(b, q) => Followed(saveSession(b), q)
<1>1. Tidy(saveSession(b)) <=> Kept(saveSession(b)) /\ ScoutWaits(b) /\ RetriesAreDone(b)
  BY SavedIsTidy DEF Tidy, ScoutWaits, RetriesAreDone
<1>2. b.cur # None => Kept(saveSession(b))
  BY SavedIsTidy DEF Kept
<1>3. b.cur = None => saveSession(b) = b
  BY SavedIsTidy
<1>4. Waiting(saveSession(b)) <=> Waiting(b)
  BY SavedIsTidy DEF Waiting
<1>5. AllCounted(b, q) => AllCounted(saveSession(b), q)
  BY <1>4, SavedIsTidy DEF AllCounted, Ours
<1>6. Chased(b, q) => Chased(saveSession(b), q)
  BY <1>4, SavedIsTidy DEF Chased, Chases
<1> QED BY <1>1, <1>2, <1>3, <1>4, <1>5, <1>6 DEF Followed

LEMMA TellingIsCalm ==
  ASSUME NEW m \in Nat, NEW b \in Tabs(m)
  PROVE  /\ Tidy(b) => Tidy(Tell(b))
         /\ ~Waiting(Tell(b))
<1>1. /\ Tell(b).cur = b.cur /\ Tell(b).saved = b.saved /\ Tell(b).handled = b.handled
      /\ Tell(b).scout = b.scout /\ Tell(b).dom = b.dom /\ Tell(b).tasks = b.tasks
      /\ Tell(b).told
  BY DEF Tell, Tabs
<1> QED BY <1>1 DEF Tidy, Kept, ScoutWaits, RetriesAreDone, Waiting, isHandled

LEMMA StateIsTidy ==
  ASSUME NEW m \in Nat, NEW b \in Tabs(m), NEW st
  PROVE  /\ Tidy(b) => Tidy(setLiveState(b, st))
         /\ st # "GENERATING" => ~Waiting(setLiveState(b, st))
         /\ setLiveState(b, st).cur = b.cur
<1>1. LET c == setLiveState(b, st)
      IN  /\ c.cur = b.cur /\ c.saved = b.saved /\ c.handled = b.handled
          /\ c.scout = b.scout /\ c.dom = b.dom /\ c.tasks = b.tasks /\ c.st = st
  BY DEF setLiveState, Tabs
<1> QED BY <1>1 DEF Tidy, Kept, ScoutWaits, RetriesAreDone, Waiting, isHandled

LEMMA ReleasedIsOver ==
  ASSUME NEW m \in Nat, NEW b, Sound(b, m)
  PROVE  /\ Release(b).cur = None /\ Release(b).saved.id = None /\ Release(b).tasks = b.tasks
         /\ Release(b) \in Tabs(m)
<1> DEFINE c == [b EXCEPT !.saved = NotSaved, !.observed = None]
           d == [c EXCEPT !.file = FALSE, !.cur = None]
<1>1. b \in Tabs(m)
  BY DEF Sound
<1>2. NotSaved.id = None
  BY DEF NotSaved
<1>3. Release(b) = [d EXCEPT !.st = "PICKING"]
  BY <1>1 DEF Release, clearSession, Tabs
<1>4. DOMAIN c = DOMAIN b /\ c.saved = NotSaved
  BY <1>1 DEF Tabs
<1>5. Release(b).saved = c.saved
  <2> HIDE DEF c
  <2> QED BY <1>1, <1>3, <1>4 DEF Tabs
<1> QED BY <1>2, <1>4, <1>5, ReleasedIsGood DEF Good, Sound

LEMMA CleanedIsOver ==
  ASSUME NEW m \in Nat, NEW b, Sound(b, m)
  PROVE  Over(b, cleanup(b)) /\ cleanup(b) \in Tabs(m)
<1> DEFINE c == [Release(b) EXCEPT !.anchor = None]
           t == Timer("discardClean", b.cur, b.rev)
<1>1. /\ Release(b).cur = None /\ Release(b).saved.id = None /\ Release(b).tasks = b.tasks
      /\ Release(b) \in Tabs(m) /\ None \in 0..m
  BY ReleasedIsOver, NoneIsKnown
<1>2. c \in Tabs(m) /\ c.cur = None /\ c.saved.id = None /\ c.tasks = b.tasks
  <2> DEFINE r == Release(b)
  <2> HIDE DEF r
  <2>1. r \in Tabs(m) /\ c = [r EXCEPT !.anchor = None]
    BY <1>1 DEF r
  <2>2. c \in Tabs(m) /\ c.cur = r.cur /\ c.saved = r.saved /\ c.tasks = r.tasks
    BY <1>1, <2>1 DEF Tabs
  <2> QED BY <1>1, <2>2 DEF r
<1>3. cleanup(b) = IF b.cur = None THEN c ELSE Later(c, t)
  BY DEF cleanup
<1>4. t.k = "discardClean"
  BY TaskFields
<1>5. cleanup(b) \in Tabs(m)
  BY CleanedIsGood DEF Good, Sound
<1> HIDE DEF c, t
<1>6. Same(c, Later(c, t)) /\ Later(c, t).tasks = c.tasks \cup {t}
  BY <1>2, LaterIsSame
<1>7. CASE b.cur = None
  BY <1>2, <1>3, <1>5, <1>7 DEF Over
<1>8. CASE b.cur # None
  BY <1>2, <1>3, <1>4, <1>5, <1>6, <1>8 DEF Over, Same
<1> QED BY <1>7, <1>8

LEMMA EmptyCyclingIsOver ==
  ASSUME NEW m \in Nat, NEW b, Sound(b, m)
  PROVE  Over(b, recoverEmptyCycling(b))
<1> DEFINE c == cleanup(b)
<1>1. Over(b, c) /\ c \in Tabs(m)
  BY CleanedIsOver
<1> HIDE DEF c
<1>2. Tell(c).cur = c.cur /\ Tell(c).saved = c.saved /\ Tell(c).tasks = c.tasks
  BY <1>1 DEF Tell, Tabs
<1>3. recoverEmptyCycling(b) = Tell(c)
  BY DEF recoverEmptyCycling, c
<1> QED BY <1>1, <1>2, <1>3 DEF Over

LEMMA AbandonedIsOver ==
  ASSUME NEW m \in Nat, NEW b, Sound(b, m)
  PROVE  /\ Over(b, cleanup(markSessionHandled(b)))
         /\ Over(b, abandonForeignSession(b))
         /\ Over(b, Tell(cleanup(markSessionHandled(b))))
<1> DEFINE h == markSessionHandled(b)
           c == cleanup(h)
<1>1. Sound(h, m) /\ h.tasks = b.tasks
  BY MarkedIsSound
<1>2. Over(h, c) /\ c \in Tabs(m)
  BY <1>1, CleanedIsOver
<1>3. abandonForeignSession(b) = Tell(c)
  BY DEF abandonForeignSession
<1> HIDE DEF h, c
<1>4. Tell(c).cur = c.cur /\ Tell(c).saved = c.saved /\ Tell(c).tasks = c.tasks
  BY <1>2 DEF Tell, Tabs
<1>5. Over(b, c) /\ Over(b, Tell(c))
  BY <1>1, <1>2, <1>4 DEF Over
<1> QED BY <1>3, <1>5 DEF c, h

LEMMA ScheduledIsKin ==
  ASSUME NEW m \in Nat, NEW b \in Tabs(m), NEW s, NEW rev
  PROVE  Kin(b, scheduleReload(b, s, rev))
<1> DEFINE n == b.tries[s] + 1
           f == [b.tries EXCEPT ![s] = n]
           c == [b EXCEPT !.tries = f]
           t == Timer("handledReload", s, rev)
<1>1. scheduleReload(b, s, rev) = IF MayReload(b, s, rev) THEN Later(c, t) ELSE b
  BY DEF scheduleReload, Tabs
<1>2. t.k \notin Telling
  BY TaskFields DEF Telling
<1>3. Kin(b, b)
  BY DEF Kin, Same
<1> HIDE DEF f, t
<1>4. Same(b, c) /\ c.tasks = b.tasks
  BY DEF Same, Tabs
<1>5. Same(c, Later(c, t)) /\ Later(c, t).tasks = c.tasks \cup {t}
  <2>1. DOMAIN c = DOMAIN b
    OBVIOUS
  <2> HIDE DEF c
  <2> QED BY <2>1 DEF Later, Same, Tabs
<1>6. Kin(b, Later(c, t))
  BY <1>2, <1>4, <1>5 DEF Kin, Same
<1> QED BY <1>1, <1>3, <1>6

LEMMA FinishedIsOver ==
  ASSUME NEW m \in Nat, NEW b, Sound(b, m), NEW s \in 1..m
  PROVE  Over(b, finishAccept(b, s))
<1> DEFINE h == markSessionHandled(b)
           w == watchForHandled(h, s)
           t == Timer("acceptClean", s, b.rev)
           d == Later(w, t)
           left == {x \in h.tasks : ~(x.k = "watch" /\ x.s = s)}
           u == Timer("watch", s, h.rev)
           e == [h EXCEPT !.tasks = left]
           f == Later(e, u)
<1>1. Sound(h, m) /\ h.tasks = b.tasks /\ h \in Tabs(m) /\ b.rev \in Nat
  BY MarkedIsSound DEF Sound, Tabs
<1>2. w = IF h.dom[s] = Absent THEN f ELSE scheduleReload(f, s, h.rev)
  BY DEF watchForHandled
<1>3. u.k = "watch" /\ t.k = "acceptClean"
  BY TaskFields
<1>4. finishAccept(b, s) = [Release(d) EXCEPT !.pend = None]
  BY DEF finishAccept, cleanupAcceptedSession
<1>5. Sound(w, m) /\ Sound(d, m) /\ d.tasks = w.tasks \cup {t}
  <2>1. Sound(w, m) /\ w.rev = b.rev
    BY <1>1, MarkedIsSound, WatchedIsSound
  <2>2. t \in Tasks(m) /\ t.s = s /\ t.rev = b.rev /\ s # None
    BY <1>1, TimersAreTyped, NoneIsKnown DEF TaskKinds, Recoveries
  <2> HIDE DEF w, t
  <2> QED BY <1>1, <2>1, <2>2, LaterIsSound DEF OfSession
<1> HIDE DEF h, t, u
<1>6. e \in Tabs(m) /\ e.tasks = left
  BY <1>1 DEF Tabs
<1> HIDE DEF e
<1>7. f.tasks = left \cup {u} /\ \A x \in f.tasks : x \in b.tasks \/ x.k = "watch"
  BY <1>1, <1>3, <1>6 DEF Later, Tabs
<1>8. Sound(f, m)
  <2> DEFINE v == Timer("watch", s, h.rev)
  <2>1. v \in Tasks(m) /\ v.s = s /\ v.rev = h.rev /\ s # None
    <3>1. h.rev \in Nat
      BY <1>1 DEF Tabs
    <3> QED BY <3>1, TimersAreTyped, NoneIsKnown DEF TaskKinds, Recoveries
  <2>2. Sound(e, m) /\ e.rev = h.rev
    BY <1>1, <1>6 DEF Sound, Tabs, e
  <2>3. h.rev \in Nat
    BY <1>1 DEF Tabs
  <2> HIDE DEF v
  <2>4. Sound(Later(e, v), m)
    BY <2>1, <2>2, <2>3, LaterIsSound DEF OfSession
  <2> QED BY <2>4 DEF v, u
<1>9. \A x \in w.tasks : x \in b.tasks \/ x.k # "retry"
  <2>1. f \in Tabs(m)
    BY <1>8 DEF Sound
  <2>2. Kin(f, scheduleReload(f, s, h.rev))
    BY <2>1, ScheduledIsKin
  <2> QED BY <1>2, <1>7, <2>2 DEF Kin, Telling
<1> HIDE DEF w
<1>10. /\ Release(d).cur = None /\ Release(d).saved.id = None /\ Release(d).tasks = d.tasks
       /\ Release(d) \in Tabs(m)
  BY <1>5, ReleasedIsOver
<1> DEFINE r == Release(d)
<1> HIDE DEF r
<1>11. /\ finishAccept(b, s).cur = r.cur /\ finishAccept(b, s).saved = r.saved
       /\ finishAccept(b, s).tasks = r.tasks
  <2>1. r \in Tabs(m) /\ finishAccept(b, s) = [r EXCEPT !.pend = None]
    BY <1>4, <1>10 DEF r
  <2> QED BY <2>1 DEF Tabs
<1>12. \A x \in finishAccept(b, s).tasks : x \in b.tasks \/ x.k # "retry"
  BY <1>3, <1>5, <1>9, <1>10, <1>11 DEF r
<1> QED BY <1>10, <1>11, <1>12 DEF Over, r

\* The tab c comes of b: in its session or in none, and tidy where b was.
Bears(b, c) ==
    /\ Kept(b) => Kept(c)
    /\ RetriesAreDone(b) => RetriesAreDone(c)
    /\ c.cur = None \/ (c.cur = b.cur /\ c.scout = b.scout /\ c.dom = b.dom)

\* On the page, the wrapper of the tab's session is new to the scout.
ScoutSees(b) == b.scout /\ b.cur # None => b.dom[b.cur] \in {Absent, src[b.cur]}

LEMMA BornIsTidy ==
  ASSUME NEW b, NEW c, Bears(b, c)
  PROVE  /\ Tidy(b) => Tidy(c)
         /\ ScoutSees(b) => ScoutSees(c)
  BY DEF Bears, Tidy, ScoutWaits, ScoutSees

LEMMA BornOfBorn ==
  ASSUME NEW b, NEW c, NEW d, Bears(b, c), Bears(c, d)
  PROVE  Bears(b, d)
  BY DEF Bears

LEMMA SameIsBorn ==
  ASSUME NEW b, NEW c, Same(b, c), \A t \in c.tasks : t \in b.tasks \/ (t.k = "retry" => t.done)
  PROVE  Bears(b, c)
  BY DEF Bears, Same, Kept, RetriesAreDone, isHandled

LEMMA OverIsBorn ==
  ASSUME NEW b, NEW c, Over(b, c)
  PROVE  Bears(b, c) /\ ~Waiting(c)
  BY DEF Bears, Over, Kept, RetriesAreDone, Waiting

LEMMA CompletedKeeps ==
  ASSUME NEW m \in 0..NSessions, NEW b, Good(b, m), NEW s \in 1..m, NEW t \in Tasks(m)
  PROVE  LET j == completeInjection(b, s, t)
         IN  /\ Bears(b, j)
             /\ \/ ~Waiting(j)
                \/ /\ ~(b.dom[s] > 0) /\ j.arrived = b.dom[s] /\ j.anchor = None
                   /\ j.st = b.st /\ j.cur = b.cur /\ j.told = b.told /\ j.late = b.late
                   /\ b.tasks \subseteq j.tasks
                   /\ \A x \in j.tasks : x \in b.tasks \/ x.k = "retry"
<1> DEFINE j == completeInjection(b, s, t)
           c == [b EXCEPT !.anchor = None, !.arrived = b.dom[s]]
           u == Task("retry", s, 0, t.n + 1, TRUE, t.orphan)
           d == setLiveState(c, "CYCLING")
<1>1. m \in Nat /\ b \in Tabs(m) /\ Sound(b, m) /\ s \in Sessions /\ None \in 0..m
  BY TabAssumption DEF Good, Sound, Sessions, None
<1>2. j = IF b.dom[s] > 0 THEN saveSession(d)
          ELSE IF b.st = "GENERATING" /\ ~t.done THEN c
          ELSE IF b.st = "GENERATING" /\ t.n < Retries THEN Later(c, u)
          ELSE recoverEmptyCycling(c)
  BY DEF completeInjection
<1>3. /\ c \in Tabs(m) /\ c.arrived = b.dom[s] /\ c.anchor = None /\ c.st = b.st
      /\ c.cur = b.cur /\ c.told = b.told /\ c.late = b.late /\ c.tasks = b.tasks
      /\ c.saved = b.saved /\ c.handled = b.handled /\ c.scout = b.scout /\ c.dom = b.dom
      /\ Alike(b, c)
  <2>1. b.dom[s] \in Int
    BY <1>1 DEF Tabs
  <2> QED BY <1>1, <2>1 DEF Tabs, Alike
<1>4. u.k = "retry" /\ u.done
  BY DEF Task
<1>5. Sound(c, m)
  BY <1>1, <1>3, AlikeIsGood DEF Good
<1> HIDE DEF c, u, j
<1>6. Bears(b, c)
  BY <1>3 DEF Bears, Kept, RetriesAreDone, isHandled
<1>7. CASE b.dom[s] > 0
  <2>1. /\ d \in Tabs(m) /\ d.st = "CYCLING" /\ d.cur = b.cur /\ d.saved = b.saved
        /\ d.handled = b.handled /\ d.scout = b.scout /\ d.dom = b.dom /\ d.tasks = b.tasks
    BY <1>3 DEF setLiveState, Tabs, States
  <2> HIDE DEF d
  <2>2. ~Waiting(j)
    BY <1>1, <1>2, <1>7, <2>1, SavedIsTidy DEF Waiting
  <2>3. /\ j.cur = b.cur /\ j.scout = b.scout /\ j.dom = b.dom /\ j.tasks = b.tasks
        /\ j.handled = b.handled
        /\ j.cur # None => j.saved.id = j.cur
        /\ j.cur = None => j.saved = b.saved
    BY <1>1, <1>2, <1>7, <2>1, SavedIsTidy
  <2>4. Bears(b, j)
    BY <2>3 DEF Bears, Kept, RetriesAreDone, isHandled
  <2> QED BY <2>2, <2>4 DEF j
<1>8. CASE ~(b.dom[s] > 0) /\ b.st = "GENERATING" /\ ~t.done
  <2>1. j = c
    BY <1>2, <1>8
  <2> QED BY <1>3, <1>6, <1>8, <2>1 DEF j
<1>9. CASE ~(b.dom[s] > 0) /\ b.st = "GENERATING" /\ t.done /\ t.n < Retries
  <2>1. j = Later(c, u)
    BY <1>2, <1>9
  <2>2. Same(c, j) /\ j.tasks = c.tasks \cup {u}
    BY <1>1, <1>3, <2>1, LaterIsSame
  <2>3. Bears(c, j)
    BY <1>4, <2>2, SameIsBorn
  <2>4. Bears(b, j)
    BY <1>6, <2>3, BornOfBorn
  <2>5. /\ j.arrived = b.dom[s] /\ j.anchor = None /\ j.st = b.st /\ j.cur = b.cur
        /\ j.told = b.told /\ j.late = b.late /\ b.tasks \subseteq j.tasks
        /\ \A x \in j.tasks : x \in b.tasks \/ x.k = "retry"
    BY <1>3, <1>4, <2>2 DEF Same
  <2> QED BY <1>9, <2>4, <2>5 DEF j
<1>10. CASE j = recoverEmptyCycling(c)
  <2>1. Bears(c, j) /\ ~Waiting(j)
    BY <1>1, <1>5, <1>10, EmptyCyclingIsOver, OverIsBorn
  <2>2. Bears(b, j)
    BY <1>6, <2>1, BornOfBorn
  <2> QED BY <2>1, <2>2 DEF j
<1> QED BY <1>2, <1>7, <1>8, <1>9, <1>10

\* What injectVariantsFromSource leaves: no wait, or the same wait and a task.
LEMMA InjectedKeeps ==
  ASSUME NEW m \in 0..NSessions, NEW b, Good(b, m), NEW s \in 1..m, NEW n \in Nat,
         NEW done \in BOOLEAN, NEW orphan \in BOOLEAN
  PROVE  LET j == inject(b, s, n, done, orphan)
         IN  /\ Bears(b, j)
             /\ \/ ~Waiting(j)
                \/ /\ j.st = b.st /\ j.cur = b.cur /\ j.told = b.told /\ j.late = b.late
                   /\ j.arrived = b.arrived /\ j.anchor = b.anchor /\ b.tasks \subseteq j.tasks
                   /\ \A x \in j.tasks : x.k = "read" => x \in b.tasks \/ x.s = s
                   /\ ~framework => \E x \in j.tasks : x.k = "read" /\ x.s = s
                   /\ framework /\ done /\ s = b.cur => \E x \in j.tasks : x.k = "retry" /\ x.s = s
<1> DEFINE j == inject(b, s, n, done, orphan)
           c == [b EXCEPT !.file = TRUE]
           t == Task("read", s, 0, n, done, orphan)
           r == [t EXCEPT !.k = "retry", !.n = n + 1]
           p == [t EXCEPT !.k = "probe"]
<1>1. m \in Nat /\ b \in Tabs(m) /\ Sound(b, m) /\ s \in 0..m
  BY TabAssumption DEF Good, Sound
<1>2. j = IF ~framework THEN Later(c, t)
          ELSE IF b.dom[s] > 0 THEN completeInjection(c, s, t)
          ELSE IF done /\ s = b.cur
          THEN IF n < Retries THEN Later(c, r)
               ELSE IF b.dom[s] = Absent THEN Tell(c) ELSE recoverEmptyCycling(c)
          ELSE IF orphan /\ b.dom[s] = Absent /\ s = b.cur THEN Later(c, p)
          ELSE c
  BY DEF inject
<1>3. c \in Tabs(m) /\ Same(b, c) /\ c.tasks = b.tasks /\ Alike(b, c)
  BY <1>1 DEF Tabs, Same, Alike
<1>4. t \in Tasks(m) /\ t.k = "read" /\ t.s = s /\ t.done = done
  <2>1. 0 \in Nat /\ "read" \in TaskKinds
    BY DEF TaskKinds
  <2> QED BY <1>1, <2>1, TasksAreTyped, TaskFields
<1>5. r.k = "retry" /\ r.s = s /\ (done => r.done) /\ p.k = "probe" /\ p.s = s
  BY DEF Task
<1>6. Good(c, m)
  BY <1>1, <1>3, AlikeIsGood DEF Same
<1> HIDE DEF c, t, r, p, j
<1>7. Bears(b, c)
  BY <1>3, SameIsBorn
<1>8. ASSUME NEW x PROVE Same(b, Later(c, x)) /\ Later(c, x).tasks = b.tasks \cup {x}
  <2>1. Same(c, Later(c, x)) /\ Later(c, x).tasks = c.tasks \cup {x}
    BY <1>1, <1>3, LaterIsSame
  <2> QED BY <1>3, <2>1 DEF Same
<1>9. CASE ~framework
  <2>1. j = Later(c, t)
    BY <1>2, <1>9
  <2>2. Bears(b, j)
    BY <1>4, <1>8, <2>1, SameIsBorn
  <2> QED BY <1>4, <1>8, <1>9, <2>1, <2>2 DEF j, Same
<1>10. CASE framework /\ b.dom[s] > 0
  <2>1. j = completeInjection(c, s, t) /\ c.dom[s] > 0
    BY <1>2, <1>3, <1>10 DEF Same
  <2>2. Bears(c, j) /\ ~Waiting(j)
    BY <1>4, <1>6, <2>1, CompletedKeeps
  <2>3. Bears(b, j)
    BY <1>7, <2>2, BornOfBorn
  <2> QED BY <2>2, <2>3 DEF j
<1>11. CASE framework /\ ~(b.dom[s] > 0) /\ done /\ s = b.cur /\ n < Retries
  <2>1. j = Later(c, r)
    BY <1>2, <1>11
  <2>2. Same(b, j) /\ j.tasks = b.tasks \cup {r}
    BY <1>8, <2>1
  <2>3. Bears(b, j)
    BY <1>5, <1>11, <2>2, SameIsBorn
  <2> QED BY <1>5, <1>11, <2>2, <2>3 DEF j, Same
<1>12. CASE framework /\ ~(b.dom[s] > 0) /\ done /\ s = b.cur /\ ~(n < Retries)
  <2>1. j = Tell(c) \/ j = recoverEmptyCycling(c)
    BY <1>2, <1>12
  <2>2. CASE j = recoverEmptyCycling(c)
    <3>1. Bears(c, j) /\ ~Waiting(j)
      BY <1>1, <1>6, <2>2, EmptyCyclingIsOver, OverIsBorn DEF Good
    <3>2. Bears(b, j)
      BY <1>7, <3>1, BornOfBorn
    <3> QED BY <3>1, <3>2 DEF j
  <2>3. CASE j = Tell(c)
    <3>1. /\ j.cur = c.cur /\ j.saved = c.saved /\ j.handled = c.handled /\ j.scout = c.scout
          /\ j.dom = c.dom /\ j.tasks = c.tasks /\ j.told
      BY <1>3, <2>3 DEF Tell, Tabs
    <3>2. Bears(c, j) /\ ~Waiting(j)
      BY <3>1 DEF Bears, Kept, RetriesAreDone, isHandled, Waiting
    <3>3. Bears(b, j)
      BY <1>7, <3>2, BornOfBorn
    <3> QED BY <3>2, <3>3 DEF j
  <2> QED BY <2>1, <2>2, <2>3
<1>13. CASE framework /\ ~(b.dom[s] > 0) /\ ~(done /\ s = b.cur)
  <2>1. j = Later(c, p) \/ j = c
    BY <1>2, <1>13
  <2>2. Same(b, j) /\ b.tasks \subseteq j.tasks /\ \A x \in j.tasks : x \in b.tasks \/ x = p
    BY <1>3, <1>8, <2>1
  <2>3. Bears(b, j)
    BY <1>5, <2>2, SameIsBorn
  <2> QED BY <1>5, <1>13, <2>2, <2>3 DEF j, Same
<1> QED BY <1>9, <1>10, <1>11, <1>12, <1>13

\* restoreSessionWithoutWrapper: the session is the record's; what is there for it is read.
LEMMA RestoredKeeps ==
  ASSUME NEW m \in 0..NSessions, NEW b, Good(b, m), NEW l \in Lists(m), src \in Sources(m),
         Restorable(b, l)
  PROVE  LET j == restoreWithoutWrapper(b, l)
             r == Record(b, l)
         IN  /\ Kept(j) /\ (RetriesAreDone(b) => RetriesAreDone(j))
             /\ j.cur = None \/ (j.cur = r.id /\ j.scout = b.scout /\ j.dom = b.dom)
             /\ \/ ~Waiting(j)
                \/ /\ j.cur = r.id /\ j.told = b.told /\ j.late = b.late /\ j.anchor = b.anchor
                   /\ b.tasks \subseteq j.tasks
                   /\ \A x \in j.tasks : x.k = "read" => x \in b.tasks \/ x.s = r.id
                   /\ ~framework /\ r.id \in Open(l) /\ HasFile(r.id) =>
                         \E x \in j.tasks : x.k = "read" /\ x.s = r.id
<1> DEFINE j == restoreWithoutWrapper(b, l)
           r == Record(b, l)
           here == r.id \in Open(l)
           f == b.file \/ r.file \/ (here /\ HasFile(r.id))
           a == IF r.arrived = 0 /\ here THEN Published(r.id) ELSE r.arrived
           e == [b EXCEPT !.cur = r.id, !.file = f, !.arrived = a]
           d == [e EXCEPT !.st = "GENERATING", !.observed = r.id]
           v == saveSession(d)
           c == queueCheckpoint(v)
           o == r.st = "CYCLING"
           i == inject(c, r.id, 0, FALSE, o)
<1>1. m \in Nat /\ r \in Records(m) /\ r.id # None /\ ~isHandled(b, r.id)
  BY RecordIsKnown, TabAssumption DEF Restorable
<1>2. b \in Tabs(m) /\ r.id \in 0..m /\ r.id \in 1..m
  <2>1. r.id \in 0..m
    BY <1>1 DEF Records
  <2> QED BY <1>1, <2>1 DEF Good, Sound, None
<1>3. f \in BOOLEAN /\ a \in Int /\ o \in BOOLEAN /\ (here /\ HasFile(r.id) => f)
  <2>1. Published(r.id) \in Int
    BY <1>2, TabAssumption DEF Published, Sources, Sessions
  <2> QED BY <1>1, <1>2, <2>1 DEF Records, Tabs
<1>4. j = IF c.file THEN i ELSE c
  <2>1. [b EXCEPT !.cur = r.id, !.file = f, !.arrived = a, !.st = "GENERATING", !.observed = r.id] = d
    BY <1>2 DEF Tabs
  <2> QED BY <2>1 DEF restoreWithoutWrapper
<1> HIDE DEF f, a, here, r, o, j
<1>5. /\ e \in Tabs(m) /\ e.cur = r.id /\ e.file = f /\ e.rev = b.rev /\ e.tasks = b.tasks
      /\ e.dom = b.dom /\ e.handled = b.handled /\ e.scout = b.scout /\ e.told = b.told
      /\ e.late = b.late /\ e.anchor = b.anchor
  BY <1>2, <1>3 DEF Tabs
<1> HIDE DEF e
<1>6. /\ d \in Tabs(m) /\ d.cur = r.id /\ d.file = f /\ d.rev = b.rev /\ d.tasks = b.tasks
      /\ d.dom = b.dom /\ d.handled = b.handled /\ d.scout = b.scout /\ d.told = b.told
      /\ d.late = b.late /\ d.anchor = b.anchor /\ d.st = "GENERATING"
  <2>1. "GENERATING" \in States
    BY DEF States
  <2> QED BY <1>2, <1>5, <2>1 DEF Tabs
<1> HIDE DEF d
<1>7. Good(d, m)
  BY <1>1, <1>6 DEF Good, Sound, Settled, CurIsOpen, isHandled
<1>8. Good(v, m) /\ v \in Tabs(m) /\ Good(c, m)
  BY <1>1, <1>7, SaveIsGood, CheckpointIsGood DEF Good, Sound
<1>9. /\ v.cur = r.id /\ v.file = f /\ v.tasks = b.tasks /\ v.dom = b.dom /\ v.saved.id = r.id
      /\ v.scout = b.scout /\ v.told = b.told /\ v.late = b.late /\ v.anchor = b.anchor
  BY <1>1, <1>6, SavedIsTidy
<1> HIDE DEF v
<1>10. Kin(v, c) /\ c.file = v.file
  <2>1. c.file = v.file
    BY <1>8 DEF queueCheckpoint, Later, Tabs
  <2> QED BY <1>1, <1>8, <2>1, CheckpointIsKin
<1> HIDE DEF c
<1>11. /\ c.cur = r.id /\ c.file = f /\ c.dom = b.dom /\ c.saved.id = r.id
       /\ c.scout = b.scout /\ c.told = b.told /\ c.late = b.late /\ c.anchor = b.anchor
       /\ \A x \in c.tasks : x.k \in Telling => x \in b.tasks
       /\ \A x \in b.tasks : x.k \in Telling => x \in c.tasks
  BY <1>9, <1>10 DEF Kin, Same
<1>t. b.tasks \subseteq c.tasks
  <2>1. b.tasks \subseteq v.tasks
    BY <1>9
  <2>2. v.tasks \subseteq c.tasks
    BY <1>8 DEF queueCheckpoint, Later, Tabs, c
  <2> QED BY <2>1, <2>2
<1>12. Kept(c) /\ (RetriesAreDone(b) => RetriesAreDone(c))
  BY <1>1, <1>11 DEF Kept, RetriesAreDone, Telling
<1>13. CASE c.file
  <2>1. 0 \in Nat /\ FALSE \in BOOLEAN
    OBVIOUS
  <2> DEFINE z == 0
             no == FALSE
  <2> HIDE DEF z, no
  <2> DEFINE y == r.id
             i2 == inject(c, y, z, no, o)
  <2>2. i2 = j
    BY <1>4, <1>13 DEF z, no
  <2>3. z \in Nat /\ no \in BOOLEAN /\ y \in 1..m
    BY <1>2 DEF z, no
  <2> HIDE DEF y
  <2>4. /\ Bears(c, i2)
        /\ \/ ~Waiting(i2)
           \/ /\ i2.st = c.st /\ i2.cur = c.cur /\ i2.told = c.told /\ i2.late = c.late
              /\ i2.arrived = c.arrived /\ i2.anchor = c.anchor /\ c.tasks \subseteq i2.tasks
              /\ \A x \in i2.tasks : x.k = "read" => x \in c.tasks \/ x.s = y
              /\ ~framework => \E x \in i2.tasks : x.k = "read" /\ x.s = y
    BY <1>3, <1>8, <2>3, InjectedKeeps
  <2> HIDE DEF i2
  <2>y. y = r.id
    BY DEF y
  <2>5. Kept(j) /\ (RetriesAreDone(b) => RetriesAreDone(j))
        /\ (j.cur = None \/ (j.cur = r.id /\ j.scout = b.scout /\ j.dom = b.dom))
    BY <1>11, <1>12, <2>2, <2>4 DEF Bears
  <2>6. ASSUME Waiting(j)
        PROVE  /\ j.cur = r.id /\ j.told = b.told /\ j.late = b.late /\ j.anchor = b.anchor
               /\ b.tasks \subseteq j.tasks
               /\ \A x \in j.tasks : x.k = "read" => x \in b.tasks \/ x.s = r.id
               /\ ~framework => \E x \in j.tasks : x.k = "read" /\ x.s = r.id
    BY <1>11, <1>t, <2>2, <2>4, <2>6, <2>y DEF Telling
  <2> QED BY <2>5, <2>6 DEF j, r
<1>14. CASE ~c.file
  <2>1. j = c /\ ~(here /\ HasFile(r.id))
    BY <1>3, <1>4, <1>11, <1>14
  <2>2. \A x \in j.tasks : x.k = "read" => x \in b.tasks \/ x.s = r.id
    BY <1>11, <2>1 DEF Telling
  <2> QED BY <1>11, <1>12, <1>t, <2>1, <2>2 DEF j, r, here
<1> QED BY <1>13, <1>14

\* resumeSession on a wrapper: the session is the wrapper's.
LEMMA ResumedWrapperKeeps ==
  ASSUME NEW m \in 0..NSessions, NEW b, Good(b, m), NEW w \in 1..m, ~isHandled(b, w)
  PROVE  LET j == resumeWrapper(b, w)
         IN  /\ Kept(j) /\ (RetriesAreDone(b) => RetriesAreDone(j))
             /\ j.cur = w /\ j.scout = b.scout /\ j.dom = b.dom /\ j.arrived = b.dom[w]
             /\ j.late = b.late
             /\ b.dom[w] > 0 => ~Waiting(j)
<1> DEFINE f == b.file \/ (b.saved.id = w /\ b.saved.file)
           st == IF b.dom[w] > 0 THEN "CYCLING" ELSE "GENERATING"
           e == [b EXCEPT !.cur = w, !.arrived = b.dom[w], !.observed = w]
           d == [e EXCEPT !.file = f, !.st = st]
           v == saveSession(d)
<1>1. m \in Nat /\ w \in Sessions /\ w \in 0..m /\ w # None
  BY TabAssumption DEF Sessions, None
<1>2. b \in Tabs(m) /\ b.dom[w] \in Int /\ f \in BOOLEAN /\ st \in States /\ st # "CONFIGURING"
  <2>1. b \in Tabs(m)
    BY DEF Good, Sound
  <2>2. b.dom[w] \in Int
    BY <1>1, <2>1 DEF Tabs
  <2>3. f \in BOOLEAN
    BY <2>1 DEF Tabs, Records
  <2> QED BY <2>1, <2>2, <2>3 DEF States
<1>3. resumeWrapper(b, w) = queueCheckpoint(v)
  <2>1. [b EXCEPT !.cur = w, !.arrived = b.dom[w], !.observed = w, !.file = f, !.st = st] = d
    BY <1>2 DEF Tabs
  <2> QED BY <2>1 DEF resumeWrapper
<1>4. b.dom[w] > 0 => st # "GENERATING"
  OBVIOUS
<1> HIDE DEF f, st
<1>5. /\ e \in Tabs(m) /\ e.cur = w /\ e.arrived = b.dom[w] /\ e.tasks = b.tasks /\ e.dom = b.dom
      /\ e.scout = b.scout /\ e.late = b.late
  BY <1>1, <1>2 DEF Tabs
<1> HIDE DEF e
<1>6. /\ d \in Tabs(m) /\ d.cur = w /\ d.arrived = b.dom[w] /\ d.tasks = b.tasks /\ d.dom = b.dom
      /\ d.scout = b.scout /\ d.late = b.late /\ d.st = st
  BY <1>2, <1>5 DEF Tabs
<1> HIDE DEF d
<1>7. /\ v \in Tabs(m) /\ v.cur = w /\ v.arrived = b.dom[w] /\ v.tasks = b.tasks /\ v.dom = b.dom
      /\ v.scout = b.scout /\ v.late = b.late /\ v.st = st /\ v.saved.id = w
  <2>1. v \in Tabs(m)
    <3> DEFINE z == [id |-> d.cur, st |-> d.st, arrived |-> d.arrived, file |-> d.file]
    <3>1. z \in Records(m)
      BY <1>6 DEF Tabs, Records
    <3>2. v = [d EXCEPT !.saved = z]
      BY <1>1, <1>6 DEF saveSession
    <3> HIDE DEF z
    <3> QED BY <1>6, <3>1, <3>2 DEF Tabs
  <2> QED BY <1>1, <1>6, <2>1, SavedIsTidy
<1> HIDE DEF v
<1>8. Kin(v, queueCheckpoint(v))
  BY <1>1, <1>7, CheckpointIsKin
<1> DEFINE j == queueCheckpoint(v)
<1> HIDE DEF j
<1>9. /\ j.cur = w /\ j.arrived = b.dom[w] /\ j.dom = b.dom /\ j.scout = b.scout /\ j.late = b.late
      /\ j.st = st /\ j.saved.id = w /\ \A x \in j.tasks : x.k = "retry" => x \in b.tasks
  BY <1>7, <1>8 DEF Kin, Same, Telling, j
<1>10. Kept(j) /\ (RetriesAreDone(b) => RetriesAreDone(j)) /\ (b.dom[w] > 0 => ~Waiting(j))
  BY <1>1, <1>4, <1>9 DEF Kept, RetriesAreDone, Waiting
<1> QED BY <1>3, <1>9, <1>10 DEF j

\* More tasks, and no read of another session where there was none, follow as well.
LEMMA GrownIsFollowed ==
  ASSUME NEW b, NEW c, NEW q, Followed(b, q),
         c.st = b.st, c.cur = b.cur, c.told = b.told, c.late = b.late, c.arrived = b.arrived,
         b.tasks \subseteq c.tasks, Ours(b) => Ours(c)
  PROVE  Followed(c, q)
<1>1. Waiting(c) <=> Waiting(b)
  BY DEF Waiting
<1>2. AllCounted(c, q)
  BY <1>1 DEF Followed, AllCounted
<1>3. Chased(c, q)
  <2>1. \A t \in b.tasks : Chases(b, t) => t \in c.tasks /\ Chases(c, t)
    BY DEF Chases
  <2> QED BY <1>1, <2>1 DEF Followed, Chased
<1> QED BY <1>2, <1>3 DEF Followed

\* A task may go that does not chase the end there is.
LEMMA DroppedIsFollowed ==
  ASSUME NEW b, NEW c, NEW q, NEW t, Followed(b, q), Same(b, c), c.tasks = b.tasks \ {t},
         Waiting(b) /\ Ready(b.cur) => /\ b.arrived < Variants => ~Chases(b, t)
                                       /\ t.k = "read" => t.s # b.cur
  PROVE  Followed(c, q)
<1>1. /\ Waiting(c) <=> Waiting(b)
      /\ \A x : Chases(c, x) <=> Chases(b, x)
      /\ c.cur = b.cur /\ c.arrived = b.arrived /\ c.late = b.late
  BY DEF Waiting, Chases, Same
<1>2. Ours(b) => Ours(c)
  BY DEF Ours, Same
<1>3. AllCounted(c, q)
  BY <1>1, <1>2 DEF Followed, AllCounted
<1>4. Chased(c, q)
  BY <1>1 DEF Followed, Chased
<1> QED BY <1>3, <1>4 DEF Followed

-----------------------------------------------------------------------------
(* Ended generations: the page changes *)

\* The scout takes up the session it waited for, with what the source has, or another, late.
LEMMA ScoutedKeeps ==
  ASSUME NEW m \in 0..NSessions, NEW b, Good(b, m), srv \in Lists(m), src \in Sources(m),
         SourceInv, Kept(b), RetriesAreDone(b), ScoutSees(b)
  PROVE  Tidy(scoutPage(b)) /\ \A q : Followed(b, q) => Followed(scoutPage(b), q)
<1> DEFINE no == FALSE
           c == [b EXCEPT !.scout = no]
           r == resumeSession(c, 0)
           l == r.late \/ r.cur # b.cur
           d == [r EXCEPT !.late = l]
           w == AnyWrapper(c)
<1>1. m \in Nat /\ b \in Tabs(m) /\ no \in BOOLEAN /\ Variants > 0 /\ Variants \in Nat
  BY TabAssumption DEF Good, Sound
<1>2. no = FALSE
  OBVIOUS
<1>3. scoutPage(b) = IF b.scout /\ Wrappers(b) # {} THEN d ELSE b
  BY DEF scoutPage
<1> HIDE DEF no
<1>4. /\ c \in Tabs(m) /\ c.st = b.st /\ c.cur = b.cur /\ c.told = b.told /\ c.late = b.late
      /\ c.arrived = b.arrived /\ c.anchor = b.anchor /\ c.saved = b.saved
      /\ c.handled = b.handled /\ c.dom = b.dom /\ c.tasks = b.tasks /\ ~c.scout /\ Alike(b, c)
  BY <1>1, <1>2 DEF Tabs, Alike
<1>5. Good(c, m) /\ Kept(c) /\ RetriesAreDone(c) /\ Wrappers(c) = Wrappers(b)
  BY <1>1, <1>4, AlikeIsGood DEF Kept, RetriesAreDone, isHandled, Wrappers
<1>6. \A q : Followed(b, q) => Followed(c, q)
  <2>1. ASSUME NEW q, Followed(b, q) PROVE Followed(c, q)
    <3>1. Ours(b) => Ours(c)
      BY <1>4 DEF Ours
    <3> QED BY <1>4, <2>1, <3>1, GrownIsFollowed
  <2> QED BY <2>1
<1> HIDE DEF c
<1>7. CASE ~(b.scout /\ Wrappers(b) # {})
  <2>1. ScoutWaits(b)
    <3>1. b.cur # None => b.cur \in Sessions
      BY <1>1, TabAssumption DEF Tabs, Sessions, None
    <3> QED BY <1>7, <3>1 DEF ScoutWaits, Wrappers
  <2> QED BY <1>3, <1>7, <2>1 DEF Tidy
<1>8. CASE b.scout /\ Wrappers(b) # {}
  <2>1. w \in 1..m
    BY <1>5, <1>8, AnyWrapperIsKnown
  <2>2. b.dom[w] # Absent
    <3> DEFINE P == {s \in Wrappers(c) : c.dom[s] > 0}
               A == IF P = {} THEN Wrappers(c) ELSE P
    <3>1. A \in SUBSET Nat /\ A # {} /\ A \subseteq Wrappers(c)
      BY <1>5, <1>8 DEF Wrappers, Sessions
    <3>2. w = CHOOSE s \in A : \A x \in A : s <= x
      BY DEF AnyWrapper
    <3> HIDE DEF A
    <3>3. w \in A
      BY <3>1, <3>2, LeastNumber
    <3> QED BY <1>4, <3>1, <3>3 DEF Wrappers
  <2>3. Restorable(c, Unheard) =>
           /\ c.cur # None => c.saved.id = c.cur
           /\ c.cur = None => c.saved.id = None
    BY <1>5 DEF Kept, Restorable, Record
  <2>4. \/ ~isHandled(c, w) /\ r = resumeWrapper(c, w)
        \/ r = c
        \/ r = scheduleReload(c, w, 0)
    BY <1>5, <1>8, <2>3 DEF resumeSession
  <2> HIDE DEF w
  <2>5. /\ r \in Tabs(m) /\ Kept(r) /\ RetriesAreDone(r) /\ ~r.scout
        /\ \A q : Followed(b, q) => Followed(d, q)
    <3>1. CASE ~isHandled(c, w) /\ r = resumeWrapper(c, w)
      <4>1. r \in Tabs(m)
        <5>1. Good(r, m)
          BY <1>5, <2>1, <3>1, ResumedWrapperIsGood
        <5> QED BY <5>1 DEF Good, Sound
      <4>2. /\ Kept(r) /\ RetriesAreDone(r) /\ r.cur = w /\ ~r.scout /\ r.arrived = b.dom[w]
            /\ b.dom[w] > 0 => ~Waiting(r)
        BY <1>4, <1>5, <2>1, <3>1, ResumedWrapperKeeps
      <4> HIDE DEF r
      <4>3. /\ d.cur = w /\ d.arrived = b.dom[w] /\ (d.late <=> l)
            /\ Waiting(d) => Waiting(r)
        BY <4>1, <4>2 DEF Tabs, Waiting
      <4> HIDE DEF d
      <4>4. b.dom[w] \in Int /\ src[w] \in Int
        BY <1>1, <2>1, TabAssumption DEF Tabs, Sources, Sessions
      <4>5. ASSUME NEW q PROVE Followed(d, q)
        <5>1. Waiting(d) => ~(d.arrived >= Variants)
          BY <1>1, <4>2, <4>3, <4>4
        <5>2. Waiting(d) /\ ~d.late => ~Ready(w)
          <6> SUFFICES ASSUME Waiting(d), ~d.late, Ready(w) PROVE FALSE
            OBVIOUS
          <6>1. w = b.cur /\ w # None
            BY <2>1, <4>2, <4>3 DEF None
          <6>2. b.dom[w] = src[w]
            BY <1>8, <2>2, <6>1 DEF ScoutSees
          <6>3. src[w] = Variants
            BY <2>1, TabAssumption DEF Ready, SourceInv, Sessions
          <6> QED BY <1>1, <4>2, <4>3, <6>2, <6>3
        <5> QED BY <4>3, <5>1, <5>2 DEF Followed, AllCounted, Chased
      <4> QED BY <4>1, <4>2, <4>5
    <3>2. CASE r = c \/ r = scheduleReload(c, w, 0)
      <4>1. r \in Tabs(m)
        <5>1. Good(r, m)
          BY <1>1, <1>5, <2>1, <3>2, ScheduledIsGood
        <5> QED BY <5>1 DEF Good, Sound
      <4>2. Kin(c, r)
        <5>1. Kin(c, c)
          BY DEF Kin, Same
        <5> QED BY <1>1, <1>4, <3>2, <5>1, ScheduledIsKin
      <4>3. r.cur = b.cur /\ ~r.scout /\ Kept(r) /\ RetriesAreDone(r)
        BY <1>4, <1>5, <4>2 DEF Kin, Same, Kept, RetriesAreDone, isHandled, Telling
      <4>4. \A q : Followed(c, q) => Followed(r, q)
        BY <4>2, KinIsTidy
      <4> HIDE DEF r
      <4>5. d = r
        BY <4>1, <4>3 DEF Tabs
      <4> QED BY <1>6, <4>1, <4>3, <4>4, <4>5
    <3> QED BY <2>4, <3>1, <3>2
  <2>6. Tidy(d)
    <3> HIDE DEF r
    <3>1. /\ d.cur = r.cur /\ d.saved = r.saved /\ d.handled = r.handled /\ d.scout = r.scout
          /\ d.tasks = r.tasks
      BY <2>5 DEF Tabs
    <3> HIDE DEF d
    <3> QED BY <2>5, <3>1 DEF Tidy, Kept, ScoutWaits, RetriesAreDone, isHandled
  <2> QED BY <1>3, <1>8, <2>5, <2>6
<1> QED BY <1>7, <1>8

LEMMA ObservedKeeps ==
  ASSUME NEW m \in 0..NSessions, NEW b, Good(b, m), Tidy(b)
  PROVE  Tidy(observeVariants(b)) /\ \A q : Followed(b, q) => Followed(observeVariants(b), q)
<1> DEFINE s == b.observed
           c == [b EXCEPT !.arrived = b.dom[s], !.st = "CYCLING"]
           v == saveSession(c)
<1>1. b \in Tabs(m) /\ s \in 0..m /\ m \in Nat
  BY TabAssumption DEF Good, Sound, Tabs
<1>2. observeVariants(b) = IF s # None /\ b.dom[s] > b.arrived THEN queueCheckpoint(v) ELSE b
  BY DEF observeVariants
<1> HIDE DEF s
<1>3. CASE s # None
  <2>1. b.dom[s] \in Int /\ "CYCLING" \in States
    BY <1>1, <1>3, TabAssumption DEF Tabs, Sessions, None, States
  <2>2. /\ c \in Tabs(m) /\ c.st = "CYCLING" /\ c.cur = b.cur /\ c.saved = b.saved
        /\ c.handled = b.handled /\ c.scout = b.scout /\ c.dom = b.dom /\ c.tasks = b.tasks
        /\ Alike(b, c)
    BY <1>1, <2>1 DEF Tabs, Alike
  <2> HIDE DEF c
  <2>3. Tidy(v) /\ ~Waiting(v)
    <3>1. Tidy(c) /\ ~Waiting(c)
      BY <2>2 DEF Tidy, Kept, ScoutWaits, RetriesAreDone, isHandled, Waiting
    <3> QED BY <1>1, <2>2, <3>1, SavingKeeps DEF Tidy
  <2>4. v \in Tabs(m)
    <3>1. Good(c, m)
      BY <1>1, <2>2, AlikeIsGood
    <3> QED BY <1>1, <3>1, SaveIsGood DEF Good, Sound
  <2> HIDE DEF v
  <2>5. Tidy(queueCheckpoint(v)) /\ ~Waiting(queueCheckpoint(v))
    <3>1. Kin(v, queueCheckpoint(v))
      BY <1>1, <2>4, CheckpointIsKin
    <3> QED BY <2>3, <3>1, KinIsTidy DEF Kin, Same, Waiting
  <2> QED BY <1>2, <2>5, CalmIsFollowed
<1>4. CASE s = None
  BY <1>2, <1>4
<1> QED BY <1>3, <1>4

\* The element that was waited for is there: what is read for it is the tab's, as the wait was.
LEMMA RetriedKeeps ==
  ASSUME NEW m \in 0..NSessions, NEW b, Good(b, m), Tidy(b)
  PROVE  Tidy(retryAnchor(b)) /\ \A q : Followed(b, q) => Followed(retryAnchor(b), q)
<1> DEFINE s == b.anchor
           c == [b EXCEPT !.anchor = None]
           z == 0
           no == FALSE
           j == inject(c, s, z, no, no)
<1>1. b \in Tabs(m) /\ s \in 0..m /\ m \in Nat /\ None \in 0..m /\ z \in Nat /\ no \in BOOLEAN
  BY TabAssumption, NoneIsKnown DEF Good, Sound, Tabs
<1>2. retryAnchor(b) = IF s # None /\ b.dom[s] # Absent THEN j ELSE b
  BY DEF retryAnchor
<1>s. s = b.anchor
  OBVIOUS
<1> HIDE DEF s, z, no
<1>3. /\ c \in Tabs(m) /\ c.st = b.st /\ c.cur = b.cur /\ c.told = b.told /\ c.late = b.late
      /\ c.arrived = b.arrived /\ c.anchor = None /\ c.saved = b.saved
      /\ c.handled = b.handled /\ c.dom = b.dom /\ c.tasks = b.tasks /\ c.scout = b.scout
      /\ Alike(b, c)
  BY <1>1 DEF Tabs, Alike
<1>4. Good(c, m)
  BY <1>1, <1>3, AlikeIsGood
<1> HIDE DEF c
<1>5. CASE s # None
  <2>1. s \in 1..m
    BY <1>1, <1>5 DEF None
  <2>2. /\ Bears(c, j)
        /\ \/ ~Waiting(j)
           \/ /\ j.st = c.st /\ j.cur = c.cur /\ j.told = c.told /\ j.late = c.late
              /\ j.arrived = c.arrived /\ j.anchor = c.anchor /\ c.tasks \subseteq j.tasks
              /\ \A x \in j.tasks : x.k = "read" => x \in c.tasks \/ x.s = s
    BY <1>1, <1>4, <2>1, InjectedKeeps
  <2> HIDE DEF j
  <2>3. Tidy(c)
    BY <1>3 DEF Tidy, Kept, ScoutWaits, RetriesAreDone, isHandled
  <2>4. Tidy(j)
    BY <2>2, <2>3, BornIsTidy
  <2>5. ASSUME NEW q, Followed(b, q) PROVE Followed(j, q)
    <3>1. CASE ~Waiting(j)
      BY <3>1, CalmIsFollowed
    <3>2. CASE Waiting(j)
      <4>1. Ours(b) => Ours(j)
        BY <1>s, <1>3, <1>5, <2>2, <3>2 DEF Ours
      <4> QED BY <1>3, <2>2, <2>5, <3>2, <4>1, GrownIsFollowed
    <3> QED BY <3>1, <3>2
  <2> QED BY <1>2, <2>4, <2>5
<1>6. CASE s = None
  BY <1>2, <1>6
<1> QED BY <1>5, <1>6

LEMMA WatchedIsKin ==
  ASSUME NEW m \in Nat, NEW b \in Tabs(m)
  PROVE  Kin(b, watchPage(b))
<1> DEFINE due == {t \in b.tasks : t.k = "watch" /\ b.dom[t.s] # Absent /\ MayReload(b, t.s, t.rev)}
           tries == [s \in Sessions |-> IF \E t \in due : t.s = s THEN b.tries[s] + 1 ELSE b.tries[s]]
           new == {Timer("handledReload", t.s, t.rev) : t \in due}
           c == [b EXCEPT !.tries = tries, !.tasks = b.tasks \cup new]
<1>1. watchPage(b) = c
  BY DEF watchPage, Tabs
<1>2. \A u \in new : u.k = "handledReload"
  BY TaskFields
<1> HIDE DEF new, tries, due
<1>3. Same(b, c) /\ c.tasks = b.tasks \cup new
  BY DEF Same, Tabs
<1> QED BY <1>1, <1>2, <1>3 DEF Kin, Telling

LEMMA ChangedKeeps ==
  ASSUME NEW m \in 0..NSessions, NEW b, Good(b, m), srv \in Lists(m), src \in Sources(m),
         SourceInv, Kept(b), RetriesAreDone(b), ScoutSees(b)
  PROVE  Tidy(pageChanged(b)) /\ \A q : Followed(b, q) => Followed(pageChanged(b), q)
<1> DEFINE c == scoutPage(b)
           d == observeVariants(c)
           e == retryAnchor(d)
<1>1. Good(c, m) /\ Tidy(c) /\ \A q : Followed(b, q) => Followed(c, q)
  BY ScoutedIsGood, ScoutedKeeps
<1> HIDE DEF c
<1>2. Good(d, m) /\ Tidy(d) /\ \A q : Followed(c, q) => Followed(d, q)
  BY <1>1, ObservedIsGood, ObservedKeeps
<1> HIDE DEF d
<1>3. Good(e, m) /\ Tidy(e) /\ \A q : Followed(d, q) => Followed(e, q)
  BY <1>2, RetriedIsGood, RetriedKeeps
<1> HIDE DEF e
<1>4. Tidy(watchPage(e)) /\ \A q : Followed(e, q) => Followed(watchPage(e), q)
  <2>1. m \in Nat /\ e \in Tabs(m)
    BY <1>3, TabAssumption DEF Good, Sound
  <2>2. Kin(e, watchPage(e))
    BY <2>1, WatchedIsKin
  <2> QED BY <1>3, <2>2, KinIsTidy
<1>5. pageChanged(b) = watchPage(e)
  BY DEF pageChanged, c, d, e
<1> QED BY <1>1, <1>2, <1>3, <1>4, <1>5

\* A page load reads for the session it takes up, and for no other.
LEMMA BootedKeeps ==
  ASSUME NEW m \in 0..NSessions, NEW b, Good(b, m), srv \in Lists(m), src \in Sources(m),
         b.cur = None, b.anchor = None, b.tasks = {}
  PROVE  /\ Tidy(boot(b))
         /\ Waiting(boot(b)) /\ boot(b).arrived >= Variants => Ours(boot(b))
<1> DEFINE w == AnyWrapper(b)
           c == resumeSession(b, 0)
           f == c.cur = None \/ Wrappers(c) = {}
           d == [c EXCEPT !.scout = f]
<1>1. m \in Nat /\ b \in Tabs(m) /\ Unheard \in Lists(m) /\ Good(c, m) /\ c \in Tabs(m) /\ f \in BOOLEAN
  <2>1. m \in Nat /\ Unheard \in Lists(m) /\ Good(c, m)
    BY ListingsAreKnown, ResumedIsGood, TabAssumption
  <2> QED BY <2>1 DEF Good, Sound
<1>2. Listed(Unheard) = {} /\ Adoptable(b, Unheard) = {}
  BY DEF Listed, Adoptable, Open, Unheard
<1>3. Restorable(b, Unheard) <=> /\ b.saved.id # None /\ ~isHandled(b, b.saved.id)
                                 /\ b.saved.st \in {"GENERATING", "CYCLING"}
  BY <1>2 DEF Restorable, Record
<1>4. \/ Restorable(b, Unheard) /\ c = restoreWithoutWrapper(b, Unheard)
      \/ ~Restorable(b, Unheard) /\ Wrappers(b) = {} /\ c = clearSession(b)
      \/ Wrappers(b) # {} /\ ~isHandled(b, w) /\ c = resumeWrapper(b, w)
      \/ Wrappers(b) # {} /\ isHandled(b, w) /\ c = scheduleReload(b, w, 0)
         /\ (b.saved.id \in {None, w} \/ isHandled(b, b.saved.id) \/ ~Restorable(b, Unheard))
  BY DEF resumeSession
<1>5. Kept(c) /\ RetriesAreDone(c) /\ (Waiting(c) /\ c.arrived >= Variants => Ours(c))
  <2>1. CASE Restorable(b, Unheard) /\ c = restoreWithoutWrapper(b, Unheard)
    <3> DEFINE r == Record(b, Unheard)
    <3>1. /\ Kept(c) /\ (RetriesAreDone(b) => RetriesAreDone(c))
          /\ \/ ~Waiting(c)
             \/ /\ c.cur = r.id /\ c.anchor = b.anchor
                /\ \A x \in c.tasks : x.k = "read" => x \in b.tasks \/ x.s = r.id
      BY <1>1, <2>1, RestoredKeeps
    <3> HIDE DEF c, r
    <3> QED BY <3>1 DEF Ours, RetriesAreDone
  <2>2. CASE ~Restorable(b, Unheard) /\ Wrappers(b) = {} /\ c = clearSession(b)
    <3>1. NotSaved.id = None
      BY DEF NotSaved
    <3>2. c.cur = None /\ c.saved = NotSaved /\ c.tasks = {}
      BY <1>1, <2>2 DEF clearSession, Tabs
    <3> HIDE DEF c
    <3> QED BY <3>1, <3>2 DEF Kept, RetriesAreDone, Waiting
  <2>3. CASE Wrappers(b) # {} /\ ~isHandled(b, w) /\ c = resumeWrapper(b, w)
    <3>1. w \in 1..m
      BY <2>3, AnyWrapperIsKnown
    <3> HIDE DEF w
    <3>2. b.dom[w] \in Int
      BY <1>1, <3>1, TabAssumption DEF Tabs, Sessions
    <3>3. /\ Kept(c) /\ (RetriesAreDone(b) => RetriesAreDone(c)) /\ c.arrived = b.dom[w]
          /\ b.dom[w] > 0 => ~Waiting(c)
      BY <2>3, <3>1, ResumedWrapperKeeps
    <3> HIDE DEF c
    <3>4. ~(Waiting(c) /\ c.arrived >= Variants)
      BY <3>2, <3>3, TabAssumption
    <3> QED BY <3>3, <3>4 DEF RetriesAreDone
  <2>4. CASE /\ isHandled(b, w) /\ c = scheduleReload(b, w, 0)
             /\ b.saved.id \in {None, w} \/ isHandled(b, b.saved.id) \/ ~Restorable(b, Unheard)
    <3>1. Kin(b, c)
      BY <1>1, <2>4, ScheduledIsKin
    <3>2. Kept(b)
      BY <1>3, <2>4 DEF Kept
    <3> HIDE DEF c, w
    <3> QED BY <3>1, <3>2 DEF Kin, Same, Kept, RetriesAreDone, Telling, Waiting, isHandled
  <2> QED BY <1>4, <2>1, <2>2, <2>3, <2>4
<1>6. boot(b) = IF d.st = "IDLE" THEN setLiveState(d, "PICKING") ELSE d
  BY DEF boot
<1>7. f => c.cur = None \/ Wrappers(c) = {}
  OBVIOUS
<1> HIDE DEF c, f
<1>8. c.cur # None => c.cur \in Sessions
  <2>1. c.cur \in 0..m
    BY <1>1 DEF Tabs
  <2> QED BY <2>1, TabAssumption DEF Sessions, None
<1>9. /\ d \in Tabs(m) /\ d.st = c.st /\ d.cur = c.cur /\ d.told = c.told /\ d.arrived = c.arrived
      /\ d.anchor = c.anchor /\ d.saved = c.saved /\ d.handled = c.handled /\ (d.scout => f)
      /\ d.dom = c.dom /\ d.tasks = c.tasks
  BY <1>1 DEF Tabs
<1> HIDE DEF d
<1>10. Tidy(d) /\ (Waiting(d) /\ d.arrived >= Variants => Ours(d))
  <2>1. Kept(d) /\ RetriesAreDone(d)
    BY <1>5, <1>9 DEF Kept, RetriesAreDone, isHandled
  <2>2. ScoutWaits(d)
    BY <1>7, <1>8, <1>9 DEF ScoutWaits, Wrappers
  <2>3. (Waiting(d) <=> Waiting(c)) /\ (Ours(d) <=> Ours(c))
    BY <1>9 DEF Waiting, Ours
  <2> QED BY <1>5, <1>9, <2>1, <2>2, <2>3 DEF Tidy
<1> QED BY <1>1, <1>6, <1>9, <1>10, StateIsTidy

-----------------------------------------------------------------------------
(* Ended generations: what a step leaves as it was *)

LEMMA PursuitFacts ==
  ASSUME SessionInv, PursuitInv
  PROVE  /\ started \in 0..NSessions /\ started \in Nat /\ tab \in Tabs(started)
         /\ Good(tab, started) /\ Sound(tab, started) /\ None \in 0..started
         /\ srv \in Lists(started) /\ src \in Sources(started)
         /\ srv \in [Sessions -> SrvPhases] /\ src \in [Sessions -> Int]
         /\ tab.cur # None => tab.cur \in Sessions /\ tab.cur \in 1..started
         /\ \A t \in tab.tasks : t \in Tasks(started) /\ OfSession(t)
         /\ stream \in Seq(EventSet(started))
         /\ Tidy(tab) /\ Kept(tab) /\ ScoutWaits(tab) /\ RetriesAreDone(tab)
         /\ StreamInv /\ SourceInv /\ Followed(tab, stream)
<1>1. tab \in Tabs(started) /\ 1..started \subseteq Sessions
      /\ \A s \in 0..started : s # None => s \in 1..started
  BY SessionFacts
<1>2. tab.cur # None => tab.cur \in Sessions /\ tab.cur \in 1..started
  BY <1>1 DEF Tabs
<1>3. \A t \in tab.tasks : t \in Tasks(started) /\ OfSession(t)
  BY <1>1, SessionFacts DEF Tabs, Sound
<1> QED BY <1>2, <1>3, SessionFacts DEF PursuitInv, Tidy, Lists, Sources

\* The tab alone changes.
LEMMA TabFollows ==
  ASSUME PursuitInv, NEW b, Tidy(b), Followed(b, stream), tab' = b,
         UNCHANGED <<framework, srv, src, stream, conn>>
  PROVE  PursuitInv'
<1>1. Tidy(tab)'
  BY DEF Tidy, Kept, ScoutWaits, RetriesAreDone, isHandled
<1>2. StreamInv'
  BY DEF PursuitInv, StreamInv, Announced
<1>3. SourceInv'
  BY DEF PursuitInv, SourceInv
<1>4. Followed(tab, stream)'
  <2>1. /\ Waiting(b)' <=> Waiting(b)
        /\ Ours(b)' <=> Ours(b)
        /\ Ready(b.cur)' <=> Ready(b.cur)
        /\ \A t : Chases(b, t)' <=> Chases(b, t)
    BY DEF Waiting, Ours, Ready, Chases
  <2>2. AllCounted(tab, stream)'
    BY <2>1 DEF Followed, AllCounted, Waiting, Ours, Ready, Announced
  <2>3. Chased(tab, stream)'
    BY <2>1 DEF Followed, Chased, Waiting, Ready, Chases, Announced, ListedReady
  <2> QED BY <2>2, <2>3 DEF Followed
<1> QED BY <1>1, <1>2, <1>3, <1>4 DEF PursuitInv

LEMMA CalmFollows ==
  ASSUME PursuitInv, NEW b, Tidy(b), ~Waiting(b), tab' = b,
         UNCHANGED <<framework, srv, src, stream, conn>>
  PROVE  PursuitInv'
  BY TabFollows, CalmIsFollowed

LEMMA KinFollows ==
  ASSUME PursuitInv, NEW b, Kin(tab, b), tab' = b, UNCHANGED <<framework, srv, src, stream, conn>>
  PROVE  PursuitInv'
  BY TabFollows, KinIsTidy DEF PursuitInv

LEMMA OverFollows ==
  ASSUME PursuitInv, NEW b, Over(tab, b), tab' = b, UNCHANGED <<framework, srv, src, stream, conn>>
  PROVE  PursuitInv'
  BY CalmFollows, OverIsTidy DEF PursuitInv, Tidy

\* The world changes, the tab does not: no session becomes ready unannounced.
LEMMA WorldFollows ==
  ASSUME SessionInv, PursuitInv, UNCHANGED <<framework, tab, conn>>, StreamInv', SourceInv',
         \A s \in Sessions : Ready(s)' => Ready(s) \/ (conn = "open" => Announced(stream', s)),
         \A s \in Sessions : Announced(stream, s) => Announced(stream', s),
         \A s \in Sessions : ListedReady(stream, s) => ListedReady(stream', s)
  PROVE  PursuitInv'
<1>1. Tidy(tab)' /\ (tab.cur # None => tab.cur \in Sessions)
  BY PursuitFacts DEF Tidy, Kept, ScoutWaits, RetriesAreDone, isHandled
<1>2. AllCounted(tab, stream)'
  <2> SUFFICES ASSUME ~framework, Waiting(tab), tab.arrived >= Variants
               PROVE  \/ Ours(tab)
                      \/ /\ conn = "open"
                         /\ Ready(tab.cur)' => \/ Announced(stream', tab.cur)
                                               \/ \E t \in tab.tasks : t.k = "read" /\ t.s = tab.cur
    BY DEF AllCounted, Waiting, Ours, Ready, Announced
  <2> QED BY <1>1 DEF PursuitInv, Followed, AllCounted, Waiting
<1>3. Chased(tab, stream)'
  <2> SUFFICES ASSUME Waiting(tab), ~tab.late, tab.arrived < Variants, conn = "open", Ready(tab.cur)'
               PROVE  \/ Announced(stream', tab.cur) \/ ListedReady(stream', tab.cur)
                      \/ \E t \in tab.tasks : Chases(tab, t)
    BY DEF Chased, Waiting, Ready, Announced, ListedReady, Chases
  <2> QED BY <1>1 DEF PursuitInv, Followed, Chased, Waiting
<1> QED BY <1>1, <1>2, <1>3 DEF PursuitInv, Followed

\* Nothing that matters to the invariant changes.
LEMMA NothingFollows ==
  ASSUME PursuitInv, UNCHANGED <<framework, srv, src, tab, stream, conn>>
  PROVE  PursuitInv'
  BY TabFollows DEF PursuitInv

-----------------------------------------------------------------------------
(* Ended generations: the user and the requests *)

LEMMA PickFollows ==
  ASSUME SessionInv, PursuitInv, Pick \/ CancelConfigure
  PROVE  PursuitInv'
<1>1. /\ tab \in Tabs(started) /\ Tidy(tab) /\ started \in Nat
      /\ "CONFIGURING" # "GENERATING" /\ "PICKING" # "GENERATING"
  BY PursuitFacts
<1>2. CASE Pick
  <2> DEFINE k == tab.rev + 1
             left == {t \in tab.tasks : t.k \notin Voided}
             c == [tab EXCEPT !.rev = k, !.tasks = left]
             b == setLiveState(c, "CONFIGURING")
  <2>1. Become(b)
    BY <1>1, <1>2 DEF Pick, Tabs
  <2>2. left \subseteq tab.tasks
    OBVIOUS
  <2> HIDE DEF k, left
  <2>3. /\ b.st = "CONFIGURING" /\ b.cur = tab.cur /\ b.saved = tab.saved /\ b.dom = tab.dom
        /\ b.handled = tab.handled /\ b.scout = tab.scout /\ b.tasks = left
    BY <1>1 DEF setLiveState, Tabs
  <2> HIDE DEF b
  <2>4. Tidy(b) /\ ~Waiting(b)
    BY <1>1, <2>2, <2>3 DEF Tidy, Kept, ScoutWaits, RetriesAreDone, isHandled, Waiting
  <2> QED BY <2>1, <2>4, CalmFollows DEF Become
<1>3. CASE CancelConfigure
  <2>1. Tidy(setLiveState(tab, "PICKING")) /\ ~Waiting(setLiveState(tab, "PICKING"))
    BY <1>1, StateIsTidy
  <2> QED BY <1>3, <2>1, CalmFollows DEF CancelConfigure, Become
<1> QED BY <1>2, <1>3

\* The new session has not ended, and nothing of it is on the page.
LEMMA GoFollows ==
  ASSUME SessionInv, PursuitInv, Go
  PROVE  PursuitInv'
<1> DEFINE k == started + 1
           c == [tab EXCEPT !.pend = None, !.awaiting = None, !.cur = k, !.observed = k]
           z == 0
           d == [c EXCEPT !.arrived = z, !.file = FALSE, !.st = "GENERATING", !.told = FALSE,
                       !.late = FALSE]
           t == Timer("capture", k, 0)
           a == Asked(k)
<1>1. /\ started \in Nat /\ started < NSessions /\ UNCHANGED <<framework, srv, src, stream, conn>>
      /\ Good(tab, started) /\ srv \in Lists(started) /\ RetriesAreDone(tab) /\ Sound(tab, started)
  BY PursuitFacts DEF Go, Another
<1>2. k \in Nat /\ k \in Sessions /\ k > started /\ k # None /\ k \in 0..k /\ None \in 0..k
      /\ z = 0 /\ z \in Int /\ "GENERATING" \in States
  BY <1>1, TabAssumption DEF Sessions, None, States
<1>3. tab' = a \/ tab' = Later(a, t)
  BY DEF Go
<1>4. t.k = "capture"
  BY TaskFields
<1>5. tab \in Tabs(k)
  BY <1>1, GoodOfMore DEF Good, Sound
<1>6. a = saveSession(d)
  BY <1>5 DEF Asked, Tabs
<1> HIDE DEF k, z, t, a
<1>7. /\ c \in Tabs(k) /\ c.cur = k /\ c.tasks = tab.tasks /\ c.dom = tab.dom
      /\ c.scout = tab.scout
  BY <1>2, <1>5 DEF Tabs
<1> HIDE DEF c
<1>8. /\ d \in Tabs(k) /\ d.cur = k /\ d.tasks = tab.tasks /\ d.dom = tab.dom
      /\ d.scout = tab.scout /\ d.arrived = z
  BY <1>2, <1>7 DEF Tabs
<1> HIDE DEF d
<1>9. /\ a.cur = k /\ a.tasks = tab.tasks /\ a.dom = tab.dom /\ a.scout = tab.scout /\ a.arrived = 0
      /\ a.saved.id = k
  BY <1>2, <1>6, <1>8, SavedIsTidy
<1>10. a \in Tabs(k)
  <2>1. Good(Asked(started + 1), started + 1)
    BY <1>1, AskedIsGood
  <2> QED BY <2>1 DEF Good, Sound, k, a
<1>11. tab.dom[k] = Absent /\ srv[k] = "none"
  BY <1>1, <1>2 DEF Sound, Lists
<1>12. Tidy(a)
  BY <1>1, <1>2, <1>9, <1>11 DEF Tidy, Kept, ScoutWaits, RetriesAreDone
<1>13. Followed(a, stream)
  BY <1>2, <1>9, <1>11, TabAssumption DEF Followed, AllCounted, Chased, Ready
<1>14. CASE tab' = a
  BY <1>1, <1>12, <1>13, <1>14, TabFollows
<1>15. CASE tab' = Later(a, t)
  <2>1. Kin(a, Later(a, t))
    BY <1>2, <1>4, <1>10, LaterIsSame DEF Telling
  <2>2. Tidy(Later(a, t)) /\ Followed(Later(a, t), stream)
    BY <1>12, <1>13, <2>1, KinIsTidy
  <2> QED BY <1>1, <1>15, <2>2, TabFollows
<1> QED BY <1>3, <1>14, <1>15

LEMMA DecisionsFollow ==
  ASSUME SessionInv, PursuitInv, handleAccept \/ handleDiscard
  PROVE  PursuitInv'
<1>1. CASE handleAccept
  <2> DEFINE c == [tab EXCEPT !.st = "SAVING", !.pend = tab.cur]
  <2>1. tab \in Tabs(started) /\ started \in Nat /\ Tidy(tab) /\ "SAVING" \in States
    BY PursuitFacts DEF States
  <2>2. tab' = saveSession(c) /\ UNCHANGED <<framework, srv, src, stream, conn>>
    BY <1>1, <2>1 DEF handleAccept, Tabs
  <2>3. /\ c \in Tabs(started) /\ c.st = "SAVING" /\ c.cur = tab.cur /\ c.saved = tab.saved
        /\ c.dom = tab.dom /\ c.handled = tab.handled /\ c.scout = tab.scout /\ c.tasks = tab.tasks
    BY <2>1 DEF Tabs
  <2> HIDE DEF c
  <2>4. Tidy(c) /\ ~Waiting(c)
    BY <2>1, <2>3 DEF Tidy, Kept, ScoutWaits, RetriesAreDone, isHandled, Waiting
  <2>5. Tidy(saveSession(c)) /\ ~Waiting(saveSession(c))
    BY <2>1, <2>3, <2>4, SavingKeeps DEF Tidy
  <2> QED BY <2>2, <2>5, CalmFollows
<1>2. CASE handleDiscard
  BY <1>2, NothingFollows DEF handleDiscard
<1> QED BY <1>1, <1>2

LEMMA ReloadFollows ==
  ASSUME SessionInv, PursuitInv, NEW by, Reload(by)
  PROVE  PursuitInv'
<1>1. PICK dom \in {src} \cup {[s \in Sessions |-> Absent]} :
        tab' = boot(Fresh(tab.saved, tab.handled, tab.tries, dom))
  BY DEF Reload
<1> DEFINE b == Fresh(tab.saved, tab.handled, tab.tries, dom)
           c == boot(b)
<1>2. dom \in Sources(started)
  <2>1. [s \in Sessions |-> Absent] \in Sources(started)
    BY DEF Sources, Absent
  <2> QED BY <1>1, <2>1, SessionFacts
<1>3. Good(b, started) /\ b.cur = None /\ b.anchor = None /\ b.tasks = {}
  BY <1>2, FreshIsGood
<1>4. tab' = c /\ stream' = <<>> /\ conn' = "down" /\ UNCHANGED <<framework, srv, src>>
  BY <1>1 DEF Reload
<1> HIDE DEF b
<1>5. Tidy(c) /\ (Waiting(c) /\ c.arrived >= Variants => Ours(c))
  BY <1>3, SessionFacts, BootedKeeps
<1> HIDE DEF c
<1>6. StreamInv' /\ SourceInv'
  BY <1>4, PursuitFacts DEF StreamInv, SourceInv
<1>7. Tidy(tab)'
  BY <1>4, <1>5 DEF Tidy, Kept, ScoutWaits, RetriesAreDone, isHandled
<1>8. Followed(tab, stream)'
  BY <1>4, <1>5 DEF Followed, AllCounted, Chased, Waiting, Ours
<1> QED BY <1>6, <1>7, <1>8 DEF PursuitInv

\* What the server takes ends no generation.
LEMMA ServeFollows ==
  ASSUME SessionInv, PursuitInv, NEW p \in posts, Serve(p)
  PROVE  PursuitInv'
<1>1. /\ UNCHANGED <<framework, src, tab, stream, conn>> /\ srv \in [Sessions -> SrvPhases]
      /\ StreamInv /\ SourceInv
  BY PursuitFacts DEF Serve
<1>2. \A s \in Sessions : srv'[s] = "ready" => srv[s] = "ready"
  <2>1. srv' = srv \/ \E ph \in {"generating", "accepted", "discarded"} : srv' = [srv EXCEPT ![p.s] = ph]
    BY DEF Serve, Accepted, Refused
  <2> QED BY <1>1, <2>1
<1>3. StreamInv'
  BY <1>1, <1>2 DEF StreamInv, Announced
<1>4. SourceInv'
  BY <1>1, <1>2 DEF SourceInv
<1>5. \A s \in Sessions : Ready(s)' => Ready(s)
  BY <1>1, <1>2 DEF Ready
<1> QED BY <1>1, <1>3, <1>4, <1>5, WorldFollows

LEMMA AnswersFollow ==
  ASSUME SessionInv, PursuitInv, NEW p \in posts, Lose(p) \/ Answer(p)
  PROVE  PursuitInv'
<1>1. CASE Lose(p)
  BY <1>1, NothingFollows DEF Lose
<1>2. CASE Answer(p)
  <2>1. /\ p \in PostSet(started) /\ started \in Nat /\ tab \in Tabs(started)
        /\ Good(tab, started) /\ Sound(tab, started) /\ None \in 0..started /\ Tidy(tab)
        /\ RetriesAreDone(tab) /\ UNCHANGED <<framework, srv, src, stream, conn>>
    BY <1>2, SessionFacts, PursuitFacts DEF Answer
  <2>2. p.s \in 1..started /\ p.s \in 0..started
    BY <2>1 DEF PostSet
  <2> DEFINE c == [tab EXCEPT !.awaiting = p.s]
             f == finishAccept(c, p.s)
             h == cleanup(markSessionHandled(tab))
             v == IF tab.pend = p.s THEN None ELSE tab.pend
             d == [tab EXCEPT !.pend = v]
             g == setLiveState(d, "CYCLING")
  <2>3. tab' \in {f, h, g, tab}
    <3>1. Confirmed(p) \in {f, h, tab}
      BY DEF Confirmed
    <3>2. Unconfirmed(p) \in {g, tab}
      BY <2>1 DEF Unconfirmed, Tabs
    <3> QED BY <1>2, <3>1, <3>2 DEF Answer
  <2>4. CASE tab' = f
    <3>1. c \in Tabs(started) /\ c.st = tab.st /\ Alike(tab, c)
      BY <2>1, <2>2 DEF Tabs, Alike
    <3> HIDE DEF c
    <3>2. Over(c, f)
      BY <2>1, <2>2, <3>1, AlikeIsGood, FinishedIsOver DEF Good
    <3>3. Over(tab, f)
      BY <3>1, <3>2 DEF Over, Alike
    <3> QED BY <2>1, <2>4, <3>3, OverFollows
  <2>5. CASE tab' = h
    BY <2>1, <2>5, AbandonedIsOver, OverFollows
  <2>6. CASE tab' = g
    <3>1. v \in 0..started
      BY <2>1 DEF Tabs
    <3> HIDE DEF v
    <3>2. /\ d \in Tabs(started) /\ d.cur = tab.cur /\ d.saved = tab.saved /\ d.dom = tab.dom
          /\ d.handled = tab.handled /\ d.scout = tab.scout /\ d.tasks = tab.tasks
      BY <2>1, <3>1 DEF Tabs
    <3> HIDE DEF d
    <3>3. Tidy(d)
      BY <2>1, <3>2 DEF Tidy, Kept, ScoutWaits, RetriesAreDone, isHandled
    <3>4. Tidy(g) /\ ~Waiting(g)
      BY <2>1, <3>2, <3>3, StateIsTidy
    <3> QED BY <2>1, <2>6, <3>4, CalmFollows
  <2>7. CASE tab' = tab
    BY <2>1, <2>7, NothingFollows
  <2> QED BY <2>3, <2>4, <2>5, <2>6, <2>7
<1> QED BY <1>1, <1>2

-----------------------------------------------------------------------------
(* Ended generations: the stream of events *)

\* A fault befalls the first session while it is the only one.
LEMMA ConnectionFollows ==
  ASSUME SessionInv, PursuitInv, Connect \/ Disconnect
  PROVE  PursuitInv'
<1>1. /\ UNCHANGED <<framework, srv, src, tab>> /\ Followed(tab, stream) /\ StreamInv /\ SourceInv
      /\ Tidy(tab) /\ (tab.cur # None => tab.cur \in Sessions)
  BY PursuitFacts DEF Connect, Disconnect
<1>2. Tidy(tab)' /\ SourceInv'
  BY <1>1 DEF Tidy, Kept, ScoutWaits, RetriesAreDone, isHandled, SourceInv
<1>3. CASE Connect
  <2> DEFINE e == Event("connected", None, activeSessions)
  <2>1. conn = "down" /\ conn' = "open" /\ stream' = <<e>>
    BY <1>3 DEF Connect
  <2>2. /\ e.ev = "connected" /\ e.listed = activeSessions
        /\ \A s \in Sessions : srv[s] = "ready" => activeSessions[s] = "ready"
    BY DEF Event, activeSessions
  <2> HIDE DEF e
  <2>3. StreamInv'
    BY <1>1, <2>1, <2>2 DEF StreamInv
  <2>4. AllCounted(tab, stream)'
    BY <1>1, <2>1 DEF Followed, AllCounted, Waiting, Ours
  <2>5. Chased(tab, stream)'
    <3> SUFFICES ASSUME Waiting(tab), Ready(tab.cur) PROVE ListedReady(stream', tab.cur)
      BY <1>1 DEF Chased, Waiting, Ready, ListedReady
    <3>1. stream'[1].listed[tab.cur] = "ready" /\ 1 \in DOMAIN stream'
      BY <1>1, <2>1, <2>2 DEF Waiting, Ready
    <3> QED BY <3>1 DEF ListedReady
  <2> QED BY <1>2, <2>3, <2>4, <2>5 DEF PursuitInv, Followed
<1>4. CASE Disconnect
  <2>1. conn' = "down" /\ stream' = <<>> /\ started = 1
    BY <1>4 DEF Disconnect, Fault
  <2>2. tab.cur # None => Ours(tab)
    <3>1. tab.cur # None => tab.cur = 1
      BY <2>1, PursuitFacts
    <3>2. tab.anchor \in 0..1
      BY <2>1, PursuitFacts DEF Tabs
    <3>3. \A t \in tab.tasks : t.k = "read" => t.s = 1
      <4> SUFFICES ASSUME NEW t \in tab.tasks, t.k = "read" PROVE t.s = 1
        OBVIOUS
      <4>1. t \in Tasks(1) /\ t.s # None
        BY <2>1, PursuitFacts DEF OfSession, Sourceless
      <4> QED BY <4>1 DEF Tasks, None
    <3> QED BY <3>1, <3>2, <3>3 DEF Ours, None
  <2>3. StreamInv'
    BY <2>1 DEF StreamInv
  <2>4. Followed(tab, stream)'
    BY <1>1, <2>1, <2>2 DEF Followed, AllCounted, Chased, Waiting, Ours
  <2> QED BY <1>2, <2>3, <2>4 DEF PursuitInv
<1> QED BY <1>3, <1>4

LEMMA GiveUpFollows ==
  ASSUME SessionInv, PursuitInv, GiveUp
  PROVE  PursuitInv'
<1> DEFINE st == IF tab.cur = None THEN "IDLE" ELSE tab.st
           told == tab.told \/ tab.st \in {"GENERATING", "CYCLING", "SAVING"}
           c == [tab EXCEPT !.st = st, !.told = told, !.observed = None]
           v == saveSession(c)
<1>1. tab \in Tabs(started) /\ Tidy(tab) /\ None \in 0..started /\ started \in Nat
      /\ StreamInv /\ SourceInv
  BY PursuitFacts
<1>2. /\ tab' = v /\ UNCHANGED <<framework, srv, src, stream>>
      /\ conn = "down" /\ conn' = "lost"
  BY <1>1 DEF GiveUp, Tabs
<1>3. st \in States /\ told \in BOOLEAN /\ (st = "GENERATING" => told)
  BY <1>1 DEF Tabs, States
<1> HIDE DEF st, told
<1>4. /\ c \in Tabs(started) /\ c.st = st /\ (c.told <=> told) /\ c.cur = tab.cur
      /\ c.saved = tab.saved /\ c.dom = tab.dom /\ c.handled = tab.handled /\ c.scout = tab.scout
      /\ c.tasks = tab.tasks
  BY <1>1, <1>3 DEF Tabs
<1> HIDE DEF c
<1>5. Tidy(c) /\ ~Waiting(c)
  BY <1>1, <1>3, <1>4 DEF Tidy, Kept, ScoutWaits, RetriesAreDone, isHandled, Waiting
<1>6. Tidy(v) /\ ~Waiting(v)
  BY <1>1, <1>4, <1>5, SavingKeeps DEF Tidy
<1> HIDE DEF v
<1>7. StreamInv' /\ SourceInv'
  BY <1>1, <1>2 DEF StreamInv, SourceInv
<1>8. Tidy(tab)' /\ ~Waiting(tab)'
  BY <1>2, <1>6 DEF Tidy, Kept, ScoutWaits, RetriesAreDone, isHandled, Waiting
<1>9. Followed(tab, stream)'
  BY <1>8 DEF Followed, AllCounted, Chased
<1> QED BY <1>7, <1>8, <1>9 DEF PursuitInv

\* What the first event leaves on its way.
LEMMA TailFacts ==
  ASSUME SessionInv, PursuitInv, stream # <<>>
  PROVE  LET e == Head(stream)
             q == Tail(stream)
         IN  /\ conn = "open" /\ e \in EventSet(started)
             /\ \A i \in DOMAIN q : q[i].ev # "connected" /\ q[i].listed = Unheard
             /\ \A s \in Sessions : Announced(stream, s) => Announced(q, s) \/ (e.ev = "done" /\ e.s = s)
             /\ \A s \in Sessions : ListedReady(stream, s) => e.ev = "connected" /\ e.listed[s] = "ready"
             /\ e.ev = "connected" =>
                  \A s \in Sessions : srv[s] = "ready" => e.listed[s] = "ready" \/ Announced(q, s)
<1> DEFINE e == Head(stream)
           q == Tail(stream)
<1>1. stream \in Seq(EventSet(started)) /\ StreamInv
  BY PursuitFacts
<1>2. /\ e = stream[1] /\ 1 \in DOMAIN stream /\ e \in EventSet(started)
      /\ \A i \in DOMAIN q : q[i] = stream[i + 1] /\ i + 1 \in DOMAIN stream /\ i + 1 # 1
      /\ \A i \in DOMAIN stream : i = 1 \/ (i - 1 \in DOMAIN q /\ q[i - 1] = stream[i])
  <2>1. Len(stream) \in Nat /\ Len(stream) > 0 /\ DOMAIN stream = 1..Len(stream)
    BY <1>1
  <2>2. DOMAIN q = 1..(Len(stream) - 1) /\ \A i \in 1..(Len(stream) - 1) : q[i] = stream[i + 1]
    BY <1>1, <2>1
  <2>3. e = stream[1] /\ e \in EventSet(started)
    BY <1>1, <2>1
  <2> HIDE DEF q, e
  <2> QED BY <2>1, <2>2, <2>3
<1> HIDE DEF e, q
<1>3. conn = "open"
  BY <1>1 DEF StreamInv
<1>4. \A i \in DOMAIN q : q[i].ev # "connected" /\ q[i].listed = Unheard
  BY <1>1, <1>2 DEF StreamInv
<1>5. \A s \in Sessions : Announced(stream, s) => Announced(q, s) \/ (e.ev = "done" /\ e.s = s)
  <2> SUFFICES ASSUME NEW s \in Sessions, NEW i \in DOMAIN stream,
                      stream[i].ev = "done", stream[i].s = s
               PROVE  Announced(q, s) \/ (e.ev = "done" /\ e.s = s)
    BY DEF Announced
  <2> QED BY <1>2 DEF Announced
<1>6. \A s \in Sessions : ListedReady(stream, s) => e.ev = "connected" /\ e.listed[s] = "ready"
  <2> SUFFICES ASSUME NEW s \in Sessions, NEW i \in DOMAIN stream, stream[i].listed[s] = "ready"
               PROVE  e.ev = "connected" /\ e.listed[s] = "ready"
    BY DEF ListedReady
  <2>1. Unheard[s] # "ready"
    BY DEF Unheard
  <2>2. stream[i].ev = "connected" /\ i = 1
    BY <1>1, <2>1 DEF StreamInv
  <2> QED BY <1>2, <2>2
<1>7. e.ev = "connected" =>
        \A s \in Sessions : srv[s] = "ready" => e.listed[s] = "ready" \/ Announced(q, s)
  BY <1>1, <1>2, <1>5 DEF StreamInv
<1> QED BY <1>2, <1>3, <1>4, <1>5, <1>6, <1>7 DEF e, q

LEMMA TabHears ==
  ASSUME SessionInv, PursuitInv, Deliver, NEW b, Tidy(b), Followed(b, Tail(stream)), tab' = b
  PROVE  PursuitInv'
<1> DEFINE q == Tail(stream)
<1>1. /\ stream # <<>> /\ stream' = q /\ UNCHANGED <<framework, srv, src, conn>> /\ SourceInv
  BY PursuitFacts DEF Deliver
<1>2. conn = "open" /\ \A i \in DOMAIN q : q[i].ev # "connected" /\ q[i].listed = Unheard
  BY <1>1, TailFacts
<1>3. q # <<>> => 1 \in DOMAIN q
  <2>1. stream \in Seq(EventSet(started))
    BY SessionFacts
  <2> QED BY <1>1, <2>1
<1>4. Followed(b, q)
  OBVIOUS
<1> HIDE DEF q
<1>5. StreamInv'
  BY <1>1, <1>2, <1>3 DEF StreamInv
<1>6. Tidy(tab)' /\ SourceInv'
  BY <1>1 DEF Tidy, Kept, ScoutWaits, RetriesAreDone, isHandled, SourceInv
<1>7. Followed(tab, stream)'
  <2>1. AllCounted(tab, stream)'
    BY <1>1, <1>4 DEF Followed, AllCounted, Waiting, Ours, Ready, Announced
  <2>2. Chased(tab, stream)'
    BY <1>1, <1>4 DEF Followed, Chased, Waiting, Ready, Chases, Announced, ListedReady
  <2> QED BY <2>1, <2>2 DEF Followed
<1> QED BY <1>5, <1>6, <1>7 DEF PursuitInv

\* An event that tells of no end leaves all that does.
LEMMA OtherEventsFollow ==
  ASSUME SessionInv, PursuitInv, stream # <<>>, Head(stream).ev \notin {"connected", "done"},
         NEW b, b.cur # None => b.cur \in Sessions, Followed(b, stream)
  PROVE  Followed(b, Tail(stream))
<1>1. \A s \in Sessions : /\ Announced(stream, s) => Announced(Tail(stream), s)
                          /\ ~ListedReady(stream, s)
  BY TailFacts
<1> QED BY <1>1 DEF Followed, AllCounted, Chased, Waiting

\* The list says what has ended, or its end is announced.
LEMMA ConnectedFollows ==
  ASSUME SessionInv, PursuitInv, Deliver, Head(stream).ev = "connected"
  PROVE  PursuitInv'
<1> DEFINE l == Head(stream).listed
           q == Tail(stream)
           b == IF Wrappers(tab) = {} /\ Restorable(tab, l) THEN restoreWithoutWrapper(tab, l)
                ELSE tab
           a == recoverMissed(b, l)
           c == [a EXCEPT !.late = FALSE]
<1>1. /\ started \in 0..NSessions /\ started \in Nat /\ Good(tab, started) /\ tab \in Tabs(started)
      /\ src \in Sources(started) /\ stream # <<>> /\ Tidy(tab) /\ Followed(tab, stream)
      /\ tab.cur # None => tab.cur \in Sessions
  BY PursuitFacts DEF Deliver
<1>2. /\ conn = "open" /\ l \in Lists(started)
      /\ \A s \in Sessions : Announced(stream, s) => Announced(q, s)
      /\ \A s \in Sessions : srv[s] = "ready" => l[s] = "ready" \/ Announced(q, s)
  BY <1>1, TailFacts DEF EventSet
<1>3. tab' = IF c.st = "IDLE" THEN setLiveState(c, "PICKING") ELSE c
  BY DEF Deliver, Handled, onConnected
<1>q. q = Tail(stream)
  OBVIOUS
<1> HIDE DEF l, q
<1>4. Good(b, started) /\ b \in Tabs(started) /\ (b.cur # None => b.cur \in Sessions)
  <2>1. Good(b, started)
    BY <1>1, <1>2, RestoredIsGood
  <2> HIDE DEF b
  <2>2. b \in Tabs(started)
    BY <2>1 DEF Good, Sound
  <2>3. b.cur \in 0..started
    BY <2>2 DEF Tabs
  <2> QED BY <2>1, <2>2, <2>3, SessionFacts
<1>5. Tidy(b) /\ AllCounted(b, q)
  <2>1. CASE b = tab
    BY <1>1, <1>2, <2>1 DEF Followed, AllCounted, Waiting
  <2>2. CASE Wrappers(tab) = {} /\ Restorable(tab, l) /\ b = restoreWithoutWrapper(tab, l)
    <3> DEFINE r == Record(tab, l)
    <3>1. /\ Kept(b) /\ (RetriesAreDone(tab) => RetriesAreDone(b))
          /\ b.cur = None \/ (b.cur = r.id /\ b.scout = tab.scout /\ b.dom = tab.dom)
          /\ \/ ~Waiting(b)
             \/ /\ b.cur = r.id
                /\ ~framework /\ r.id \in Open(l) /\ HasFile(r.id) =>
                      \E x \in b.tasks : x.k = "read" /\ x.s = r.id
      BY <1>1, <1>2, <2>2, RestoredKeeps
    <3> HIDE DEF b, r
    <3>2. ScoutWaits(b)
      BY <1>4, <2>2, <3>1 DEF ScoutWaits, Wrappers
    <3>3. AllCounted(b, q)
      <4> SUFFICES ASSUME ~framework, Waiting(b), Ready(b.cur)
                   PROVE  Announced(q, b.cur) \/ \E t \in b.tasks : t.k = "read" /\ t.s = b.cur
        BY <1>2 DEF AllCounted
      <4>1. b.cur \in Sessions /\ srv[b.cur] = "ready"
        BY <1>4 DEF Waiting, Ready
      <4>2. CASE l[b.cur] = "ready"
        <5>1. b.cur \in Open(l) /\ HasFile(b.cur)
          BY <4>1, <4>2 DEF Open, HasFile
        <5> QED BY <3>1, <5>1
      <4>3. CASE Announced(q, b.cur)
        BY <4>3
      <4> QED BY <1>2, <4>1, <4>2, <4>3
    <3> QED BY <1>1, <3>1, <3>2, <3>3 DEF Tidy
  <2> QED BY <2>1, <2>2
<1> HIDE DEF b
<1>6. /\ a \in Tabs(started)
      /\ a.st = b.st /\ a.cur = b.cur /\ a.told = b.told /\ a.arrived = b.arrived
      /\ a.anchor = b.anchor /\ a.saved = b.saved /\ a.handled = b.handled /\ a.scout = b.scout
      /\ a.dom = b.dom /\ b.tasks \subseteq a.tasks
      /\ \A t \in a.tasks : t \in b.tasks \/ t.k = "settle"
      /\ b.cur # None /\ b.st = "GENERATING" /\ l[b.cur] = "ready" /\ b.arrived < Variants =>
            \E t \in a.tasks : t.k = "settle" /\ t.s = b.cur
  <2> DEFINE d == [b EXCEPT !.file = TRUE]
             t == Timer("settle", b.cur, 0)
  <2>1. a = IF b.cur # None /\ b.st = "GENERATING" /\ l[b.cur] = "ready" /\ b.arrived < Variants
            THEN Later(d, t) ELSE b
    BY DEF recoverMissed
  <2>2. t \in Tasks(started) /\ t.k = "settle" /\ t.s = b.cur
    <3> DEFINE z == 0
    <3>1. z \in Nat /\ "settle" \in TaskKinds /\ b.cur \in 0..started
      BY <1>4 DEF TaskKinds, Tabs
    <3> HIDE DEF z
    <3>2. Timer("settle", b.cur, z) \in Tasks(started) /\ Timer("settle", b.cur, z).k = "settle"
          /\ Timer("settle", b.cur, z).s = b.cur
      BY <1>1, <3>1, TimersAreTyped
    <3> QED BY <3>2 DEF z
  <2> HIDE DEF a, t
  <2>3. d \in Tabs(started) /\ Same(b, d) /\ d.tasks = b.tasks
    BY <1>4 DEF Tabs, Same
  <2> HIDE DEF d
  <2>4. Later(d, t) \in Tabs(started)
    BY <2>2, <2>3 DEF Later, Tabs
  <2>5. Same(d, Later(d, t)) /\ Later(d, t).tasks = b.tasks \cup {t}
    BY <1>1, <2>3, LaterIsSame
  <2> QED BY <1>4, <2>1, <2>2, <2>3, <2>4, <2>5 DEF Same
<1> HIDE DEF a
<1>7. /\ c \in Tabs(started)
      /\ c.st = b.st /\ c.cur = b.cur /\ c.told = b.told /\ c.arrived = b.arrived
      /\ c.anchor = b.anchor /\ c.saved = b.saved /\ c.handled = b.handled /\ c.scout = b.scout
      /\ c.dom = b.dom /\ c.tasks = a.tasks
  BY <1>6 DEF Tabs
<1> HIDE DEF c
<1>8. Tidy(c)
  BY <1>5, <1>6, <1>7 DEF Tidy, Kept, ScoutWaits, RetriesAreDone, isHandled
<1>9. AllCounted(c, q)
  <2>1. (Waiting(c) <=> Waiting(b)) /\ (Ours(b) => Ours(c))
    BY <1>6, <1>7 DEF Waiting, Ours
  <2> QED BY <1>5, <1>6, <1>7, <2>1 DEF AllCounted
<1>10. Chased(c, q)
  <2> SUFFICES ASSUME Waiting(c), c.arrived < Variants, Ready(c.cur)
               PROVE  Announced(q, c.cur) \/ \E t \in c.tasks : Chases(c, t)
    BY DEF Chased
  <2>1. c.cur \in Sessions /\ srv[c.cur] = "ready"
    BY <1>4, <1>7 DEF Waiting, Ready
  <2>2. CASE l[c.cur] = "ready"
    BY <1>6, <1>7, <2>2 DEF Waiting, Chases
  <2> QED BY <1>2, <2>1, <2>2
<1>11. Tidy(setLiveState(c, "PICKING")) /\ ~Waiting(setLiveState(c, "PICKING"))
  BY <1>1, <1>7, <1>8, StateIsTidy
<1> DEFINE p == setLiveState(c, "PICKING")
<1> HIDE DEF p
<1>12. tab' = c \/ tab' = p
  BY <1>3 DEF p
<1>13. Followed(c, Tail(stream)) /\ Followed(p, Tail(stream))
  BY <1>9, <1>10, <1>11, <1>q, CalmIsFollowed DEF Followed, p
<1> QED BY <1>8, <1>11, <1>12, <1>13, TabHears DEF p

\* A "done" of the tab's session, or of another, sets a timer that looks, or tells.
LEMMA DoneFollows ==
  ASSUME SessionInv, PursuitInv, Deliver, Head(stream).ev = "done"
  PROVE  PursuitInv'
<1> DEFINE s == Head(stream).s
           q == Tail(stream)
           d == [tab EXCEPT !.file = TRUE]
           b == d
           t == Timer("settle", s, 0)
           u == Timer("missing", None, 0)
           x == IF s = b.cur THEN t ELSE u
           g == setLiveState(b, "CYCLING")
<1>1. /\ started \in Nat /\ tab \in Tabs(started) /\ Tidy(tab) /\ stream # <<>>
      /\ tab.arrived \in Int /\ Variants \in Nat
  BY PursuitFacts, TabAssumption DEF Deliver, Tabs
<1>2. tab' = onDone(s)
  BY DEF Deliver, Handled
<1>3. /\ (t.k = "settle" /\ t.s = s) /\ (u.k = "missing" /\ u.s = None)
  BY TaskFields
<1>4. onDone(s) = IF b.arrived >= Variants
                  THEN IF b.st = "GENERATING" THEN g ELSE b
                  ELSE IF b.st = "GENERATING" THEN Later(b, x) ELSE b
  BY DEF onDone
<1>5. d \in Tabs(started) /\ Same(tab, d) /\ d.tasks = tab.tasks
  BY <1>1 DEF Tabs, Same
<1> HIDE DEF d, s, t, u, q
<1>6. b \in Tabs(started) /\ Same(tab, b) /\ b.tasks = tab.tasks
  BY <1>1, <1>5 DEF Same
<1>7. x.k \in {"settle", "missing"} /\ (x.k = "settle" => x.s = b.cur) /\ (x.k = "missing" => x.s = None)
  BY <1>3
<1> HIDE DEF b, x
<1>8. Tidy(b)
  BY <1>1, <1>6, SameIsTidy
<1>9. CASE tab' = b /\ b.st # "GENERATING"
  BY <1>8, <1>9, CalmIsFollowed, TabHears DEF Waiting
<1>10. CASE tab' = g
  <2>1. Tidy(g) /\ ~Waiting(g)
    BY <1>1, <1>6, <1>8, StateIsTidy
  <2> HIDE DEF g
  <2> QED BY <1>10, <2>1, CalmIsFollowed, TabHears
<1>11. CASE tab' = Later(b, x) /\ ~(b.arrived >= Variants)
  <2> DEFINE c == Later(b, x)
  <2>1. Same(b, c) /\ c.tasks = b.tasks \cup {x}
    BY <1>1, <1>6, LaterIsSame
  <2> HIDE DEF c
  <2>2. Tidy(c)
    BY <1>7, <1>8, <2>1, SameIsTidy
  <2>3. Chases(c, x) /\ x \in c.tasks /\ ~(c.arrived >= Variants)
    BY <1>7, <1>11, <2>1 DEF Chases, Same
  <2>4. Followed(c, Tail(stream))
    BY <2>3 DEF Followed, AllCounted, Chased
  <2> QED BY <1>11, <2>2, <2>4, TabHears DEF c
<1>12. tab' \in {g, Later(b, x)} \/ (tab' = b /\ b.st # "GENERATING")
  BY <1>2, <1>4
<1> QED BY <1>2, <1>4, <1>9, <1>10, <1>11, <1>12

\* Every other event takes the session from the tab, tells the user, or changes nothing here.
LEMMA DeliverFollows ==
  ASSUME SessionInv, PursuitInv, Deliver
  PROVE  PursuitInv'
<1> DEFINE e == Head(stream)
           s == e.s
<1>1. /\ started \in Nat /\ tab \in Tabs(started) /\ Sound(tab, started) /\ Tidy(tab)
      /\ RetriesAreDone(tab) /\ Kept(tab) /\ stream # <<>> /\ None \in 0..started
      /\ tab.cur # None => tab.cur \in Sessions
      /\ Followed(tab, stream) /\ tab' = Handled(e) /\ e \in EventSet(started)
  BY PursuitFacts, TailFacts DEF Deliver
<1>2. e.ev # "connected" => s \in 1..started
  BY <1>1, SessionFacts DEF EventSet
<1>3. e.ev \in {"connected", "progress", "done", "complete", "discarded", "error"}
  BY <1>1 DEF EventSet
<1>4. ASSUME NEW b, Over(tab, b) PROVE tab' = b => PursuitInv'
  BY <1>1, <1>4, OverIsTidy, CalmIsFollowed, TabHears
<1>5. ASSUME NEW b, Tidy(b), ~Waiting(b) PROVE tab' = b => PursuitInv'
  BY <1>5, CalmIsFollowed, TabHears
<1>6. ASSUME NEW b, Same(tab, b), b.tasks = tab.tasks, e.ev \notin {"connected", "done"}
      PROVE  tab' = b => PursuitInv'
  <2>1. Tidy(b) /\ Followed(b, stream)
    BY <1>1, <1>6, SameIsTidy, SameIsFollowed
  <2>2. Followed(b, Tail(stream))
    BY <1>1, <1>6, <2>1, OtherEventsFollow DEF Same
  <2> QED BY <2>1, <2>2, TabHears
<1>7. Same(tab, tab)
  BY DEF Same
<1>8. CASE e.ev = "connected"
  BY <1>8, ConnectedFollows
<1>9. CASE e.ev = "done"
  BY <1>9, DoneFollows
<1>10. CASE e.ev = "progress"
  <2> DEFINE d == [tab EXCEPT !.file = TRUE]
  <2>1. tab' \in {d, tab}
    BY <1>1, <1>10 DEF Handled
  <2>2. Same(tab, d) /\ d.tasks = tab.tasks
    BY <1>1 DEF Tabs, Same
  <2> HIDE DEF d
  <2> QED BY <1>6, <1>7, <1>10, <2>1, <2>2
<1>11. CASE e.ev = "complete"
  <2> DEFINE v == IF tab.awaiting = s THEN None ELSE tab.awaiting
             b == [tab EXCEPT !.awaiting = v]
             c == [b EXCEPT !.pend = None]
             f == finishAccept(b, s)
  <2>1. tab' = onComplete(s)
    BY <1>1, <1>11 DEF Handled
  <2>2. tab' \in {b, c, f}
    BY <1>1, <2>1 DEF onComplete, Tabs
  <2>3. v \in 0..started
    BY <1>1 DEF Tabs
  <2> HIDE DEF v, s, e
  <2>4. b \in Tabs(started) /\ Same(tab, b) /\ b.tasks = tab.tasks /\ Alike(tab, b)
    BY <1>1, <2>3 DEF Tabs, Same, Alike
  <2>5. Same(tab, c) /\ c.tasks = tab.tasks
    <3> HIDE DEF b
    <3> QED BY <2>4 DEF Tabs, Same
  <2>6. Over(tab, f)
    <3> HIDE DEF b
    <3>1. Sound(b, started)
      BY <1>1, <2>4 DEF Sound, Alike
    <3>2. Over(b, f)
      BY <1>1, <1>2, <1>11, <3>1, FinishedIsOver
    <3> QED BY <2>4, <3>2 DEF Over
  <2> HIDE DEF b, c, f
  <2> QED BY <1>4, <1>6, <1>11, <2>2, <2>4, <2>5, <2>6 DEF e
<1>12. CASE e.ev = "discarded"
  <2>1. tab' \in {cleanup(markSessionHandled(tab)), tab}
    BY <1>1, <1>12 DEF Handled
  <2>2. Over(tab, cleanup(markSessionHandled(tab)))
    BY <1>1, AbandonedIsOver
  <2> QED BY <1>4, <1>6, <1>7, <1>12, <2>1, <2>2
<1>13. CASE e.ev = "error"
  <2> DEFINE c == [tab EXCEPT !.pend = None, !.awaiting = None]
             g == setLiveState(c, "CYCLING")
             d == [tab EXCEPT !.awaiting = None]
             h == Tell(cleanup(markSessionHandled(tab)))
             a == IF tab.saved.id = s THEN clearSession(tab) ELSE tab
             p == setLiveState(a, "PICKING")
  <2>1. tab' \in {g, Tell(d), h} \/ (tab' = Tell(p) /\ tab.cur # s)
    BY <1>1, <1>13 DEF Handled, onError
  <2>2. Over(tab, h)
    BY <1>1, AbandonedIsOver
  <2>3. /\ c \in Tabs(started) /\ Same(tab, c) /\ c.tasks = tab.tasks
        /\ d \in Tabs(started) /\ Same(tab, d) /\ d.tasks = tab.tasks
    BY <1>1 DEF Tabs, Same
  <2>4. a \in Tabs(started) /\ (tab.cur # s => Tidy(a))
    <3> DEFINE z == clearSession(tab)
    <3>1. NotSaved.id = None /\ NotSaved \in Records(started)
      BY <1>1 DEF NotSaved, Records, States
    <3>2. /\ z \in Tabs(started) /\ z.cur = tab.cur /\ z.saved = NotSaved /\ z.tasks = tab.tasks
          /\ z.dom = tab.dom /\ z.scout = tab.scout
      <4> HIDE DEF s, e
      <4> QED BY <1>1, <3>1 DEF clearSession, Tabs
    <3> HIDE DEF z
    <3>3. CASE tab.saved.id = s /\ tab.cur # s
      <4>1. tab.cur = None
        BY <1>1, <3>3 DEF Kept
      <4>2. Tidy(z)
        BY <1>1, <3>1, <3>2, <4>1 DEF Tidy, Kept, ScoutWaits, RetriesAreDone
      <4> QED BY <3>2, <3>3, <4>2 DEF z
    <3> QED BY <1>1, <3>2, <3>3 DEF z
  <2> HIDE DEF c, d, a, s, e, h
  <2>5. Tidy(c) /\ Tidy(d)
    BY <1>1, <2>3, SameIsTidy
  <2>6. Tidy(g) /\ ~Waiting(g) /\ Tidy(Tell(d)) /\ ~Waiting(Tell(d))
    BY <1>1, <2>3, <2>5, StateIsTidy, TellingIsCalm
  <2>7. tab.cur # s => Tidy(Tell(p)) /\ ~Waiting(Tell(p))
    <3>1. tab.cur # s => Tidy(p)
      BY <1>1, <2>4, StateIsTidy
    <3>2. p \in Tabs(started)
      BY <2>4 DEF setLiveState, Tabs, States
    <3> HIDE DEF p
    <3> QED BY <1>1, <3>1, <3>2, TellingIsCalm
  <2> HIDE DEF g, p
  <2> QED BY <1>4, <1>5, <2>1, <2>2, <2>6, <2>7
<1> QED BY <1>3, <1>8, <1>9, <1>10, <1>11, <1>12, <1>13

-----------------------------------------------------------------------------
(* Ended generations: timers and reads *)

LEMMA WithoutIsSame ==
  ASSUME SessionInv, PursuitInv, NEW t \in tab.tasks
  PROVE  /\ Same(tab, Without(t)) /\ Without(t).tasks = tab.tasks \ {t}
         /\ Without(t) \in Tabs(started) /\ Good(Without(t), started) /\ Sound(Without(t), started)
         /\ Tidy(Without(t))
         /\ t.k \notin Telling => Kin(tab, Without(t))
<1>1. tab \in Tabs(started) /\ Tidy(tab)
  BY PursuitFacts
<1>2. Same(tab, Without(t)) /\ Without(t).tasks = tab.tasks \ {t}
  BY <1>1 DEF Without, Same, Tabs
<1>3. Tidy(Without(t))
  BY <1>1, <1>2, SameIsTidy
<1>4. t.k \notin Telling => Kin(tab, Without(t))
  BY <1>2 DEF Kin
<1> QED BY <1>2, <1>3, <1>4, WithoutIsGood

\* A task is done that chases nothing there is.
LEMMA DropFollows ==
  ASSUME SessionInv, PursuitInv, NEW t \in tab.tasks, tab' = Without(t),
         UNCHANGED <<framework, srv, src, stream, conn>>,
         Waiting(tab) /\ Ready(tab.cur) => /\ tab.arrived < Variants => ~Chases(tab, t)
                                           /\ t.k = "read" => t.s # tab.cur
  PROVE  PursuitInv'
<1>1. Same(tab, Without(t)) /\ Without(t).tasks = tab.tasks \ {t} /\ Tidy(Without(t))
      /\ Followed(tab, stream)
  BY WithoutIsSame, PursuitFacts
<1>2. Followed(Without(t), stream)
  BY <1>1, DroppedIsFollowed
<1> QED BY <1>1, <1>2, TabFollows

LEMMA PlainTimersFollow ==
  ASSUME SessionInv, PursuitInv, NEW t \in tab.tasks,
         CaptureEnds(t) \/ CheckpointEnds(t) \/ MissingEnds(t) \/ WatchEnds(t)
  PROVE  PursuitInv'
<1>1. /\ Good(Without(t), started) /\ Sound(Without(t), started) /\ Without(t) \in Tabs(started)
      /\ Tidy(Without(t)) /\ started \in Nat /\ UNCHANGED <<framework, srv, src, stream, conn>>
      /\ Same(tab, Without(t)) /\ Without(t).tasks = tab.tasks \ {t}
  BY WithoutIsSame, PursuitFacts DEF CaptureEnds, CheckpointEnds, MissingEnds, WatchEnds, Become
<1>2. \/ t.k \in {"capture", "checkpoint", "watch"} /\ tab' = Without(t)
      \/ tab' = abandonForeignSession(Without(t))
      \/ tab' = Tell(Without(t))
      \/ /\ t.k = "missing" /\ tab' = Without(t)
         /\ ~(tab.arrived < Variants /\ tab.st = "GENERATING")
  BY DEF CaptureEnds, CheckpointEnds, MissingEnds, WatchEnds, Become
<1>3. CASE t.k \in {"capture", "checkpoint", "watch"} /\ tab' = Without(t)
  BY <1>1, <1>3, WithoutIsSame, KinFollows DEF Telling
<1>4. CASE tab' = abandonForeignSession(Without(t))
  <2>1. Over(Without(t), abandonForeignSession(Without(t)))
    BY <1>1, AbandonedIsOver
  <2>2. Over(tab, abandonForeignSession(Without(t)))
    BY <1>1, <2>1 DEF Over
  <2> QED BY <1>1, <1>4, <2>2, OverFollows
<1>5. CASE tab' = Tell(Without(t))
  BY <1>1, <1>5, TellingIsCalm, CalmFollows
<1>6. CASE /\ t.k = "missing" /\ tab' = Without(t)
           /\ ~(tab.arrived < Variants /\ tab.st = "GENERATING")
  BY <1>1, <1>6, DropFollows DEF Waiting
<1> QED BY <1>2, <1>3, <1>4, <1>5, <1>6

\* A settled generation is looked for; a retry is, too, while its session waits.
LEMMA SettleFollows ==
  ASSUME SessionInv, PursuitInv, NEW t \in tab.tasks, SettleEnds(t)
  PROVE  PursuitInv'
<1> DEFINE z == 0
           yes == TRUE
           no == FALSE
           w == Without(t)
           j == inject(w, t.s, z, yes, no)
           C == tab.arrived < Variants /\ tab.st = "GENERATING" /\ tab.cur = t.s
<1>1. /\ Good(w, started) /\ Tidy(w) /\ started \in 0..NSessions /\ t.k = "settle"
      /\ UNCHANGED <<framework, srv, src, stream, conn>> /\ Same(tab, w)
      /\ t.s \in 1..started /\ tab.arrived \in Int /\ Variants \in Nat
  BY WithoutIsSame, PursuitFacts, TaskFacts, TabAssumption DEF SettleEnds, Become, Sourceless, Tabs
<1>g. Good(w, started) /\ started \in 0..NSessions /\ t.s \in 1..started
  BY <1>1
<1>2. tab' = IF C THEN j ELSE w
  BY DEF SettleEnds, Become
<1>3. z \in Nat /\ yes \in BOOLEAN /\ no \in BOOLEAN
  OBVIOUS
<1>y. yes
  OBVIOUS
<1> HIDE DEF z, yes, no, w
<1>4. CASE C
  <2>1. /\ Bears(w, j)
        /\ \/ ~Waiting(j)
           \/ /\ j.st = w.st /\ j.cur = w.cur /\ j.told = w.told /\ j.late = w.late
              /\ j.arrived = w.arrived /\ j.anchor = w.anchor /\ w.tasks \subseteq j.tasks
              /\ \A x \in j.tasks : x.k = "read" => x \in w.tasks \/ x.s = t.s
              /\ ~framework => \E x \in j.tasks : x.k = "read" /\ x.s = t.s
              /\ framework /\ yes /\ t.s = w.cur => \E x \in j.tasks : x.k = "retry" /\ x.s = t.s
    BY <1>3, <1>g, InjectedKeeps
  <2> HIDE DEF j
  <2>2. Tidy(j)
    BY <1>1, <2>1, BornIsTidy
  <2>3. Followed(j, stream)
    <3> SUFFICES ASSUME Waiting(j) PROVE Followed(j, stream)
      BY CalmIsFollowed
    <3>1. ~(j.arrived >= Variants) /\ t.s = j.cur
      BY <1>1, <1>4, <2>1 DEF Same
    <3>2. \E x \in j.tasks : Chases(j, x)
      BY <1>1, <1>4, <1>y, <2>1, <3>1 DEF Chases, Same
    <3> QED BY <3>1, <3>2 DEF Followed, AllCounted, Chased
  <2> QED BY <1>1, <1>2, <1>4, <2>2, <2>3, TabFollows
<1>5. CASE ~C
  <2>1. Waiting(tab) /\ tab.arrived < Variants => ~Chases(tab, t)
    BY <1>1, <1>5 DEF Waiting, Chases
  <2> QED BY <1>1, <1>2, <1>5, <2>1, DropFollows DEF w
<1> QED BY <1>4, <1>5

LEMMA RetryFollows ==
  ASSUME SessionInv, PursuitInv, NEW t \in tab.tasks, RetryEnds(t)
  PROVE  PursuitInv'
<1> DEFINE n == t.n
           done == t.done
           orphan == t.orphan
           w == Without(t)
           j == inject(w, t.s, n, done, orphan)
           C == /\ tab.cur = t.s
                /\ \/ tab.st = "GENERATING" /\ (framework \/ t.orphan \/ tab.arrived = 0)
                   \/ t.k = "orphanRetry" /\ tab.st = "CYCLING"
<1>1. /\ Good(w, started) /\ Tidy(w) /\ started \in 0..NSessions /\ t.k \in {"retry", "orphanRetry"}
      /\ UNCHANGED <<framework, srv, src, stream, conn>> /\ Same(tab, w) /\ w.tasks = tab.tasks \ {t}
      /\ t.s \in 1..started /\ tab.arrived \in Int /\ Variants \in Nat \ {0}
      /\ Followed(tab, stream) /\ (t.k = "retry" => t.done)
  BY WithoutIsSame, PursuitFacts, TaskFacts, TabAssumption
     DEF RetryEnds, Become, Sourceless, Tabs, RetriesAreDone
<1>g. Good(w, started) /\ started \in 0..NSessions /\ t.s \in 1..started
  BY <1>1
<1>2. tab' = IF C THEN j ELSE w
  BY DEF RetryEnds, Become
<1>3. n \in Nat /\ done \in BOOLEAN /\ orphan \in BOOLEAN
  BY <1>1, TaskFacts DEF Sourceless
<1>d. done = t.done
  OBVIOUS
<1> HIDE DEF n, done, orphan, w
<1>4. CASE C
  <2>1. /\ Bears(w, j)
        /\ \/ ~Waiting(j)
           \/ /\ j.st = w.st /\ j.cur = w.cur /\ j.told = w.told /\ j.late = w.late
              /\ j.arrived = w.arrived /\ j.anchor = w.anchor /\ w.tasks \subseteq j.tasks
              /\ \A x \in j.tasks : x.k = "read" => x \in w.tasks \/ x.s = t.s
              /\ ~framework => \E x \in j.tasks : x.k = "read" /\ x.s = t.s
              /\ framework /\ done /\ t.s = w.cur => \E x \in j.tasks : x.k = "retry" /\ x.s = t.s
    BY <1>3, <1>g, InjectedKeeps
  <2> HIDE DEF j
  <2>2. Tidy(j)
    BY <1>1, <2>1, BornIsTidy
  <2>3. Followed(j, stream)
    <3> SUFFICES ASSUME Waiting(j) PROVE Followed(j, stream)
      BY CalmIsFollowed
    <3>1. t.s = j.cur /\ t.s = w.cur /\ t.s = tab.cur
      BY <1>1, <1>4, <2>1 DEF Same
    <3>2. CASE ~framework
      <4>1. \E x \in j.tasks : x.k = "read" /\ x.s = j.cur
        BY <2>1, <3>1, <3>2
      <4>2. Chased(j, stream)
        BY <3>2, <4>1 DEF Chased, Chases
      <4>3. Ours(tab) => Ours(j)
        BY <1>1, <2>1, <3>1 DEF Ours, Same
      <4>4. Waiting(tab) /\ (j.arrived >= Variants => tab.arrived >= Variants)
        BY <1>1, <2>1 DEF Waiting, Same
      <4>5. AllCounted(j, stream)
        BY <1>1, <3>2, <4>1, <4>3, <4>4 DEF Followed, AllCounted
      <4> QED BY <4>2, <4>5 DEF Followed
    <3>3. CASE framework /\ done
      <4>1. \E x \in j.tasks : Chases(j, x)
        BY <2>1, <3>1, <3>3 DEF Chases
      <4> QED BY <3>3, <4>1 DEF Followed, AllCounted, Chased
    <3>4. CASE framework /\ ~done
      <4>1. t.k = "orphanRetry"
        BY <1>1, <1>d, <3>4
      <4>2. Followed(w, stream)
        BY <1>1, <4>1, DroppedIsFollowed DEF Chases
      <4>3. Ours(w) => Ours(j)
        BY <2>1, <3>1 DEF Ours
      <4> QED BY <2>1, <4>2, <4>3, GrownIsFollowed
    <3> QED BY <3>2, <3>3, <3>4
  <2> QED BY <1>1, <1>2, <1>4, <2>2, <2>3, TabFollows
<1>5. CASE ~C
  <2>1. Waiting(tab) => ~Chases(tab, t)
    BY <1>1, <1>5 DEF Waiting, Chases
  <2> QED BY <1>1, <1>2, <1>5, <2>1, DropFollows DEF w
<1> QED BY <1>4, <1>5

\* The wrapper is gone from the source, so the session has not ended with variants.
LEMMA OrphanedFollows ==
  ASSUME SessionInv, PursuitInv, NEW t \in tab.tasks, t.k \in {"read", "probe"}, Orphaned(t),
         UNCHANGED <<framework, srv, src, stream, conn>>,
         t.k = "read" => src[t.s] = Absent
  PROVE  PursuitInv'
<1> DEFINE w == Without(t)
           u == [t EXCEPT !.k = "orphanRetry", !.n = t.n + 1]
           c == Later(w, u)
           o == Tell(cleanup(markSessionHandled(w)))
<1>1. /\ t \in Tasks(started) /\ started \in Nat /\ Same(tab, w) /\ w.tasks = tab.tasks \ {t}
      /\ Tidy(w) /\ Sound(w, started) /\ w \in Tabs(started) /\ Followed(tab, stream)
  BY WithoutIsSame, PursuitFacts
<1>2. tab' = c \/ tab' = o
  BY <1>1 DEF Orphaned, Tasks
<1>3. u.k = "orphanRetry"
  BY <1>1 DEF Tasks
<1> HIDE DEF w, u
<1>4. CASE tab' = c
  <2>1. Followed(w, stream)
    BY <1>1, DroppedIsFollowed DEF Ready, Chases
  <2>2. Kin(w, c)
    BY <1>1, <1>3, LaterIsSame DEF Telling
  <2>3. Tidy(c) /\ Followed(c, stream)
    BY <1>1, <2>1, <2>2, KinIsTidy
  <2> QED BY <1>4, <2>3, TabFollows
<1>5. CASE tab' = o
  <2>1. Over(w, o)
    BY <1>1, AbandonedIsOver
  <2>2. Over(tab, o)
    BY <1>1, <2>1 DEF Over
  <2> QED BY <1>5, <2>2, OverFollows
<1> QED BY <1>2, <1>4, <1>5

\* What is read of an ended generation is complete: a wrapper without variants is of another
\* session, and a read of the tab's, or the event, is still to come.
LEMMA PutOnPageFollows ==
  ASSUME SessionInv, PursuitInv, NEW t \in tab.tasks, t.k = "read", ~framework,
         tab' = PutOnPage(Without(t), t), UNCHANGED <<framework, srv, src, stream, conn>>
  PROVE  PursuitInv'
<1> DEFINE w == Without(t)
           v == src[t.s]
           c == [w EXCEPT !.dom[t.s] = v]
           j == completeInjection(c, t.s, t)
<1>1. /\ started \in 0..NSessions /\ Good(w, started) /\ w \in Tabs(started) /\ Same(tab, w)
      /\ w.tasks = tab.tasks \ {t} /\ t.s \in 1..started /\ t.s \in Sessions /\ t \in Tasks(started)
      /\ srv \in Lists(started) /\ src \in Sources(started) /\ v \in Int
      /\ Tidy(tab) /\ Tidy(w) /\ SourceInv /\ Followed(tab, stream)
      /\ tab.cur # None => tab.cur \in Sessions
      /\ tab.arrived \in Int /\ Variants \in Nat \ {0}
  BY WithoutIsSame, TaskFacts, PursuitFacts, TabAssumption DEF Sourceless, Sources, Tabs
<1>2. PutOnPage(w, t) = pageChanged(j)
  BY DEF PutOnPage
<1>3. v = src[t.s]
  OBVIOUS
<1> HIDE DEF w, v
<1>4. Good(c, started)
  BY <1>1, DomIsGood
<1>5. /\ c.st = w.st /\ c.cur = w.cur /\ c.told = w.told /\ c.late = w.late /\ c.saved = w.saved
      /\ c.handled = w.handled /\ c.scout = w.scout /\ c.tasks = w.tasks
      /\ c.dom[t.s] = v /\ \A s \in Sessions \ {t.s} : c.dom[s] = w.dom[s]
  BY <1>1 DEF Tabs
<1> HIDE DEF c
<1>6. ScoutSees(c) /\ Kept(c) /\ RetriesAreDone(c)
  <2>1. ScoutSees(c)
    BY <1>1, <1>3, <1>5 DEF Tidy, ScoutWaits, ScoutSees, Same
  <2> QED BY <1>1, <1>5, <2>1 DEF Tidy, Kept, RetriesAreDone, isHandled
<1>7. /\ Bears(c, j)
      /\ \/ ~Waiting(j)
         \/ /\ ~(c.dom[t.s] > 0) /\ j.arrived = c.dom[t.s] /\ j.anchor = None
            /\ j.st = c.st /\ j.cur = c.cur /\ j.told = c.told /\ j.late = c.late
            /\ c.tasks \subseteq j.tasks
            /\ \A x \in j.tasks : x \in c.tasks \/ x.k = "retry"
  BY <1>1, <1>4, CompletedKeeps
<1>8. Good(j, started)
  BY <1>1, <1>4, CompletedIsGood
<1> HIDE DEF j
<1>9. ScoutSees(j) /\ Kept(j) /\ RetriesAreDone(j)
  BY <1>6, <1>7, BornIsTidy DEF Bears
<1>10. Followed(j, stream)
  <2> SUFFICES ASSUME Waiting(j) PROVE Followed(j, stream)
    BY CalmIsFollowed
  <2>1. /\ Waiting(tab) /\ j.cur = tab.cur /\ j.late = tab.late
        /\ tab.tasks \ {t} \subseteq j.tasks
        /\ ~(v > 0) /\ j.arrived = v /\ ~(j.arrived >= Variants)
    BY <1>1, <1>5, <1>7 DEF Same, Waiting
  <2>2. Chased(j, stream)
    <3> SUFFICES ASSUME ~tab.late, conn = "open", Ready(tab.cur)
                 PROVE  \/ Announced(stream, tab.cur) \/ ListedReady(stream, tab.cur)
                        \/ \E x \in j.tasks : Chases(j, x)
      BY <2>1 DEF Chased
    <3>1. tab.cur # t.s
      BY <1>1, <1>3, <2>1 DEF Ready, SourceInv, Waiting
    <3>2. CASE tab.arrived < Variants
      <4>1. \/ Announced(stream, tab.cur) \/ ListedReady(stream, tab.cur)
            \/ \E x \in tab.tasks : Chases(tab, x)
        BY <1>1, <2>1, <3>2 DEF Followed, Chased
      <4>2. ~Chases(tab, t)
        BY <3>1 DEF Chases
      <4>3. \A x \in tab.tasks : Chases(tab, x) => x \in j.tasks /\ Chases(j, x)
        BY <2>1, <4>2 DEF Chases
      <4> QED BY <4>1, <4>3
    <3>3. CASE tab.arrived >= Variants
      <4>1. ~Ours(tab)
        BY <3>1 DEF Ours
      <4>2. Announced(stream, tab.cur) \/ \E x \in tab.tasks : x.k = "read" /\ x.s = tab.cur
        BY <1>1, <2>1, <3>3, <4>1 DEF Followed, AllCounted
      <4>3. \A x \in tab.tasks : x.k = "read" /\ x.s = tab.cur => x \in j.tasks /\ Chases(j, x)
        BY <2>1, <3>1 DEF Chases
      <4> QED BY <4>2, <4>3
    <3> QED BY <1>1, <3>2, <3>3
  <2> QED BY <2>1, <2>2 DEF Followed, AllCounted
<1>11. Tidy(pageChanged(j)) /\ Followed(pageChanged(j), stream)
  BY <1>1, <1>8, <1>9, <1>10, ChangedKeeps
<1> QED BY <1>2, <1>11, TabFollows DEF w

LEMMA ReadFollows ==
  ASSUME SessionInv, PursuitInv, NEW t \in tab.tasks, ReadEnds(t)
  PROVE  PursuitInv'
<1> DEFINE w == Without(t)
           c == [w EXCEPT !.st = "GENERATING", !.anchor = t.s]
           d == Tell(c)
           e == saveSession(d)
           f == queueCheckpoint(e)
<1>1. /\ t.k = "read" /\ ~framework /\ UNCHANGED <<framework, srv, src, stream, conn>>
      /\ w \in Tabs(started) /\ Tidy(w) /\ Good(w, started) /\ started \in Nat /\ t.s \in 0..started
  BY WithoutIsSame, TaskFacts, PursuitFacts DEF ReadEnds, Sourceless
<1>2. \/ src[t.s] = Absent /\ Orphaned(t)
      \/ src[t.s] = Absent /\ tab' = w
      \/ tab' = PutOnPage(w, t)
      \/ tab' = f
  BY DEF ReadEnds, AwaitAnchor
<1>3. CASE src[t.s] = Absent /\ Orphaned(t)
  BY <1>1, <1>3, OrphanedFollows
<1>4. CASE src[t.s] = Absent /\ tab' = w
  BY <1>1, <1>4, DropFollows DEF Ready, Chases
<1>5. CASE tab' = PutOnPage(w, t)
  BY <1>1, <1>5, PutOnPageFollows
<1>6. CASE tab' = f
  <2> HIDE DEF w
  <2>1. /\ c \in Tabs(started) /\ c.cur = w.cur /\ c.saved = w.saved /\ c.dom = w.dom
        /\ c.handled = w.handled /\ c.scout = w.scout /\ c.tasks = w.tasks
    BY <1>1 DEF Tabs, States
  <2> HIDE DEF c
  <2>2. d \in Tabs(started)
    BY <2>1 DEF Tell, Tabs
  <2>3. Tidy(c)
    BY <1>1, <2>1 DEF Tidy, Kept, ScoutWaits, RetriesAreDone, isHandled
  <2>4. Tidy(d) /\ ~Waiting(d)
    BY <1>1, <2>1, <2>3, TellingIsCalm
  <2> HIDE DEF d
  <2>5. Tidy(e) /\ ~Waiting(e)
    BY <1>1, <2>2, <2>4, SavingKeeps DEF Tidy
  <2>6. e \in Tabs(started)
    <3> DEFINE r == [id |-> d.cur, st |-> d.st, arrived |-> d.arrived, file |-> d.file]
    <3>1. r \in Records(started)
      BY <2>2 DEF Tabs, Records
    <3>2. e = IF d.cur = None THEN d ELSE [d EXCEPT !.saved = r]
      BY DEF saveSession
    <3> HIDE DEF r, e
    <3> QED BY <2>2, <3>1, <3>2 DEF Tabs
  <2> HIDE DEF e
  <2>7. Kin(e, f)
    BY <1>1, <2>6, CheckpointIsKin
  <2>8. Tidy(f) /\ ~Waiting(f)
    BY <2>5, <2>7, KinIsTidy DEF Kin, Same, Waiting
  <2> HIDE DEF f
  <2> QED BY <1>1, <1>6, <2>8, CalmFollows
<1> QED BY <1>2, <1>3, <1>4, <1>5, <1>6

LEMMA ProbesFollow ==
  ASSUME SessionInv, PursuitInv, NEW t \in tab.tasks, ProbeEnds(t) \/ ReadFails(t)
  PROVE  PursuitInv'
<1> DEFINE w == Without(t)
           u == [t EXCEPT !.k = "orphanRetry", !.n = t.n + 1]
           c == Later(w, u)
<1>1. /\ UNCHANGED <<framework, srv, src, stream, conn>> /\ t.k \in {"read", "probe"}
      /\ w \in Tabs(started) /\ Tidy(w) /\ started \in Nat /\ t \in Tasks(started)
      /\ t.k = "probe" => Kin(tab, w)
  BY WithoutIsSame, PursuitFacts DEF ProbeEnds, ReadFails, Telling
<1>2. \/ t.k = "probe" /\ Orphaned(t)
      \/ t.k = "probe" /\ tab' = w
      \/ tab' = Tell(w)
      \/ t.k = "probe" /\ tab' = c
  BY <1>1 DEF ProbeEnds, ReadFails, Tasks
<1>3. u.k = "orphanRetry"
  BY <1>1 DEF Tasks
<1>4. CASE t.k = "probe" /\ Orphaned(t)
  BY <1>1, <1>4, OrphanedFollows
<1> HIDE DEF w, u
<1>5. CASE t.k = "probe" /\ tab' = w
  BY <1>1, <1>5, KinFollows
<1>6. CASE tab' = Tell(w)
  BY <1>1, <1>6, TellingIsCalm, CalmFollows
<1>7. CASE t.k = "probe" /\ tab' = c
  <2>1. Kin(w, c)
    BY <1>1, <1>3, LaterIsSame DEF Telling
  <2>2. Kin(tab, c)
    BY <1>1, <1>7, <2>1, KinOfKin
  <2> QED BY <1>1, <1>7, <2>2, KinFollows
<1> QED BY <1>2, <1>4, <1>5, <1>6, <1>7

\* Wrappers that go, or come with another page load, change no wait.
LEMMA RecoveriesFollow ==
  ASSUME SessionInv, PursuitInv, NEW t \in tab.tasks,
         \/ AcceptCleanEnds(t) \/ AcceptReloadEnds(t) \/ DiscardCleanEnds(t)
         \/ DiscardReloadEnds(t) \/ DiscardWatchEnds(t) \/ HandledReloadEnds(t)
  PROVE  PursuitInv'
<1> DEFINE w == Without(t)
           gone == [w EXCEPT !.dom[t.s] = Absent]
           first == [w EXCEPT !.tries[t.s] = 0]
           later(k) == Later(w, [t EXCEPT !.k = k])
<1>1. /\ t.k \notin Telling /\ t.k \notin Sourceless
      /\ w \in Tabs(started) /\ Tidy(w) /\ started \in Nat /\ t \in Tasks(started)
      /\ Kin(tab, w) /\ Followed(tab, stream)
  BY WithoutIsSame, PursuitFacts DEF AcceptCleanEnds, AcceptReloadEnds, DiscardCleanEnds,
       DiscardReloadEnds, DiscardWatchEnds, HandledReloadEnds, Sourceless, Telling
<1>2. CASE \E by : Reload(by)
  BY <1>2, ReloadFollows
<1>3. CASE ~\E by : Reload(by)
  <2>1. \/ \E b \in {w, gone, first} : Become(b)
        \/ \E k \in {"acceptReload", "discardReload", "discardWatch"} : Become(later(k))
    BY <1>3 DEF AcceptCleanEnds, AcceptReloadEnds, DiscardCleanEnds, DiscardReloadEnds,
         DiscardWatchEnds, HandledReloadEnds, Watched
  <2>2. CASE Become(w)
    BY <1>1, <2>2, KinFollows DEF Become
  <2> HIDE DEF w
  <2>3. CASE Become(gone)
    <3>1. /\ gone.st = w.st /\ gone.cur = w.cur /\ gone.told = w.told /\ gone.late = w.late
          /\ gone.arrived = w.arrived /\ gone.anchor = w.anchor /\ gone.saved = w.saved
          /\ gone.handled = w.handled /\ gone.scout = w.scout /\ gone.tasks = w.tasks
          /\ w.cur # None => gone.dom[w.cur] \in {Absent, w.dom[w.cur]}
      <4>1. w.cur # None => w.cur \in Sessions
        BY <1>1, PursuitFacts DEF Kin, Same
      <4> QED BY <1>1, <4>1 DEF Tabs
    <3> HIDE DEF gone
    <3>2. Tidy(gone)
      BY <1>1, <3>1 DEF Tidy, Kept, ScoutWaits, RetriesAreDone, isHandled
    <3>3. Followed(w, stream)
      BY <1>1, KinIsTidy
    <3>4. Followed(gone, stream)
      BY <3>1, <3>3, GrownIsFollowed DEF Ours
    <3> QED BY <2>3, <3>2, <3>4, TabFollows DEF Become
  <2>4. CASE Become(first)
    <3>1. Same(w, first) /\ first.tasks = w.tasks
      BY <1>1 DEF Tabs, Same
    <3> HIDE DEF first
    <3>2. Kin(w, first)
      BY <3>1 DEF Kin
    <3>3. Kin(tab, first)
      BY <1>1, <3>2, KinOfKin
    <3> QED BY <2>4, <3>3, KinFollows DEF Become
  <2>5. ASSUME NEW k \in {"acceptReload", "discardReload", "discardWatch"}, Become(later(k))
        PROVE  PursuitInv'
    <3> DEFINE u == [t EXCEPT !.k = k]
    <3>1. u.k = k /\ k \notin Telling
      BY <1>1 DEF Tasks, Telling
    <3> HIDE DEF u
    <3>2. Kin(w, Later(w, u))
      BY <1>1, <3>1, LaterIsSame
    <3>3. Kin(tab, Later(w, u))
      BY <1>1, <3>2, KinOfKin
    <3> QED BY <2>5, <3>3, KinFollows DEF Become, u
  <2> QED BY <2>1, <2>2, <2>3, <2>4, <2>5
<1> QED BY <1>2, <1>3

-----------------------------------------------------------------------------
(* Ended generations: the agent, the source files and the page *)

\* What is told comes after all that was; an end is told as it happens.
LEMMA BroadcastIsHeard ==
  ASSUME SessionInv, PursuitInv, NEW ev \in {"progress", "done", "complete", "discarded", "error"},
         NEW s \in Sessions, Broadcast(ev, s), UNCHANGED conn,
         \A r \in Sessions : srv'[r] = "ready" => srv[r] = "ready" \/ (ev = "done" /\ r = s)
  PROVE  /\ StreamInv'
         /\ \A r \in Sessions : Announced(stream, r) => Announced(stream', r)
         /\ \A r \in Sessions : ListedReady(stream, r) => ListedReady(stream', r)
         /\ conn = "open" /\ ev = "done" => Announced(stream', s)
<1> DEFINE e == Event(ev, s, Unheard)
<1>1. stream \in Seq(EventSet(started)) /\ StreamInv
  BY PursuitFacts
<1>2. e.ev = ev /\ e.s = s /\ e.listed = Unheard /\ e.ev # "connected"
  BY DEF Event
<1>3. CASE conn # "open"
  <2>1. stream' = stream /\ stream = <<>>
    BY <1>1, <1>3 DEF Broadcast, StreamInv
  <2> QED BY <1>3, <2>1 DEF StreamInv
<1>4. CASE conn = "open"
  <2>1. stream' = Append(stream, e)
    BY <1>4 DEF Broadcast
  <2> DEFINE n == Len(stream)
  <2> HIDE DEF e
  <2>2. /\ n \in Nat /\ DOMAIN stream = 1..n /\ DOMAIN stream' = 1..(n + 1)
        /\ stream'[n + 1] = e /\ \A i \in 1..n : stream'[i] = stream[i]
        /\ (stream = <<>> <=> n = 0)
    BY <1>1, <2>1
  <2> HIDE DEF n
  <2>3. /\ \A i \in DOMAIN stream : i \in DOMAIN stream' /\ stream'[i] = stream[i]
        /\ \A i \in DOMAIN stream' : i \in DOMAIN stream \/ stream'[i] = e
        /\ n + 1 \in DOMAIN stream'
    BY <2>2
  <2>4. \A r \in Sessions : Announced(stream, r) => Announced(stream', r)
    BY <2>3 DEF Announced
  <2>5. \A r \in Sessions : ListedReady(stream, r) => ListedReady(stream', r)
    BY <2>3 DEF ListedReady
  <2>6. ev = "done" => Announced(stream', s)
    BY <1>2, <2>2, <2>3 DEF Announced
  <2>7. \A i \in DOMAIN stream' : /\ stream'[i].ev = "connected" => i = 1
                                  /\ stream'[i].ev # "connected" => stream'[i].listed = Unheard
    BY <1>1, <1>2, <2>3 DEF StreamInv
  <2>8. ASSUME stream'[1].ev = "connected"
        PROVE  \A r \in Sessions : srv'[r] = "ready" =>
                  stream'[1].listed[r] = "ready" \/ Announced(stream', r)
    <3>1. stream # <<>> /\ stream'[1] = stream[1]
      BY <1>2, <2>2, <2>8
    <3> QED BY <1>1, <2>4, <2>6, <2>8, <3>1 DEF StreamInv
  <2> QED BY <1>4, <2>4, <2>5, <2>6, <2>7, <2>8 DEF StreamInv
<1> QED BY <1>3, <1>4

LEMMA AgentFollows ==
  ASSUME SessionInv, PursuitInv, Agent
  PROVE  PursuitInv'
<1>1. PICK s \in Sessions :
        \/ AgentWrites(s) \/ AgentEnds(s) \/ AgentFails(s) \/ Promotes(s) \/ Removes(s)
        \/ EditedAway(s) \/ HotReload(s) \/ Unmounts(s)
  BY DEF Agent
<1>2. /\ srv \in [Sessions -> SrvPhases] /\ src \in [Sessions -> Int] /\ SourceInv /\ StreamInv
      /\ srv \in Lists(started) /\ src \in Sources(started) /\ started \in 0..NSessions
      /\ Good(tab, started) /\ tab \in Tabs(started) /\ Tidy(tab) /\ Followed(tab, stream)
      /\ tab.cur # None => tab.cur \in Sessions
  BY PursuitFacts
<1>3. CASE AgentWrites(s)
  <2>1. /\ Broadcast("progress", s) /\ UNCHANGED <<framework, srv, tab, conn>>
        /\ srv[s] # "ready" /\ \A r \in Sessions \ {s} : src'[r] = src[r]
    BY <1>2, <1>3 DEF AgentWrites, WithSource
  <2>2. SourceInv' /\ \A r \in Sessions : Ready(r)' => Ready(r)
    BY <1>2, <2>1 DEF SourceInv, Ready
  <2> QED BY <2>1, <2>2, BroadcastIsHeard, WorldFollows
<1>4. CASE AgentEnds(s)
  <2>1. /\ Broadcast("done", s) /\ UNCHANGED <<framework, src, tab, conn>>
        /\ src[s] = Variants /\ srv'[s] = "ready" /\ \A r \in Sessions \ {s} : srv'[r] = srv[r]
    BY <1>2, <1>4 DEF AgentEnds, Phase
  <2>2. SourceInv' /\ \A r \in Sessions : Ready(r)' => Ready(r) \/ r = s
    BY <1>2, <2>1 DEF SourceInv, Ready
  <2>3. /\ StreamInv'
        /\ \A r \in Sessions : Announced(stream, r) => Announced(stream', r)
        /\ \A r \in Sessions : ListedReady(stream, r) => ListedReady(stream', r)
        /\ conn = "open" => Announced(stream', s)
    BY <2>1, BroadcastIsHeard
  <2> QED BY <2>1, <2>2, <2>3, WorldFollows
<1>5. CASE AgentFails(s) \/ Promotes(s)
  <2>1. /\ \E ev \in {"error", "complete"} : Broadcast(ev, s)
        /\ UNCHANGED <<framework, tab, conn>>
        /\ srv'[s] # "ready" /\ \A r \in Sessions \ {s} : srv'[r] = srv[r] /\ src'[r] = src[r]
    BY <1>2, <1>5 DEF AgentFails, Promotes, Phase, WithSource
  <2>2. SourceInv' /\ \A r \in Sessions : Ready(r)' => Ready(r)
    BY <1>2, <2>1 DEF SourceInv, Ready
  <2>3. \A r \in Sessions : srv'[r] = "ready" => srv[r] = "ready"
    BY <2>1
  <2> QED BY <2>1, <2>2, <2>3, BroadcastIsHeard, WorldFollows
<1>6. CASE Removes(s) \/ EditedAway(s)
  <2>1. /\ Broadcast("discarded", s) \/ stream' = stream
        /\ UNCHANGED <<framework, srv, tab, conn>>
        /\ src'[s] = Absent /\ \A r \in Sessions \ {s} : src'[r] = src[r]
    BY <1>2, <1>6 DEF Removes, EditedAway, WithSource
  <2>2. SourceInv' /\ \A r \in Sessions : Ready(r)' => Ready(r)
    BY <1>2, <2>1 DEF SourceInv, Ready
  <2>3. CASE Broadcast("discarded", s)
    BY <2>1, <2>2, <2>3, BroadcastIsHeard, WorldFollows
  <2>4. CASE stream' = stream
    <3>1. StreamInv'
      BY <1>2, <2>1, <2>4 DEF StreamInv, Announced
    <3> QED BY <2>1, <2>2, <2>4, <3>1, WorldFollows
  <2> QED BY <2>1, <2>3, <2>4
<1>7. CASE HotReload(s)
  <2> DEFINE v == src[s]
             c == [tab EXCEPT !.dom[s] = v]
  <2>1. s \in 1..started
    BY <1>7, PhasesAreOfKnown DEF HotReload
  <2>2. v \in Int /\ v = src[s]
    BY <1>2
  <2>3. Become(pageChanged(c))
    BY <1>7 DEF HotReload
  <2> HIDE DEF v
  <2>4. Good(c, started)
    BY <1>2, <2>1, <2>2, DomIsGood
  <2>5. /\ c.st = tab.st /\ c.cur = tab.cur /\ c.told = tab.told /\ c.late = tab.late
        /\ c.arrived = tab.arrived /\ c.anchor = tab.anchor /\ c.saved = tab.saved
        /\ c.handled = tab.handled /\ c.scout = tab.scout /\ c.tasks = tab.tasks
        /\ c.dom[s] = v /\ \A r \in Sessions \ {s} : c.dom[r] = tab.dom[r]
    BY <1>2 DEF Tabs
  <2> HIDE DEF c
  <2>6. ScoutSees(c) /\ Kept(c) /\ RetriesAreDone(c)
    <3>1. ScoutSees(c)
      BY <1>2, <2>2, <2>5 DEF Tidy, ScoutWaits, ScoutSees
    <3> QED BY <1>2, <2>5, <3>1 DEF Tidy, Kept, RetriesAreDone, isHandled
  <2>7. Followed(c, stream)
    BY <1>2, <2>5, GrownIsFollowed DEF Ours
  <2>8. Tidy(pageChanged(c)) /\ Followed(pageChanged(c), stream)
    BY <1>2, <2>4, <2>6, <2>7, ChangedKeeps
  <2> QED BY <2>3, <2>8, TabFollows DEF Become
<1>8. CASE Unmounts(s)
  <2> DEFINE c == [tab EXCEPT !.dom[s] = Absent]
  <2>1. tab' = c /\ UNCHANGED <<framework, srv, src, stream, conn>>
    BY <1>8 DEF Unmounts
  <2>2. /\ c.st = tab.st /\ c.cur = tab.cur /\ c.told = tab.told /\ c.late = tab.late
        /\ c.arrived = tab.arrived /\ c.anchor = tab.anchor /\ c.saved = tab.saved
        /\ c.handled = tab.handled /\ c.scout = tab.scout /\ c.tasks = tab.tasks
        /\ \A r \in Sessions : c.dom[r] \in {Absent, tab.dom[r]}
    BY <1>2 DEF Tabs
  <2> HIDE DEF c
  <2>3. Tidy(c)
    BY <1>2, <2>2 DEF Tidy, Kept, ScoutWaits, RetriesAreDone, isHandled
  <2>4. Followed(c, stream)
    BY <1>2, <2>2, GrownIsFollowed DEF Ours
  <2> QED BY <2>1, <2>3, <2>4, TabFollows
<1> QED BY <1>1, <1>3, <1>4, <1>5, <1>6, <1>7, <1>8

-----------------------------------------------------------------------------
(* Ended generations: what follows *)

LEMMA PursuitInitial == Init => PursuitInv
<1> SUFFICES ASSUME Init PROVE PursuitInv
  OBVIOUS
<1>1. /\ tab.cur = None /\ tab.saved = NotSaved /\ tab.tasks = {}
      /\ stream = <<>> /\ \A s \in Sessions : srv[s] # "ready"
  BY DEF Init, Fresh
<1>2. NotSaved.id = None
  BY DEF NotSaved
<1>3. Tidy(tab) /\ ~Waiting(tab)
  BY <1>1, <1>2 DEF Tidy, Kept, ScoutWaits, RetriesAreDone, Waiting
<1>4. StreamInv /\ SourceInv
  BY <1>1 DEF StreamInv, SourceInv
<1> QED BY <1>3, <1>4, CalmIsFollowed DEF PursuitInv

LEMMA SessionStepsFollow ==
  ASSUME SessionInv, PursuitInv, [Next]_vars
  PROVE  PursuitInv'
<1>1. CASE User
  BY <1>1, PickFollows, GoFollows, DecisionsFollow, ReloadFollows DEF User, UserReloads
<1>2. CASE Network
  BY <1>2, ConnectionFollows, GiveUpFollows, ServeFollows, AnswersFollow DEF Network
<1>3. CASE Agent
  BY <1>3, AgentFollows
<1>4. CASE Deliver
  BY <1>4, DeliverFollows
<1>5. CASE \E p \in posts : Answer(p)
  BY <1>5, AnswersFollow
<1>6. CASE \E t \in tab.tasks : Ends(t) \/ ReadFails(t)
  <2>1. PICK t \in tab.tasks : Ends(t) \/ ReadFails(t)
    BY <1>6
  <2>2. CASE CaptureEnds(t) \/ CheckpointEnds(t) \/ MissingEnds(t) \/ WatchEnds(t)
    BY <2>2, PlainTimersFollow
  <2>3. CASE SettleEnds(t) \/ RetryEnds(t)
    BY <2>3, SettleFollows, RetryFollows
  <2>4. CASE ReadEnds(t) \/ ProbeEnds(t) \/ ReadFails(t)
    BY <2>4, ReadFollows, ProbesFollow
  <2>5. CASE \/ AcceptCleanEnds(t) \/ AcceptReloadEnds(t) \/ DiscardCleanEnds(t)
             \/ DiscardReloadEnds(t) \/ DiscardWatchEnds(t) \/ HandledReloadEnds(t)
    BY <2>5, RecoveriesFollow
  <2> QED BY <2>1, <2>2, <2>3, <2>4, <2>5 DEF Ends
<1>7. CASE UNCHANGED vars
  BY <1>7, NothingFollows DEF vars
<1> QED BY <1>1, <1>2, <1>3, <1>4, <1>5, <1>6, <1>7 DEF Next

\* recoverMissedGenerationCompletion, the "done" event and the reads that follow it: the tab
\* that does not show all of its ended generation, and has told the user nothing, has
\* something to come that tells.
THEOREM EndedGenerationsArePursued == Spec => []EndedGenerationIsPursued
<1>1. SessionInv /\ PursuitInv /\ [Next]_vars => SessionInv' /\ PursuitInv'
  BY SessionStepsKeepSessions, SessionStepsFollow
<1>2. Init => SessionInv /\ PursuitInv
  BY SessionInitial, PursuitInitial
<1> QED BY <1>1, <1>2, PursuitIsEnough, PTL DEF Spec

\* The record of saveSession is at any time of the session at hand, whichever handler, late task or
\* event took that session up or let it go.
THEOREM RecordsAreOfTheSession == Spec => []RecordIsOfSession
<1>1. SessionInv /\ PursuitInv /\ [Next]_vars => SessionInv' /\ PursuitInv'
  BY SessionStepsKeepSessions, SessionStepsFollow
<1>2. Init => SessionInv /\ PursuitInv
  BY SessionInitial, PursuitInitial
<1>3. PursuitInv => RecordIsOfSession
  BY DEF PursuitInv, Tidy, Kept, RecordIsOfSession
<1> QED BY <1>1, <1>2, <1>3, PTL DEF Spec

-----------------------------------------------------------------------------
(* The two parts of the editor *)

\* Sessions and copy edits share nothing: what is proved of each holds beside the other.
LEMMA EditorPartsAreIndependent == EditorSpec => Spec /\ CopySpec
<1>1. EditorInit => Init /\ CopyInit
  BY DEF EditorInit
<1>2. [EditorNext]_<<part, vars, copied>> => [Next]_vars /\ [CopyNext]_copied
  BY DEF EditorNext, SessionStep, CopyStep
<1> QED BY <1>1, <1>2, PTL DEF EditorSpec, Spec, CopySpec

=============================================================================

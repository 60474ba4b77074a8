------------------------------- MODULE CopyEdits -------------------------------
(***************************************************************************)
(* Copy edits of the live editor (impeccable/scripts/live-browser.js): text *)
(* edited in place is staged on the live server, and Apply has the agent   *)
(* write what is staged into the source, while the editor is frozen.       *)
(* The answers to what the tab posts and the events of the server come in  *)
(* any order, and the page may be loaded again at any time: what it knows  *)
(* of an apply is then in session storage only.                            *)
(*                                                                         *)
(* The live server and the agent are not in this repository.  The texts,   *)
(* the toasts and the fifteen minutes a stored apply is kept for are left  *)
(* out, and there is one tab, on one page.                                 *)
(***************************************************************************)
EXTENDS Integers, Sequences, FiniteSets

CONSTANTS
    MaxStaged,      \* bound: edits staged at once
    MaxCalls,       \* bound: requests on their way at once
    MaxFeed,        \* bound: events on their way
    MaxSlips,       \* bound: lost requests and connections
    MaxPages        \* bound: page loads

ASSUME CopyAssumption ==
    /\ MaxStaged \in Nat \ {0} /\ MaxCalls \in Nat \ {0} /\ MaxFeed \in Nat \ {0}
    /\ MaxSlips \in Nat /\ MaxPages \in Nat \ {0}

VARIABLES
    ui,             \* the tab: see Dock
    calls,          \* its requests, by place
    feed,           \* events on their way to it
    linked,         \* it is connected to the server's events
    staged,         \* server: edits staged
    job,            \* server: "none", "applying", "repairing", or "decide" for the user
    missed,         \* the tab was not there when an apply ended
    slips, pages    \* how many so far

copied == <<ui, calls, feed, linked, staged, job, missed, slips, pages>>

\* The dock, what is stored, and the text being edited, at a page load.
Dock(kept) ==
    [n |-> 0,               \* pendingPillEl.dataset.count; the dock is hidden at 0
     busy |-> FALSE,        \* pendingApplyInFlight: the picker and the bars are frozen
     off |-> FALSE,         \* pendingPillEl.disabled
     choice |-> FALSE,      \* "Keep fixing" and "Rollback" are shown
     trash |-> FALSE,       \* pendingTrashBtn is shown
     barred |-> FALSE,      \* pendingTrashBtn.disabled
     kept |-> kept,         \* phase of the stored apply, "none" where none is
     st |-> "PICKING",      \* state, as far as it is about editing
     stuck |-> FALSE]       \* (history) frozen by a count although the user is to decide

Idle == [k |-> "idle", at |-> "sent", n |-> 0, heard |-> TRUE]
Free == {i \in 1..MaxCalls : calls[i] = Idle}

\* A request takes the first free place.
With(cs, k) ==
    LET i == CHOOSE j \in 1..MaxCalls : cs[j] = Idle /\ \A l \in 1..(j - 1) : cs[l] # Idle
    IN  [cs EXCEPT ![i] = [Idle EXCEPT !.k = k]]
Calls(k) == Free # {} /\ calls' = With(calls, k)

Elsewhere == UNCHANGED <<feed, linked, staged, job, missed, slips, pages>>
Show(u)   == ui' = u /\ UNCHANGED calls /\ Elsewhere

-----------------------------------------------------------------------------
(* The dock *)

hidePendingApplyDock(u) ==
    [u EXCEPT !.n = 0, !.busy = FALSE, !.kept = "none", !.off = FALSE, !.choice = FALSE,
              !.trash = FALSE, !.barred = FALSE, !.stuck = FALSE]

\* setPendingApplyLoading(true): an apply is stored if there is something to apply.
Loading(u) ==
    [u EXCEPT !.busy = TRUE, !.off = TRUE, !.barred = TRUE, !.choice = FALSE, !.trash = TRUE,
              !.kept = IF @ = "none" /\ u.n > 0 THEN "applying" ELSE @]

\* setPendingApplyLoading(false)
NotLoading(u) ==
    [u EXCEPT !.busy = FALSE, !.kept = "none", !.off = FALSE, !.barred = FALSE, !.stuck = FALSE]

\* A stored apply is taken for one that still runs.
updatePendingCounter(u, n) ==
    LET v == [u EXCEPT !.n = n, !.trash = TRUE, !.stuck = @ \/ u.kept = "decision"]
    IN  IF n = 0 THEN hidePendingApplyDock(u)
        ELSE IF u.busy \/ u.kept # "none" THEN Loading(v) ELSE v

\* updateManualApplyRepairState
Repairing(u) ==
    IF u.n = 0 /\ u.kept = "none" THEN u ELSE Loading([u EXCEPT !.kept = "repairing"])

\* updateManualApplyProgressFromChunk
Progress(u) == IF u.busy THEN Loading([u EXCEPT !.kept = "applying"]) ELSE u

showManualApplyDecision(u, n) ==
    [u EXCEPT !.busy = FALSE, !.off = TRUE, !.trash = FALSE, !.choice = TRUE, !.stuck = FALSE,
              !.kept = IF u.n > 0 \/ n > 0 \/ @ # "none" THEN "decision" ELSE @]

-----------------------------------------------------------------------------
(* The user *)

\* Picking, with the ways out of it; none of them works while an apply runs.
Picks  == ui.st = "PICKING" /\ ~ui.busy /\ Show([ui EXCEPT !.st = "CONFIGURING"])
Leaves == ui.st = "CONFIGURING" /\ ~ui.busy /\ Show([ui EXCEPT !.st = "PICKING"])

enterEditingMode ==
    /\ ui.st = "CONFIGURING" /\ ~ui.busy
    /\ Show([ui EXCEPT !.st = "EDITING"])

\* cancelEditing and cancelEditingToPicking
cancelEditing ==
    /\ ui.st = "EDITING" /\ ~ui.busy
    /\ \E to \in {"CONFIGURING", "PICKING"} : Show([ui EXCEPT !.st = to])

\* Save, of a text that is changed or not. Nothing keeps a second save, or leaving, from
\* following the first.
applyEditing ==
    /\ ui.st = "EDITING" /\ ~ui.busy
    /\ \/ Show([ui EXCEPT !.st = "CONFIGURING"])
       \/ Calls("stash") /\ UNCHANGED ui /\ Elsewhere

onPendingPillClick ==
    /\ ui.n > 0 /\ ~ui.busy /\ ~ui.off
    /\ ui' = Loading([ui EXCEPT !.kept = "applying"])
    /\ Calls("commit") /\ Elsewhere

onPendingTrashClick ==
    /\ ui.n > 0 /\ ~ui.busy /\ ui.trash /\ ~ui.barred
    /\ Calls("discard") /\ UNCHANGED ui /\ Elsewhere

onPendingKeepFixingClick ==
    /\ ui.choice /\ (ui.n > 0 \/ ui.kept # "none")
    /\ ui' = Repairing(ui)
    /\ Calls("repair") /\ Elsewhere

onPendingRollbackClick == ui.choice /\ Calls("rollback") /\ UNCHANGED ui /\ Elsewhere

-----------------------------------------------------------------------------
(* The server and the agent *)

Endings == {"done", "failed", "decide"}
Ending(f) == \E i \in DOMAIN f : f[i].ev \in Endings

\* Events reach a tab that is connected.
Tells(ev, n) ==
    IF linked
    THEN Len(feed) < MaxFeed /\ feed' = Append(feed, [ev |-> ev, n |-> n]) /\ UNCHANGED missed
    ELSE feed' = feed /\ missed' = (missed \/ ev \in Endings)

Answers(i, at, n) == calls' = [calls EXCEPT ![i].at = at, ![i].n = n]
Quietly == UNCHANGED <<feed, missed>>

\* What each request does, and when it is refused.
Stashed(i) ==
    /\ staged < MaxStaged /\ staged' = staged + 1
    /\ Answers(i, "ok", staged + 1) /\ Tells("stashed", staged + 1) /\ UNCHANGED job

Counted(i) == Answers(i, "ok", staged) /\ Quietly /\ UNCHANGED <<staged, job>>

\* An apply runs on after the answer, or is over with it.
Committed(i) ==
    /\ staged > 0 /\ job = "none"
    /\ \/ job' = "applying" /\ UNCHANGED staged /\ Answers(i, "ok", 0) /\ Tells("started", staged)
       \/ staged' \in 0..staged /\ UNCHANGED job /\ Answers(i, "over", staged') /\ Quietly

Restarted(i) ==
    /\ job = "decide" /\ job' = "repairing" /\ UNCHANGED staged
    /\ Answers(i, "ok", 0) /\ Tells("restarted", staged)

RolledBack(i) ==
    /\ job = "decide" /\ job' = "none" /\ UNCHANGED staged
    /\ Answers(i, "ok", staged) /\ Tells("rolledBack", staged)

Discarded(i) ==
    /\ job = "none" /\ staged' = 0 /\ UNCHANGED job
    /\ Answers(i, "ok", 0) /\ Tells("discarded", 0)

Declined(i) ==
    /\ \/ calls[i].k = "commit" /\ (staged = 0 \/ job # "none")
       \/ calls[i].k \in {"repair", "rollback"} /\ job # "decide"
       \/ calls[i].k = "discard" /\ job # "none"
    /\ Answers(i, "failed", 0) /\ Quietly /\ UNCHANGED <<staged, job>>

Serves(i) ==
    /\ calls[i] # Idle /\ calls[i].at = "sent"
    /\ \/ calls[i].k = "stash" /\ Stashed(i)
       \/ calls[i].k = "count" /\ Counted(i)
       \/ calls[i].k = "commit" /\ Committed(i)
       \/ calls[i].k = "repair" /\ Restarted(i)
       \/ calls[i].k = "rollback" /\ RolledBack(i)
       \/ calls[i].k = "discard" /\ Discarded(i)
       \/ Declined(i)
    /\ UNCHANGED <<ui, linked, slips, pages>>

\* The request, or its answer, is lost.
Drops(i) ==
    /\ calls[i] # Idle /\ calls[i].at # "failed" /\ slips < MaxSlips
    /\ slips' = slips + 1 /\ Answers(i, "failed", 0)
    /\ UNCHANGED <<ui, feed, linked, staged, job, missed, pages>>

Runs == job \in {"applying", "repairing"}

\* The agent reports, repairs what did not verify, leaves it to the user, ends or fails.
JobSteps ==
    /\ Runs
    /\ \/ job = "applying" /\ Tells("chunk", 0) /\ UNCHANGED <<staged, job>>
       \/ job' = "repairing" /\ Tells("repair", 0) /\ UNCHANGED staged
       \/ job' = "decide" /\ Tells("decide", staged) /\ UNCHANGED staged
       \/ job' = "none" /\ staged' \in 0..staged /\ Tells("done", staged')
       \/ job' = "none" /\ Tells("failed", 0) /\ UNCHANGED staged
    /\ UNCHANGED <<ui, calls, linked, slips, pages>>

-----------------------------------------------------------------------------
(* Answers and events *)

\* What the callbacks of a request make of its answer c.
Heard(c) ==
    CASE c.k \in {"count", "stash"} /\ c.at = "failed" -> ui
      [] c.k = "count" /\ c.at # "failed" -> updatePendingCounter(ui, c.n)
      [] c.k = "stash" /\ c.at # "failed" ->
            [updatePendingCounter(ui, c.n) EXCEPT !.st = "CONFIGURING"]
      [] c.k = "commit" ->
            IF c.at = "ok" THEN ui
            ELSE LET u == IF c.at = "over" THEN updatePendingCounter(ui, c.n) ELSE ui
                 IN  IF u.n > 0 THEN NotLoading(u) ELSE hidePendingApplyDock(u)
      [] c.k = "repair" ->
            IF c.at = "ok" THEN [ui EXCEPT !.choice = FALSE, !.trash = TRUE]
            ELSE showManualApplyDecision(ui, 1)
      [] c.k = "rollback" ->
            IF c.at = "ok" THEN updatePendingCounter([ui EXCEPT !.kept = "none"], c.n) ELSE ui
      [] c.k = "discard" -> IF c.at = "ok" THEN updatePendingCounter(ui, 0) ELSE ui

\* A request of the page before has nobody to hear of it.
HearsAnswer(i) ==
    /\ calls[i] # Idle /\ calls[i].at # "sent"
    /\ ui' = IF calls[i].heard THEN Heard(calls[i]) ELSE ui
    /\ missed' = (missed \/ (~calls[i].heard /\ calls[i].at # "ok"))
    /\ calls' = [calls EXCEPT ![i] = Idle]
    /\ UNCHANGED <<feed, linked, staged, job, slips, pages>>

\* Mutant: the counter is updated while the flag is set.
CommitDoneStillLoading(u, n) == updatePendingCounter(u, n)

\* manual_edit_commit_done clears the flag first.
CommitDone(u, n) == updatePendingCounter(NotLoading(u), n)

\* handleManualEditActivity
Activity(u, e) ==
    CASE e.ev = "stashed"    -> updatePendingCounter(u, e.n)
      [] e.ev = "started"    -> Loading([updatePendingCounter(u, e.n) EXCEPT !.kept = "applying"])
      [] e.ev = "restarted"  -> Loading(Repairing(updatePendingCounter(u, e.n)))
      [] e.ev = "chunk"      -> Progress(u)
      [] e.ev = "repair"     -> Repairing(u)
      [] e.ev = "decide"     -> showManualApplyDecision(u, e.n)
      [] e.ev = "rolledBack" -> [u EXCEPT !.kept = "none"]
      [] e.ev = "done"       -> CommitDone(u, e.n)
      [] e.ev = "failed"     -> NotLoading(u)
      [] e.ev = "discarded"  -> u

\* Some events have the count fetched (fetchPendingCount).
HearsEvent ==
    /\ feed # <<>>
    /\ ui' = Activity(ui, Head(feed)) /\ feed' = Tail(feed)
    /\ IF Head(feed).ev \in {"rolledBack", "failed", "discarded"} THEN Calls("count")
       ELSE UNCHANGED calls
    /\ UNCHANGED <<linked, staged, job, missed, slips, pages>>

Links ==
    /\ ~linked /\ linked' = TRUE
    /\ UNCHANGED <<ui, calls, feed, staged, job, missed, slips, pages>>

Unlinks ==
    /\ linked /\ slips < MaxSlips
    /\ slips' = slips + 1 /\ linked' = FALSE
    /\ feed' = <<>> /\ missed' = (missed \/ Ending(feed))
    /\ UNCHANGED <<ui, calls, staged, job, pages>>

\* init fetches the count; requests with keepalive outlive their page.
Outlives(c) == c.k \in {"commit", "repair"} /\ c.at = "sent"

LoadsPage ==
    /\ pages < MaxPages /\ pages' = pages + 1
    /\ ui' = [Dock(ui.kept) EXCEPT !.stuck = ui.stuck]
    /\ LET left == [i \in 1..MaxCalls |->
                        IF Outlives(calls[i]) THEN [calls[i] EXCEPT !.heard = FALSE] ELSE Idle]
       IN  (\E i \in 1..MaxCalls : left[i] = Idle) /\ calls' = With(left, "count")
    /\ linked' = FALSE /\ feed' = <<>>
    /\ missed' = (missed \/ Ending(feed) \/ \E i \in 1..MaxCalls :
                      calls[i].k \in {"commit", "repair"} /\ calls[i].at \in {"over", "failed"})
    /\ UNCHANGED <<staged, job, slips>>

CopyInit ==
    /\ ui = Dock("none") /\ calls = With([i \in 1..MaxCalls |-> Idle], "count")
    /\ feed = <<>> /\ linked = FALSE /\ staged = 0 /\ job = "none" /\ missed = FALSE
    /\ slips = 0 /\ pages = 1

Edits == Picks \/ Leaves \/ enterEditingMode \/ cancelEditing \/ applyEditing
Decisions == \/ onPendingPillClick \/ onPendingTrashClick \/ onPendingKeepFixingClick
             \/ onPendingRollbackClick

CopyNext ==
    \/ Edits \/ Decisions \/ JobSteps
    \/ \E i \in 1..MaxCalls : Serves(i) \/ Drops(i) \/ HearsAnswer(i)
    \/ HearsEvent \/ Links \/ Unlinks \/ LoadsPage

CopySpec == CopyInit /\ [][CopyNext]_copied

-----------------------------------------------------------------------------

\* "leave the picker frozen forever after a partial/failed apply": as long as the editor is
\* frozen by an apply whose end the tab did not miss, and of which the user has nothing to
\* decide, the apply runs, or an event or an
\* answer that will release the editor is on its way.
FrozenIsPursued ==
    ui.busy /\ ~ui.stuck /\ ~missed =>
        \/ Runs \/ Ending(feed)
        \/ \E i \in 1..MaxCalls : calls[i].k \in {"commit", "repair"}

=============================================================================

------------------------------- MODULE RunPhases -------------------------------
(***************************************************************************)
(* What the controller of one run does from phase to phase: worker, CI,    *)
(* review and fix rounds, with the ledger of what the agents used          *)
(* (src/nyan_shop_bot/orchestrator: service.py, store.py, gitops.py).      *)
(* Each step is one write to the store, to a file, to the worktree or to   *)
(* GitHub; the controller may die between any two, and another takes over  *)
(* (RunControl: one at a time, and none while an agent still runs).        *)
(*                                                                         *)
(* A pause is a death without a crash: it leaves the same row and files.   *)
(* A stop, a claim and a run blocked by an older release are RunControl's. *)
(***************************************************************************)
EXTENDS Integers, Sequences, FiniteSets

CONSTANTS
    MaxFixRounds,   \* budget.max_fix_rounds
    MaxInvocations, \* budget.max_agent_invocations
    MaxTokens,      \* the token ceiling of each role; an agent uses one token
    MaxDeaths       \* bound: controllers that die

ASSUME BudgetAssumption ==
    /\ MaxFixRounds \in Nat /\ MaxInvocations \in Nat \ {0}
    /\ MaxTokens \in Nat /\ MaxDeaths \in Nat

VARIABLES
    run,            \* the row of the run
    ledger,         \* invocation_usage: the stream each invocation was accounted for
    tree,           \* the worktree: [head, dirty]; a head counts the runner's commits
    streams,        \* event streams of the agents, in the order they were started
    files,          \* the stream in each agent's events file, 0 where there is none
    requests,       \* fix-<n>.request.json: the HEAD whose CI failed
    pull,           \* the pull request: [head, merged]
    pc,             \* where the controller is; "gone" when there is none
    mem,            \* the stream it has read, and how it came by it
    cumulative,     \* the worker is Antigravity, which reports totals of its session
    deaths

store  == <<run, ledger>>
phased == <<store, tree, streams, files, requests, pull, pc, mem, cumulative, deaths>>

NoHead == -1
Base   == 0
Roles  == {"worker", "reviewer"}

\* worker-initial, worker-fix-<n> and review-<n>.
Name(role) == <<role, run.fix>>
Invocation(role) == <<Name(role), run.inv>>
Stream(role) == files[Name(role)]
Finished(n) == n # 0 /\ streams[n].done

Step(l) == pc' = l
Set(r)  == run' = r
Keep(unchanged) == UNCHANGED <<unchanged, cumulative, deaths>>

\* The enforceable tokens of a role after what is in ledger l.
Total(l, role) ==
    LET worked == {e \in l : e.inv[1][1] = role /\ streams[e.stream].used # 0}
        latest == {streams[e.stream].used : e \in worked}
    IN  IF role = "worker" /\ cumulative
        THEN IF latest = {} THEN 0 ELSE CHOOSE u \in latest : \A v \in latest : v <= u
        ELSE Cardinality(worked)

\* _block
Blocks == /\ pc # "gone" /\ Set([run EXCEPT !.phase = "BLOCKED"]) /\ Step("loop")
          /\ Keep(<<ledger, tree, streams, files, requests, pull, mem>>)

In(phases) == pc = "loop" /\ run.phase \in phases

-----------------------------------------------------------------------------
(* Agents *)

\* _check_budget
WithinBudget(role) ==
    /\ run.inv < MaxInvocations
    /\ \A e \in ledger : streams[e.stream].used # 0
    /\ Total(ledger, role) < MaxTokens

\* The adapters empty the events file of the name and start the agent.
Spawn ==
    /\ pc \in {"spawn", "spawnReview"}
    /\ LET role == IF pc = "spawn" THEN "worker" ELSE "reviewer"
       IN  /\ streams' = Append(streams, [role |-> role, head |-> tree.head, done |-> FALSE,
                                          res |-> "none", names |-> NoHead, used |-> 0])
           /\ files' = [files EXCEPT ![Name(role)] = Len(streams) + 1]
    /\ Step("agent")
    /\ Keep(<<store, tree, requests, pull, mem>>)

Results(role) ==
    IF role = "worker" THEN {"ok", "invalid", "blocked"}
    ELSE {"pass", "changes", "blocked"}

\* The HEAD a result names; a worker's that names another is one of the invalid ones.
Names(role) == IF role = "worker" THEN {tree.head} ELSE {tree.head, NoHead}

\* What one process used: its turn, or the total of its session; 0 where it does not say.
Used(role) ==
    IF role = "worker" /\ cumulative
    THEN {0, Cardinality({i \in DOMAIN streams : streams[i].role = "worker"})} ELSE {0, 1}

\* The agent ends its turn; a worker with a valid result has changed files.
TurnEnds(n) ==
    \E res \in Results(streams[n].role), used \in Used(streams[n].role),
       names \in Names(streams[n].role) :
        /\ streams' = [streams EXCEPT ![n].done = TRUE, ![n].res = res, ![n].used = used,
                                      ![n].names = names]
        /\ tree' = [tree EXCEPT !.dirty = @ \/ res = "ok"]

\* It is cut off; a worker may have changed files.
TurnCut(n) ==
    /\ streams' = streams
    /\ \E dirty \in BOOLEAN :
          tree' = [tree EXCEPT !.dirty = @ \/ (streams[n].role = "worker" /\ dirty)]

AgentEnds ==
    /\ pc = "agent" /\ TurnEnds(Len(streams))
    /\ Step("account") /\ mem' = [stream |-> Len(streams), by |-> "live"]
    /\ Keep(<<store, files, requests, pull>>)

\* record_invocation_usage under _account_invocation: an invocation is recorded once, and
\* what it is recorded with again must be the same stream.
Account ==
    /\ pc = "account"
    /\ LET role  == streams[mem.stream].role
           entry == [inv |-> Invocation(role), stream |-> mem.stream]
       IN  /\ \A e \in ledger : e.inv = entry.inv => e = entry
           /\ ledger' = ledger \cup {entry}
           /\ Step(IF Total(ledger', role) > MaxTokens THEN "raise"
                   ELSE IF role = "worker" THEN "commit" ELSE "verdict")
    /\ Keep(<<run, tree, streams, files, requests, pull, mem>>)

\* Mutant: a result that is recovered is not accounted for.
TakeUpUncounted(n, by, role) ==
    /\ Step(IF role = "worker" THEN "commit" ELSE "verdict")
    /\ mem' = [stream |-> n, by |-> by]

\* A finished stream that a controller finds is accounted for like its own.
TakeUp(n, by, role) == Step("account") /\ mem' = [stream |-> n, by |-> by]

-----------------------------------------------------------------------------
(* Worker rounds *)

CreateWorktree ==
    /\ In({"CREATED"})
    /\ Set([run EXCEPT !.phase = "CLAIMED"]) /\ Step("loop")
    /\ Keep(<<ledger, tree, streams, files, requests, pull, mem>>)

\* _fix_prompt: findings of the review before, or else the CI failure, of this HEAD.
Answerable ==
    LET review == files[<<"reviewer", run.fix - 1>>]
    IN  IF Finished(review) THEN streams[review].names = run.head
        ELSE requests[run.fix] = run.head

\* _run_worker, up to the prompt: an interrupted round has its parent in the row, and only
\* that one may find changed files.
MayWork ==
    /\ WithinBudget("worker")
    /\ run.parent \in {NoHead, tree.head}
    /\ tree.dirty => run.parent # NoHead
    /\ run.phase = "CLAIMED" => tree.head = Base
    /\ run.phase = "FIX_REQUESTED" => tree.head = run.head /\ Answerable

StartWorker ==
    /\ In({"CLAIMED", "FIX_REQUESTED"}) /\ MayWork
    /\ Set([run EXCEPT !.inv = @ + 1, !.parent = tree.head]) /\ Step("marked")
    /\ Keep(<<ledger, tree, streams, files, requests, pull, mem>>)

WorkerRuns ==
    /\ pc = "marked"
    /\ Set([run EXCEPT !.phase = "WORKER_RUNNING"]) /\ Step("spawn")
    /\ Keep(<<ledger, tree, streams, files, requests, pull, mem>>)

Reopen ==
    /\ Set([run EXCEPT !.phase = IF run.fix = 0 THEN "CLAIMED" ELSE "FIX_REQUESTED"])
    /\ Step("loop")
    /\ Keep(<<ledger, tree, streams, files, requests, pull, mem>>)

\* _recover_interrupted_worker: a result is taken up, without one the round starts again.
RecoverWorker ==
    /\ In({"WORKER_RUNNING"}) /\ run.parent # NoHead
    /\ IF Finished(Stream("worker"))
       THEN /\ TakeUp(Stream("worker"), IF tree.head = run.parent THEN "found" ELSE "committed",
                      "worker")
            /\ Keep(<<store, tree, streams, files, requests, pull>>)
       ELSE tree.head = run.parent /\ Reopen

Valid == streams[mem.stream].res = "ok" /\ tree.dirty /\ tree.head = run.parent

\* validate_and_commit_worker_changes
Commit ==
    /\ pc = "commit" /\ mem.by # "committed" /\ Valid
    /\ tree' = [head |-> tree.head + 1, dirty |-> FALSE] /\ Step("committed")
    /\ Keep(<<store, streams, files, requests, pull, mem>>)

\* A result found by a recovery that cannot be committed is asked for again.
CommitFails ==
    /\ pc = "commit" /\ mem.by = "found" /\ streams[mem.stream].res # "blocked"
    /\ Reopen

\* validate_recovered_runner_commit
CommitFound ==
    /\ pc = "commit" /\ mem.by = "committed"
    /\ streams[mem.stream].res = "ok" /\ tree.head = run.parent + 1 /\ ~tree.dirty
    /\ Step("committed")
    /\ Keep(<<store, tree, streams, files, requests, pull, mem>>)

\* Mutant: the phase is written before the HEAD.
RecordPhaseFirst ==
    /\ pc = "committed"
    /\ Set([run EXCEPT !.phase = "WORKER_COMPLETE"]) /\ Step("recorded")
    /\ Keep(<<ledger, tree, streams, files, requests, pull, mem>>)

RecordHead ==
    /\ pc = "committed"
    /\ Set([run EXCEPT !.head = tree.head, !.reviewed = NoHead]) /\ Step("recorded")
    /\ Keep(<<ledger, tree, streams, files, requests, pull, mem>>)

WorkerCompletes ==
    /\ pc = "recorded"
    /\ Set([run EXCEPT !.phase = "WORKER_COMPLETE"]) /\ Step("unmark")
    /\ Keep(<<ledger, tree, streams, files, requests, pull, mem>>)

Unmark ==
    /\ pc = "unmark"
    /\ Set([run EXCEPT !.parent = NoHead]) /\ Step("loop")
    /\ Keep(<<ledger, tree, streams, files, requests, pull, mem>>)

-----------------------------------------------------------------------------
(* Pull request and CI *)

Publish ==
    /\ In({"WORKER_COMPLETE"}) /\ tree.head = run.head
    /\ pull' = [pull EXCEPT !.head = run.head] /\ Step("published")
    /\ Keep(<<store, tree, streams, files, requests, mem>>)

ForgetEvidence ==
    /\ pc = "published"
    /\ Set([run EXCEPT !.reviewed = NoHead, !.ci = NoHead]) /\ Step("forgotten")
    /\ Keep(<<ledger, tree, streams, files, requests, pull, mem>>)

AwaitCi ==
    /\ pc = "forgotten"
    /\ Set([run EXCEPT !.phase = "CI_WAITING"]) /\ Step("loop")
    /\ Keep(<<ledger, tree, streams, files, requests, pull, mem>>)

\* wait_for_ci: the newest run of this HEAD has passed.
CiPasses ==
    /\ In({"CI_WAITING"}) /\ tree.head = run.head
    /\ Set([run EXCEPT !.ci = run.head]) /\ Step("passed")
    /\ Keep(<<ledger, tree, streams, files, requests, pull, mem>>)

AwaitReview ==
    /\ pc = "passed"
    /\ Set([run EXCEPT !.phase = "REVIEW_RUNNING"]) /\ Step("loop")
    /\ Keep(<<ledger, tree, streams, files, requests, pull, mem>>)

\* Mutant: the request is written for the round that failed.
CiFailsOffByOne ==
    /\ In({"CI_WAITING"}) /\ tree.head = run.head /\ ~tree.dirty /\ run.fix < MaxFixRounds
    /\ requests' = [requests EXCEPT ![run.fix] = run.head] /\ Step("requested")
    /\ Keep(<<store, tree, streams, files, pull, mem>>)

\* _request_ci_fix: the request, and then the round.
CiFails ==
    /\ In({"CI_WAITING"}) /\ tree.head = run.head /\ ~tree.dirty /\ run.fix < MaxFixRounds
    /\ requests' = [requests EXCEPT ![run.fix + 1] = run.head] /\ Step("requested")
    /\ Keep(<<store, tree, streams, files, pull, mem>>)

\* record_ci_fix_request; ci_run_id is that of the failure.
RecordCiFix ==
    /\ pc = "requested"
    /\ Set([run EXCEPT !.phase = "FIX_REQUESTED", !.fix = @ + 1, !.ci = NoHead,
                       !.reviewed = NoHead, !.begun = NoHead])
    /\ Step("loop")
    /\ Keep(<<ledger, tree, streams, files, requests, pull, mem>>)

-----------------------------------------------------------------------------
(* Review *)

\* _run_review: the result of an interrupted review of this HEAD is taken up.
Review ==
    /\ In({"REVIEW_RUNNING"}) /\ tree.head = run.head /\ ~tree.dirty
    /\ IF run.begun = run.head /\ Finished(Stream("reviewer"))
       THEN TakeUp(Stream("reviewer"), "found", "reviewer") /\ UNCHANGED run
       ELSE /\ Set([run EXCEPT !.begun = IF @ = run.head THEN NoHead ELSE @])
            /\ Step("review") /\ UNCHANGED mem
    /\ Keep(<<ledger, tree, streams, files, requests, pull>>)

StartReview ==
    /\ pc = "review" /\ WithinBudget("reviewer")
    /\ Set([run EXCEPT !.inv = @ + 1, !.begun = run.head]) /\ Step("spawnReview")
    /\ Keep(<<ledger, tree, streams, files, requests, pull, mem>>)

\* Mutant: require_exact_review_head is not called.
VerdictOnAnything ==
    /\ pc = "verdict" /\ ~tree.dirty
    /\ Set([run EXCEPT !.reviewed = streams[mem.stream].names]) /\ Step("decide")
    /\ Keep(<<ledger, tree, streams, files, requests, pull, mem>>)

\* _finish_review, with require_exact_review_head.
Verdict ==
    /\ pc = "verdict" /\ ~tree.dirty /\ tree.head = run.head
    /\ streams[mem.stream].names = run.head
    /\ Set([run EXCEPT !.reviewed = streams[mem.stream].names]) /\ Step("decide")
    /\ Keep(<<ledger, tree, streams, files, requests, pull, mem>>)

\* review_decision
RequestChanges ==
    /\ pc = "decide" /\ streams[mem.stream].res = "changes" /\ run.fix < MaxFixRounds
    /\ Set([run EXCEPT !.fix = @ + 1]) /\ Step("changes")
    /\ Keep(<<ledger, tree, streams, files, requests, pull, mem>>)

Decide ==
    /\ \/ pc = "changes" /\ Set([run EXCEPT !.phase = "FIX_REQUESTED"])
       \/ pc = "decide" /\ streams[mem.stream].res = "pass"
             /\ Set([run EXCEPT !.phase = "READY_FOR_OWNER"])
    /\ Step("unbegin")
    /\ Keep(<<ledger, tree, streams, files, requests, pull, mem>>)

Unbegin ==
    /\ pc = "unbegin"
    /\ Set([run EXCEPT !.begun = NoHead]) /\ Step("loop")
    /\ Keep(<<ledger, tree, streams, files, requests, pull, mem>>)

-----------------------------------------------------------------------------
(* The owner *)

OwnerMerges ==
    /\ run.phase = "READY_FOR_OWNER" /\ ~pull.merged
    /\ pull' = [pull EXCEPT !.merged = TRUE]
    /\ UNCHANGED pc
    /\ Keep(<<store, tree, streams, files, requests, mem>>)

\* resume_run at the owner's gate, with merged_commit_if_exact.
Reconcile ==
    /\ In({"READY_FOR_OWNER"}) /\ run.reviewed = run.head
    /\ pull.merged /\ pull.head = run.head
    /\ Set([run EXCEPT !.phase = "OWNER_MERGED"]) /\ Step("loop")
    /\ Keep(<<ledger, tree, streams, files, requests, pull, mem>>)

\* _complete_main_delivery, once the delivery of main has passed.
MainDelivery ==
    /\ In({"OWNER_MERGED"}) /\ run.reviewed = run.head
    /\ Set([run EXCEPT !.phase = "COMPLETED"]) /\ Step("loop")
    /\ Keep(<<ledger, tree, streams, files, requests, pull, mem>>)

-----------------------------------------------------------------------------
(* Controllers come and go *)

Settled == {"READY_FOR_OWNER", "BLOCKED", "COMPLETED"}

\* The agent of a controller that dies is gone, or has ended its turn, before another
\* controller starts.
Dies ==
    /\ pc # "gone" /\ run.phase # "COMPLETED" /\ deaths < MaxDeaths
    /\ deaths' = deaths + 1
    /\ IF pc = "agent" THEN TurnEnds(Len(streams)) \/ TurnCut(Len(streams))
       ELSE UNCHANGED <<streams, tree>>
    /\ Step("gone")
    /\ UNCHANGED <<store, files, requests, pull, mem, cumulative>>

TakesOver == pc = "gone" /\ Step("loop") /\ Keep(<<store, tree, streams, files, requests, pull, mem>>)

\* Whatever is not as it must be, a deadline or a failed command raises.
Fails == run.phase \notin Settled /\ Blocks

PhaseInit ==
    /\ run = [phase |-> "CREATED", head |-> NoHead, reviewed |-> NoHead, begun |-> NoHead,
              parent |-> NoHead, ci |-> NoHead, fix |-> 0, inv |-> 0]
    /\ ledger = {} /\ streams = <<>> /\ files = [n \in Roles \X (0..MaxFixRounds) |-> 0]
    /\ tree = [head |-> Base, dirty |-> FALSE]
    /\ requests = [n \in 0..MaxFixRounds |-> NoHead]
    /\ pull = [head |-> NoHead, merged |-> FALSE]
    /\ pc = "loop" /\ mem = [stream |-> 0, by |-> "live"]
    /\ cumulative \in BOOLEAN /\ deaths = 0

Work == StartWorker \/ WorkerRuns \/ RecoverWorker \/ Commit \/ CommitFails \/ CommitFound
            \/ RecordHead \/ WorkerCompletes \/ Unmark
Gate == Publish \/ ForgetEvidence \/ AwaitCi \/ CiPasses \/ AwaitReview \/ CiFails \/ RecordCiFix
Judge == Review \/ StartReview \/ Verdict \/ RequestChanges \/ Decide \/ Unbegin
Owner == OwnerMerges \/ Reconcile \/ MainDelivery

PhaseNext ==
    \/ CreateWorktree \/ Spawn \/ AgentEnds \/ Account
    \/ Work \/ Gate \/ Judge \/ Owner
    \/ Dies \/ TakesOver \/ Fails

PhaseSpec == PhaseInit /\ [][PhaseNext]_phased

-----------------------------------------------------------------------------

\* "It must return PASS [..] for that same SHA. A fix commit invalidates prior CI/review":
\* what reaches the owner is the HEAD that passed CI and that a reviewer passed.
ReadyIsProven ==
    run.phase \in {"READY_FOR_OWNER", "OWNER_MERGED", "COMPLETED"} =>
        /\ run.head = tree.head /\ run.ci = run.head /\ run.reviewed = run.head
        /\ pull.head = run.head
        /\ \E i \in DOMAIN streams :
              streams[i].role = "reviewer" /\ streams[i].res = "pass" /\ streams[i].head = run.head

\* Wherever controllers died, a run that has left the worker's turn knows the commit it
\* made: none is lost to the row, and none is made of a round twice.
HeadIsRecorded ==
    run.phase \notin {"CREATED", "CLAIMED", "WORKER_RUNNING", "BLOCKED"} =>
        run.head = tree.head /\ tree.head \in 1..(run.fix + 1)

\* "A controller crash cannot erase tokens": once the run moves on, every turn that ended
\* is in the ledger.
NoTokensErased ==
    run.phase \notin {"WORKER_RUNNING", "REVIEW_RUNNING", "BLOCKED"} =>
        \A i \in DOMAIN streams : streams[i].done => \E e \in ledger : e.stream = i

\* A fix round has what it is to fix, and for the HEAD it starts from, whether a review or
\* CI asked for it and whoever died before the round began.
FixIsAnswerable == run.phase = "FIX_REQUESTED" => Answerable /\ run.head = tree.head

\* Deaths do not buy agents: no more of them run than the budget has invocations.
AgentsAreBounded == Len(streams) <= MaxInvocations

\* "A controller crash cannot [..] duplicate a completed review".
CompletedReviewIsNotRepeated ==
    \A i, j \in DOMAIN streams :
        i < j /\ streams[i].role = "reviewer" /\ streams[j].role = "reviewer" /\ streams[i].done
            => streams[i].head # streams[j].head

=============================================================================

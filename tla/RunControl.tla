----------------------------- MODULE RunControl -----------------------------
(* The life of a run of the local orchestrator, between the operator's commands,
   the controller process that drives it, and the launcher of the model process
   that edits its worktree.  src/nyan_shop_bot/orchestrator: cli.py, service.py
   (RunnerService), adapters.py (_run_monitored), agent_process.py, store.py.

   Every action is one transaction of the store, or one look at the operating
   system; a process may die between any two.  What a resumable phase does to its
   worktree is left out: every phase that is not terminal and not OWNER_MERGED is
   WORKING, and MERGE_PENDING_CONFIRMATION, which no code enters, is left out.   *)
EXTENDS Naturals, FiniteSets

CONSTANTS
    Runs,
    TaskOf,         \* the task (and its issue) of each run
    Legacies,       \* sets of runs an older release may have left BLOCKED on CI failures
    MaxWorkers,     \* --max-workers
    Controllers,    \* runner processes; each is one incarnation, pid and token
    Launchers,      \* model launchers; each is one incarnation, pid and nonce
    Commands,       \* operator shells, each executing one command after another
    QuickResume,    \* TRUE when a controller may start while a launcher that an
                    \*   earlier one left at its barrier has not given up yet
    None

VARIABLES
    phase, desired, lease, agent, ciError,  \* the runs table; agent is the
                                            \*   registered launcher, ciError tells a
                                            \*   last_error that names a CI failure
    claim,          \* the claims table: is the run's claim active
    at, job,        \* each process: where it is, and [run, goal, then, saw]
    proc, home,     \* each launcher: its process, and the run it works for
    start           \* the launcher-start file of each run's current invocation

row   == <<phase, desired, lease, agent, ciError, claim>>
local == <<at, job>>
os    == <<proc, home, start>>
vars  == <<row, local, os>>

Processes == Controllers \cup Commands

Phases   == {"WORKING", "READY_FOR_OWNER", "OWNER_MERGED", "BLOCKED", "STOPPED", "COMPLETED"}
Terminal == {"READY_FOR_OWNER", "BLOCKED", "STOPPED", "COMPLETED"}
Final    == {"BLOCKED", "STOPPED", "COMPLETED"}
Desired  == {"RUNNING", "PAUSED", "STOPPED"}

ASSUME LimitAssumption == MaxWorkers \in 1..2
ASSUME DisciplineAssumption == QuickResume \in BOOLEAN
ASSUME RunsAssumption == IsFiniteSet(Runs) /\ Legacies \subseteq SUBSET Runs
ASSUME IdentityAssumption ==
    /\ Controllers \cap Commands = {}
    /\ None \notin Controllers /\ None \notin Launchers /\ None \notin Phases

\* Where a process may be, and what it knows there: then is where it goes once it has
\* ended a launch or released a claim, saw the run's row as it read it.
Resting   == {"unborn", "dead", "free"}
Followups == {"result", "paused", "stop", "block", "completed", "blocked", "stopped", "tidy"}
Places    == Resting \cup Followups \cup
    {"spawned", "loop", "checkpoint", "work", "register", "attached", "polling", "ended",
     "idle", "clearing", "releasing", "release", "prepare", "cleanagent", "cleanlease",
     "spawn", "read", "set", "merge", "merged", "reclaim", "relaunch", "orphan", "confirm"}
Snapshots == [phase : Phases \cup {None}, lease : Controllers \cup {None},
              agent : Launchers \cup {None}]
Jobs      == [run : Runs, goal : Desired \cup {None}, then : Followups \cup {None},
              saw : Snapshots \cup {None}]
ASSUME JobAssumption == None \notin Jobs /\ None \notin Followups

Row(r) == [phase |-> phase[r], lease |-> lease[r], agent |-> agent[r]]

\* process_matches, for a controller and for a launcher; the acknowledgement that
\* the launcher's watchdog writes once nothing below the launcher is left.
Lives(c)     == at[c] \notin {"unborn", "dead"}
Up(a)        == proc[a] \in {"barrier", "running"}
Contained(a) == proc[a] = "contained"
\* A launcher that ends while its model runs leaves descendants to its watchdog.
Ended(state) == CASE state = "barrier" -> "exited"
                  [] state = "running" -> "orphaned"
                  [] OTHER -> state
Kill(a)      == proc' = [proc EXCEPT ![a] = Ended(@)]

RunOf(p) == job[p].run
Saw(p)   == job[p].saw
At(p, l) == at[p] = l /\ job[p] # None

Goto(p, l)    == at' = [at EXCEPT ![p] = l] /\ job' = job
Look(p, l)    == at' = [at EXCEPT ![p] = l] /\ job' = [job EXCEPT ![p].saw = Row(RunOf(p))]
Aim(p, l, t)  == at' = [at EXCEPT ![p] = l] /\ job' = [job EXCEPT ![p].then = t]
Forget(p, l)  == at' = [at EXCEPT ![p] = l] /\ job' = [job EXCEPT ![p].saw = None]
End(p, l)     == at' = [at EXCEPT ![p] = l] /\ job' = [job EXCEPT ![p] = None]
NewJob(r, g)  == [run |-> r, goal |-> g, then |-> None, saw |-> None]
\* Out of what it was doing: a controller gives up its lease, a command is over.
Leave(p) == IF p \in Controllers THEN Goto(p, "release") ELSE End(p, "free")

Init ==
    /\ \E old \in Legacies : ciError = [r \in Runs |-> r \in old]
    /\ phase = [r \in Runs |-> IF ciError[r] THEN "BLOCKED" ELSE None]
    /\ desired = [r \in Runs |-> "RUNNING"]
    /\ claim = [r \in Runs |-> FALSE]
    /\ lease = [r \in Runs |-> None] /\ agent = [r \in Runs |-> None]
    /\ at = [p \in Processes |-> IF p \in Controllers THEN "unborn" ELSE "free"]
    /\ job = [p \in Processes |-> None]
    /\ proc = [a \in Launchers |-> "unborn"] /\ home = [a \in Launchers |-> None]
    /\ start = [r \in Runs |-> FALSE]
-----------------------------------------------------------------------------
(* The controller: RunnerService.run and _run_loop.                          *)

AcquireProcessLease(c) ==
    /\ At(c, "spawned")
    /\ QuickResume \/ \A a \in Launchers : home[a] = RunOf(c) => proc[a] # "barrier"
    /\ IF lease[RunOf(c)] = None
       THEN lease' = [lease EXCEPT ![RunOf(c)] = c] /\ Goto(c, "loop")
       ELSE lease' = lease /\ End(c, "dead")
    /\ UNCHANGED <<phase, desired, agent, ciError, claim, os>>

RunLoop(c) ==
    /\ At(c, "loop")
    /\ Look(c, IF phase[RunOf(c)] \in Terminal THEN "release" ELSE "checkpoint")
    /\ UNCHANGED <<row, os>>

\* Heartbeat, then the owner's wish: a lost lease is an error.
CheckpointControl(c) ==
    /\ At(c, "checkpoint")
    /\ LET wish == desired[RunOf(c)] IN
       Goto(c, CASE lease[RunOf(c)] # c -> "block"
                 [] wish = "RUNNING" -> "work"
                 [] wish = "PAUSED" -> "release"
                 [] wish = "STOPPED" -> "stop")
    /\ UNCHANGED <<row, os>>

\* A step of a resumable phase; from "result" the step that a model's answer allows.
Advance(c) ==
    /\ At(c, "work") \/ At(c, "result")
    /\ Saw(c).phase = "WORKING"
    /\ \E next \in {"WORKING", "READY_FOR_OWNER"} : phase' = [phase EXCEPT ![RunOf(c)] = next]
    /\ Goto(c, "loop")
    /\ UNCHANGED <<desired, lease, agent, ciError, claim, os>>

\* The waits for CI and for the delivery of main read the owner's wish meanwhile.
PollControl(c) ==
    /\ At(c, "work")
    /\ Goto(c, "checkpoint")
    /\ UNCHANGED <<row, os>>

Deliver(c) ==
    /\ At(c, "work") /\ Saw(c).phase = "OWNER_MERGED"
    /\ phase' = [phase EXCEPT ![RunOf(c)] = "COMPLETED"]
    /\ Aim(c, "idle", "completed")
    /\ UNCHANGED <<desired, lease, agent, ciError, claim, os>>

Raise(c) ==
    /\ At(c, "work") \/ At(c, "result")
    /\ Goto(c, "block")
    /\ UNCHANGED <<row, os>>

\* Mutant: without the unlink of the launcher-start file.
LaunchOverOldFiles(c, a) ==
    /\ At(c, "work") /\ Saw(c).phase = "WORKING" /\ proc[a] = "unborn"
    /\ phase' \in {phase, [phase EXCEPT ![RunOf(c)] = "WORKING"]}
    /\ proc' = [proc EXCEPT ![a] = "barrier"] /\ home' = [home EXCEPT ![a] = RunOf(c)]
    /\ at' = [at EXCEPT ![c] = "register"]
    /\ job' = [job EXCEPT ![c].saw.agent = a]
    /\ UNCHANGED <<desired, lease, agent, ciError, claim, start>>

\* A worker's launch enters WORKER_RUNNING, a reviewer's writes no phase.  The files
\* of the launch bear the invocation's name, and an interrupted invocation is
\* resumed under the same one: the launcher-start file is removed and made again.
Launch(c, a) ==
    /\ At(c, "work") /\ Saw(c).phase = "WORKING" /\ proc[a] = "unborn"
    /\ phase' \in {phase, [phase EXCEPT ![RunOf(c)] = "WORKING"]}
    /\ start' = [start EXCEPT ![RunOf(c)] = FALSE]
    /\ proc' = [proc EXCEPT ![a] = "barrier"] /\ home' = [home EXCEPT ![a] = RunOf(c)]
    /\ at' = [at EXCEPT ![c] = "register"]
    /\ job' = [job EXCEPT ![c].saw.agent = a]
    /\ UNCHANGED <<desired, lease, agent, ciError, claim>>

Mine(c) == Saw(c).agent

SetActiveAgent(c) ==
    /\ At(c, "register")
    /\ \/ /\ proc[Mine(c)] = "barrier" /\ lease[RunOf(c)] = c /\ agent[RunOf(c)] = None
          /\ agent' = [agent EXCEPT ![RunOf(c)] = Mine(c)]
          /\ Goto(c, "attached") /\ proc' = proc
       \/ agent' = agent /\ Goto(c, "block") /\ Kill(Mine(c))
    /\ UNCHANGED <<phase, desired, lease, ciError, claim, home, start>>

\* The registered launcher is let through its barrier.
WriteStart(c) ==
    /\ At(c, "attached")
    /\ lease[RunOf(c)] = c /\ desired[RunOf(c)] = "RUNNING"
    /\ start' = [start EXCEPT ![RunOf(c)] = TRUE]
    /\ Goto(c, "polling")
    /\ UNCHANGED <<row, proc, home>>

\* Mutant: the owner's wish is read at the barrier only.
InterruptAtBarrier(c) ==
    /\ At(c, "attached") /\ lease[RunOf(c)] = c
    /\ \/ desired[RunOf(c)] = "PAUSED" /\ Aim(c, "ended", "paused")
       \/ desired[RunOf(c)] = "STOPPED" /\ Aim(c, "ended", "stop")
    /\ Kill(Mine(c))
    /\ UNCHANGED <<row, home, start>>

\* The control reading of an attached launcher, once a second.
Interrupt(c) ==
    /\ At(c, "attached") \/ (At(c, "polling") /\ Up(Mine(c)))
    /\ lease[RunOf(c)] = c
    /\ \/ desired[RunOf(c)] = "PAUSED" /\ Aim(c, "ended", "paused")
       \/ desired[RunOf(c)] = "STOPPED" /\ Aim(c, "ended", "stop")
    /\ Kill(Mine(c))
    /\ UNCHANGED <<row, home, start>>

\* An error instead: the lease is lost, or the invocation's time is over.
Expire(c) ==
    /\ At(c, "attached") \/ (At(c, "polling") /\ Up(Mine(c)))
    /\ Aim(c, "ended", "block")
    /\ Kill(Mine(c))
    /\ UNCHANGED <<row, home, start>>

\* The launcher has ended by itself; an answer counts once its tree is contained.
Collect(c) ==
    /\ At(c, "polling") /\ ~Up(Mine(c))
    /\ \/ Contained(Mine(c)) /\ Aim(c, "ended", "result")
       \/ Aim(c, "ended", "block")
    /\ UNCHANGED <<row, os>>

\* The finally block: the launcher is deregistered if it is contained in time.
AgentFinished(c) ==
    LET r == RunOf(c)  named == agent[r] = Mine(c) /\ lease[r] = c IN
    /\ At(c, "ended")
    /\ Goto(c, IF Contained(Mine(c)) /\ ~named THEN "block" ELSE job[c].then)
    /\ agent' = IF Contained(Mine(c)) /\ named THEN [agent EXCEPT ![r] = None] ELSE agent
    /\ UNCHANGED <<phase, desired, lease, ciError, claim, os>>

\* AgentPaused: the owner may have changed their mind meanwhile.
AfterPause(c) ==
    /\ At(c, "paused")
    /\ LET wish == desired[RunOf(c)] IN
       Goto(c, CASE wish = "RUNNING" -> "loop" [] wish = "STOPPED" -> "stop"
                 [] wish = "PAUSED" -> "release")
    /\ UNCHANGED <<row, os>>

ReleaseProcessLease(c) ==
    LET r == RunOf(c) IN
    /\ At(c, "release")
    /\ lease' = IF lease[r] = c /\ agent[r] = None THEN [lease EXCEPT ![r] = None] ELSE lease
    /\ End(c, "dead")
    /\ UNCHANGED <<phase, desired, agent, ciError, claim, os>>

Crash(c) ==
    /\ Lives(c)
    /\ End(c, "dead")
    /\ UNCHANGED <<row, os>>
-----------------------------------------------------------------------------
(* Stopping, blocking and releasing the claim: procedures of controllers and of
   commands alike.  then says what called _release_claim_if_agent_idle.       *)

\* Mutant: the two transactions of a stop the other way round.
StopBeforeRelease(p) ==
    /\ At(p, "stop")
    /\ IF phase[RunOf(p)] \in Final THEN Leave(p) /\ phase' = phase
       ELSE phase' = [phase EXCEPT ![RunOf(p)] = "STOPPED"] /\ Aim(p, "idle", "blocked")
    /\ UNCHANGED <<desired, lease, agent, ciError, claim, os>>

StopRun(p) ==
    /\ At(p, "stop")
    /\ IF phase[RunOf(p)] \in Final THEN Leave(p) ELSE Aim(p, "idle", "stopped")
    /\ UNCHANGED <<row, os>>

Block(c) ==
    /\ At(c, "block")
    /\ Goto(c, IF phase[RunOf(c)] \in Terminal THEN "release" ELSE "blocked")
    /\ UNCHANGED <<row, os>>

MarkBlocked(c) ==
    /\ At(c, "blocked")
    /\ phase' = [phase EXCEPT ![RunOf(c)] = "BLOCKED"]
    /\ ciError' = [ciError EXCEPT ![RunOf(c)] = FALSE]
    /\ Aim(c, "idle", "blocked")
    /\ UNCHANGED <<desired, lease, agent, claim, os>>

\* Mutant: a launcher that is gone is taken for contained.
CheckDead(p) ==
    LET r == RunOf(p) a == agent[r] IN
    /\ At(p, "idle")
    /\ IF a = None \/ ~Up(a) THEN Goto(p, "releasing") ELSE Leave(p)
    /\ UNCHANGED <<row, os>>

\* The release is deferred while a registered launcher lives or is not contained.
CheckIdle(p) ==
    LET r == RunOf(p) a == agent[r] IN
    /\ At(p, "idle")
    /\ IF a = None THEN Goto(p, "releasing")
       ELSE IF Contained(a) /\ lease[r] # None THEN Look(p, "clearing")
       ELSE IF job[p].then = "completed" THEN Goto(p, "block")
       ELSE IF job[p].then = "tidy" THEN Goto(p, "tidy")
       ELSE Leave(p)
    /\ UNCHANGED <<row, os>>

ReleaseClaim(p) ==
    /\ At(p, "releasing")
    /\ claim' = [claim EXCEPT ![RunOf(p)] = FALSE]
    /\ IF job[p].then \in {"stopped", "tidy"} THEN Goto(p, job[p].then) ELSE Leave(p)
    /\ UNCHANGED <<phase, desired, lease, agent, ciError, os>>

MarkStopped(p) ==
    /\ At(p, "stopped")
    /\ phase' = [phase EXCEPT ![RunOf(p)] = "STOPPED"]
    /\ Leave(p)
    /\ UNCHANGED <<desired, lease, agent, ciError, claim, os>>

\* After stale process state is cleared.
AfterTidy(p) == IF job[p].goal = "RUNNING" THEN Forget(p, "spawn")
                ELSE IF job[p].goal = "STOPPED" /\ job[p].then # "tidy" THEN Forget(p, "stop")
                ELSE End(p, "free")

\* Both clearings name what was read, and fail when it has changed since.
Unchanged(p) == lease[RunOf(p)] = Saw(p).lease /\ agent[RunOf(p)] = Saw(p).agent

ClearStaleActiveAgent(p) ==
    LET r == RunOf(p) IN
    /\ At(p, "clearing") \/ At(p, "cleanagent")
    /\ IF Unchanged(p)
       THEN /\ agent' = [agent EXCEPT ![r] = None]
            /\ IF at[p] = "clearing" THEN Forget(p, "releasing") ELSE Goto(p, "cleanlease")
       ELSE /\ agent' = agent
            /\ IF job[p].then = "completed" THEN Goto(p, "block") ELSE Leave(p)
    /\ UNCHANGED <<phase, desired, lease, ciError, claim, os>>

\* Mutant: without "AND process_token = ?", whoever's lease it is is cleared.
ClearAnyLease(p) ==
    /\ At(p, "cleanlease")
    /\ lease' = [lease EXCEPT ![RunOf(p)] = None] /\ AfterTidy(p)
    /\ UNCHANGED <<phase, desired, agent, ciError, claim, os>>

ClearStaleProcessLease(p) ==
    LET r == RunOf(p) IN
    /\ At(p, "cleanlease")
    /\ IF lease[r] = Saw(p).lease
       THEN lease' = [lease EXCEPT ![r] = None] /\ AfterTidy(p)
       ELSE lease' = lease /\ Leave(p)
    /\ UNCHANGED <<phase, desired, agent, ciError, claim, os>>
-----------------------------------------------------------------------------
(* The operator's commands: start, pause, resume and stop.                   *)

Claimable(r) ==
    /\ Cardinality({s \in Runs : claim[s]}) < MaxWorkers
    /\ \A s \in Runs : claim[s] => TaskOf[s] # TaskOf[r]

Start(p, r) ==
    /\ at[p] = "free" /\ phase[r] = None
    /\ Claimable(r)
    /\ \A s \in Runs : TaskOf[s] = TaskOf[r] => phase[s] \in Final \cup {None}
    /\ phase' = [phase EXCEPT ![r] = "WORKING"]
    /\ claim' = [claim EXCEPT ![r] = TRUE]
    /\ at' = [at EXCEPT ![p] = "prepare"]
    /\ job' = [job EXCEPT ![p] = NewJob(r, "RUNNING")]
    /\ UNCHANGED <<desired, lease, agent, ciError, os>>

Order(p, r, goal) ==
    /\ at[p] = "free" /\ phase[r] # None
    /\ at' = [at EXCEPT ![p] = "read"]
    /\ job' = [job EXCEPT ![p] = NewJob(r, goal)]
    /\ UNCHANGED <<row, os>>

\* Where set_control and resume_run go from the phase they read.  A run that waits
\* for the owner resumes once the owner has merged its pull request.
Route(goal, ph, ci) ==
    CASE ph \notin Terminal -> {"set"}
      [] goal = "STOPPED" /\ ph \in {"READY_FOR_OWNER", "BLOCKED"} -> {"set"}
      [] goal = "RUNNING" /\ ph = "READY_FOR_OWNER" -> {"merge", "refused"}
      [] goal = "RUNNING" /\ ph = "BLOCKED" /\ ci -> {"reclaim"}
      [] OTHER -> {"refused"}

ReadRun(p) ==
    LET r == RunOf(p) IN
    /\ At(p, "read")
    /\ \E l \in Route(job[p].goal, phase[r], ciError[r]) :
          CASE l = "refused" -> Leave(p) [] l = "set" -> Look(p, l) [] OTHER -> Goto(p, l)
    /\ UNCHANGED <<row, os>>

\* The controller whose liveness decides is the one that was read before.
SetDesiredState(p) ==
    LET goal == job[p].goal  seen == Saw(p) IN
    /\ At(p, "set")
    /\ desired' = [desired EXCEPT ![RunOf(p)] = goal]
    /\ IF goal = "RUNNING" THEN Forget(p, "relaunch")
       ELSE IF seen.phase = "READY_FOR_OWNER" THEN Forget(p, "stop")
       ELSE IF seen.phase = "BLOCKED" THEN Aim(p, "orphan", "tidy")
       ELSE IF seen.lease # None /\ Lives(seen.lease) THEN Leave(p)
       ELSE Forget(p, "orphan")
    /\ UNCHANGED <<phase, lease, agent, ciError, claim, os>>

AfterOrphan(p) == Goto(p, IF job[p].then = "tidy" THEN "idle" ELSE "prepare")

StopOrphanProcess(p) ==
    LET a == agent[RunOf(p)] IN
    /\ At(p, "orphan")
    /\ IF a # None /\ Up(a) THEN Kill(a) /\ Goto(p, "confirm")
       ELSE proc' = proc /\ AfterOrphan(p)
    /\ UNCHANGED <<row, home, start>>

ConfirmContainment(p) ==
    LET a == agent[RunOf(p)] IN
    /\ At(p, "confirm")
    /\ IF a # None /\ Contained(a) THEN AfterOrphan(p) ELSE Leave(p)
    /\ UNCHANGED <<row, os>>

PrepareProcessLaunch(p) ==
    /\ At(p, "prepare")
    /\ IF phase[RunOf(p)] \in Terminal THEN Leave(p) ELSE Goto(p, "tidy")
    /\ UNCHANGED <<row, os>>

\* _clear_stale_process_state, which touches no record of a process that lives.
ClearStaleProcessState(p) ==
    LET r == RunOf(p)  c == lease[r]  a == agent[r] IN
    /\ At(p, "tidy")
    /\ IF \/ c # None /\ Lives(c)
          \/ a # None /\ (~Contained(a) \/ c = None) THEN Leave(p)
       ELSE IF a # None THEN Look(p, "cleanagent")
       ELSE IF c # None THEN Look(p, "cleanlease")
       ELSE AfterTidy(p)
    /\ UNCHANGED <<row, os>>

SpawnBackground(p, c) ==
    /\ At(p, "spawn") /\ at[c] = "unborn"
    /\ at' = [at EXCEPT ![p] = "free", ![c] = "spawned"]
    /\ job' = [job EXCEPT ![p] = None, ![c] = NewJob(RunOf(p), None)]
    /\ UNCHANGED <<row, os>>

\* Resume starts a controller unless one is seen at work.
Relaunch(p) ==
    LET c == lease[RunOf(p)] IN
    /\ At(p, "relaunch")
    /\ IF c # None /\ Lives(c) THEN Leave(p) ELSE Goto(p, "prepare")
    /\ UNCHANGED <<row, os>>

\* resume_run after the owner's merge: two updates, neither of which looks again.
AcceptMerge(p) ==
    /\ At(p, "merge")
    /\ desired' = [desired EXCEPT ![RunOf(p)] = "RUNNING"]
    /\ Goto(p, "merged")
    /\ UNCHANGED <<phase, lease, agent, ciError, claim, os>>

MarkMerged(p) ==
    /\ At(p, "merged")
    /\ phase' = [phase EXCEPT ![RunOf(p)] = "OWNER_MERGED"]
    /\ Goto(p, "relaunch")
    /\ UNCHANGED <<desired, lease, agent, ciError, claim, os>>

\* Mutant: the recovery takes its claim without counting the others.
ReclaimUncounted(p) ==
    /\ At(p, "reclaim")
    /\ IF phase[RunOf(p)] = "BLOCKED" /\ desired[RunOf(p)] = "RUNNING" /\ ~claim[RunOf(p)]
       THEN /\ claim' = [claim EXCEPT ![RunOf(p)] = TRUE]
            /\ phase' = [phase EXCEPT ![RunOf(p)] = "WORKING"]
            /\ ciError' = [ciError EXCEPT ![RunOf(p)] = FALSE]
            /\ Goto(p, "relaunch")
       ELSE UNCHANGED <<claim, phase, ciError>> /\ Leave(p)
    /\ UNCHANGED <<desired, lease, agent, os>>

\* The recovery of a CI-blocked run takes its claim again in the same transaction.
Reclaim(p) ==
    /\ At(p, "reclaim")
    /\ IF phase[RunOf(p)] = "BLOCKED" /\ desired[RunOf(p)] = "RUNNING" /\ ~claim[RunOf(p)]
             /\ Claimable(RunOf(p))
       THEN /\ claim' = [claim EXCEPT ![RunOf(p)] = TRUE]
            /\ phase' = [phase EXCEPT ![RunOf(p)] = "WORKING"]
            /\ ciError' = [ciError EXCEPT ![RunOf(p)] = FALSE]
            /\ Goto(p, "relaunch")
       ELSE UNCHANGED <<claim, phase, ciError>> /\ Leave(p)
    /\ UNCHANGED <<desired, lease, agent, os>>

Abort(p) ==
    /\ at[p] # "free"
    /\ End(p, "free")
    /\ UNCHANGED <<row, os>>
-----------------------------------------------------------------------------
(* The launcher: agent_process.py.                                           *)

PassBarrier(a) ==
    /\ proc[a] = "barrier" /\ start[home[a]]
    /\ proc' = [proc EXCEPT ![a] = "running"]
    /\ UNCHANGED <<row, local, home, start>>

\* The barrier's time limit, the model's end, the deadline, or a crash.
LauncherEnds(a) ==
    /\ Up(a)
    /\ Kill(a)
    /\ UNCHANGED <<row, local, home, start>>

\* The watchdog has killed what the launcher left, and acknowledges it.
Contain(a) ==
    /\ proc[a] \in {"exited", "orphaned"}
    /\ proc' = [proc EXCEPT ![a] = "contained"]
    /\ UNCHANGED <<row, local, home, start>>
-----------------------------------------------------------------------------
ControllerStep(c) ==
    \/ AcquireProcessLease(c) \/ RunLoop(c) \/ CheckpointControl(c) \/ PollControl(c)
    \/ Advance(c) \/ Deliver(c) \/ Raise(c) \/ (\E a \in Launchers : Launch(c, a)) \/ SetActiveAgent(c)
    \/ WriteStart(c) \/ Interrupt(c) \/ Collect(c) \/ AgentFinished(c) \/ AfterPause(c)
    \/ Block(c) \/ MarkBlocked(c) \/ ReleaseProcessLease(c)

CommandStep(p) ==
    \/ ReadRun(p) \/ SetDesiredState(p) \/ StopOrphanProcess(p) \/ ConfirmContainment(p)
    \/ PrepareProcessLaunch(p) \/ ClearStaleProcessState(p) \/ ClearStaleProcessLease(p)
    \/ Relaunch(p) \/ AcceptMerge(p) \/ MarkMerged(p) \/ Reclaim(p)
    \/ \E c \in Controllers : SpawnBackground(p, c)

SharedStep(p) ==
    \/ StopRun(p) \/ CheckIdle(p) \/ ClearStaleActiveAgent(p) \/ ReleaseClaim(p)
    \/ MarkStopped(p)

LauncherStep(a) == PassBarrier(a) \/ LauncherEnds(a) \/ Contain(a)

Next ==
    \/ \E c \in Controllers : ControllerStep(c) \/ Expire(c) \/ Crash(c)
    \/ \E p \in Commands : CommandStep(p) \/ Abort(p)
    \/ \E p \in Processes : SharedStep(p)
    \/ \E p \in Commands, r \in Runs :
          Start(p, r) \/ \E goal \in Desired : Order(p, r, goal)
    \/ \E a \in Launchers : LauncherStep(a)

Spec == Init /\ [][Next]_vars

\* The controller is a loop that sleeps for seconds and never waits for anyone, and
\* the watchdog a process of its own; commands, models and time limits promise nothing.
FairSpec ==
    /\ Spec
    /\ \A c \in Controllers : WF_vars(ControllerStep(c) \/ SharedStep(c))
    /\ \A a \in Launchers : WF_vars(Contain(a))
-----------------------------------------------------------------------------
Writing == {"running", "orphaned"}

RowsOK ==
    /\ phase \in [Runs -> Phases \cup {None}] /\ desired \in [Runs -> Desired]
    /\ lease \in [Runs -> Controllers \cup {None}] /\ agent \in [Runs -> Launchers \cup {None}]
    /\ ciError \in [Runs -> BOOLEAN] /\ claim \in [Runs -> BOOLEAN]
    /\ start \in [Runs -> BOOLEAN] /\ home \in [Launchers -> Runs \cup {None}]
    /\ proc \in [Launchers -> {"unborn", "barrier", "running", "exited", "orphaned", "contained"}]
    /\ \A r \in Runs : phase[r] = None => ~claim[r] /\ lease[r] = None /\ agent[r] = None

JobsOK ==
    /\ at \in [Processes -> Places] /\ job \in [Processes -> Jobs \cup {None}]
    /\ \A p \in Processes : job[p] = None <=> at[p] \in Resting

\* The rows name what they should, nothing hangs on a run that was never created, and
\* a process has a job exactly while it works.
TypeOK == RowsOK /\ JobsOK

\* "A transactional process lease prevents concurrent controllers for one run"
\* (docs/orchestration.md): a controller at work is the one its run's row names,
\* whoever clears stale leases meanwhile.
ControllerHoldsLease ==
    \A c \in Controllers : Lives(c) /\ at[c] # "spawned" => lease[RunOf(c)] = c

\* Nothing a model started can write a worktree unless the run's row names its
\* launcher, so that stop, resume and the release of the claim know of it; hence
\* at most one model writes a worktree (_run_monitored, _agent_started, _agent_finished,
\* _clear_stale_process_state).
WriterIsRegistered ==
    \A a \in Launchers : proc[a] \in Writing => agent[home[a]] = a

\* A worktree that a model may write belongs to a run whose claim is active.
WriterHoldsClaim ==
    \A a \in Launchers : proc[a] \in Writing => claim[home[a]]

\* No more runs are claimed than --max-workers allows, and one of each task at most,
\* with recovered runs taking their claims back (create_run,
\* _reactivate_claim_in_transaction).
ClaimsAreLimited ==
    /\ Cardinality({r \in Runs : claim[r]}) <= MaxWorkers
    /\ \A r, s \in Runs : claim[r] /\ claim[s] /\ r # s => TaskOf[r] # TaskOf[s]

\* "Never make a claimed worktree available while its registered launcher is live"
\* (_release_claim_if_agent_idle): the step that releases a claim finds nothing writing
\* the worktree.  With two shells at work it may: what the row was looked at for need
\* not be so when the claim is released.
ClaimIsReleasedIdle ==
    [][\A r \in Runs : claim[r] /\ ~claim'[r] =>
          \A a \in Launchers : home[a] = r => proc[a] \notin Writing]_vars

\* A controller keeps that promise whatever commands do meanwhile: from its look at the
\* row to the release its lease keeps every launcher from being registered.
ControllersReleaseIdle ==
    \A c \in Controllers : At(c, "releasing") =>
        \A a \in Launchers : home[a] = RunOf(c) => proc[a] \notin Writing

\* A stopped run, which nothing resumes, keeps no claim: neither its issue nor one of the
\* --max-workers is held for ever, whichever commands, controllers and crashes come
\* between the release and the transition (_stop_run, set_control, resume_run).  Of a run
\* that an older release left blocked this need not hold: three commands at once can
\* have it stopped and reclaimed.
StoppedHoldsNoClaim ==
    \A r \in Runs \ UNION Legacies : phase[r] = "STOPPED" => ~claim[r]

\* The controller at work has a model running against a pause or a stop.
Defied(r) ==
    \E c \in Controllers, a \in Launchers :
        /\ lease[r] = c /\ Lives(c) /\ agent[r] = a
        /\ proc[a] = "running" /\ desired[r] # "RUNNING"

\* "Stop terminates the registered containment boundary": a pause or a stop ends the
\* model that runs, unless it is taken back or the controller dies first; the model
\* need not end by itself (_run_monitored).
ControlReachesTheModel == \A r \in Runs : []<>~Defied(r)
=============================================================================

-------------------------- MODULE RunControlProofs ---------------------------
(***************************************************************************)
(* Proofs about the run control of the orchestrator, for any number of     *)
(* runs, controllers, launchers and operators.                             *)
(***************************************************************************)
EXTENDS RunControl, FiniteSetTheorems, TLAPS

\* Where a process relies on the row that it read, and where on what it was to do next.
Informed == {"checkpoint", "work", "register", "attached", "polling", "ended", "set",
             "clearing", "cleanagent", "cleanlease"}
Outcomes == {"result", "paused", "stop", "block"}
Cleaning == {"cleanagent", "cleanlease"}

\* What a process carries fits the place where it is.
JobsFit ==
    \A p \in Processes :
        /\ at[p] \in Informed => Saw(p) \in Snapshots
        /\ at[p] = "ended" => job[p].then \in Outcomes
        /\ job[p] # None => phase[RunOf(p)] # None
        /\ p \in Controllers => at[p] # "free"
        /\ p \in Commands => at[p] \notin {"unborn", "dead"}
        /\ p \in Commands /\ job[p] # None => job[p].goal \in Desired

\* A lease names a controller that was started.
LeaseIsBorn == \A r \in Runs : lease[r] # None => at[lease[r]] # "unborn"

\* Whoever is about to clear a lease has read one whose controller is dead, for good.
CleanersSawDead ==
    \A p \in Processes :
        at[p] \in Cleaning => Saw(p).lease = None \/ at[Saw(p).lease] = "dead"

ControlInv == TypeOK /\ JobsFit /\ LeaseIsBorn /\ CleanersSawDead /\ ControllerHoldsLease

\* Process p takes a step and goes on working for the same run.
Moves(p) ==
    \E l \in Places \ (Resting \cup {"spawned"}), j \in Jobs :
        /\ at' = [at EXCEPT ![p] = l] /\ job' = [job EXCEPT ![p] = j]
        /\ j.run = RunOf(p) /\ j.goal = job[p].goal
        /\ l \in Informed => j.saw \in Snapshots
        /\ l = "ended" => j.then \in Outcomes
        /\ l \in Cleaning => j.saw.lease = None \/ at[j.saw.lease] = "dead"

\* Process p has done its job.
Rests(p) ==
    /\ at' = [at EXCEPT ![p] = IF p \in Controllers THEN "dead" ELSE "free"]
    /\ job' = [job EXCEPT ![p] = None]

\* A process that works has a job for a run that was created.
LEMMA Working ==
  ASSUME ControlInv, NEW p \in Processes, at[p] \notin Resting
  PROVE  job[p] \in Jobs /\ RunOf(p) \in Runs /\ phase[RunOf(p)] # None
  BY JobAssumption DEF ControlInv, TypeOK, JobsOK, JobsFit, Jobs, RunOf

\* The four ways of going on, where nothing that was read is relied upon.
LEMMA GotoMoves ==
  ASSUME ControlInv, NEW p \in Processes, at[p] \notin Resting,
         NEW l \in Places \ (Resting \cup Informed \cup {"spawned"}),
         \/ Goto(p, l) \/ Forget(p, l) \/ \E t \in Followups : Aim(p, l, t)
  PROVE  Moves(p)
<1>1. job[p] \in Jobs
  BY Working
<1>2. "ended" \in Informed /\ Cleaning \subseteq Informed
  BY DEF Informed, Cleaning
<1>3. CASE Goto(p, l)
  <2>1. job' = [job EXCEPT ![p] = job[p]]
    BY <1>3 DEF Goto, ControlInv, TypeOK, JobsOK
  <2> QED
    BY <1>1, <1>2, <1>3, <2>1 DEF Goto, Moves, RunOf
<1>4. CASE Forget(p, l)
  <2> DEFINE j == [job[p] EXCEPT !.saw = None]
  <2>1. j \in Jobs /\ j.run = RunOf(p) /\ j.goal = job[p].goal
    BY <1>1 DEF Jobs, RunOf
  <2>2. job' = [job EXCEPT ![p] = j]
    BY <1>4 DEF Forget
  <2> HIDE DEF j
  <2> QED
    BY <1>2, <1>4, <2>1, <2>2 DEF Forget, Moves
<1>5. ASSUME NEW t \in Followups, Aim(p, l, t)
      PROVE  Moves(p)
  <2> DEFINE j == [job[p] EXCEPT !.then = t]
  <2>1. j \in Jobs /\ j.run = RunOf(p) /\ j.goal = job[p].goal
    BY <1>1 DEF Jobs, RunOf
  <2>2. job' = [job EXCEPT ![p] = j]
    BY <1>5 DEF Aim
  <2> HIDE DEF j
  <2> QED
    BY <1>2, <1>5, <2>1, <2>2 DEF Aim, Moves
<1> QED
  BY <1>3, <1>4, <1>5

\* Reading the row informs a process.
LEMMA LookMoves ==
  ASSUME ControlInv, NEW p \in Processes, at[p] \notin Resting,
         NEW l \in Places \ (Resting \cup {"ended", "spawned"}), Look(p, l),
         LET c == lease[RunOf(p)] IN l \in Cleaning => c = None \/ at[c] = "dead"
  PROVE  Moves(p)
<1> DEFINE s == Row(RunOf(p))
           j == [job[p] EXCEPT !.saw = s]
<1>1. job[p] \in Jobs /\ RunOf(p) \in Runs
  BY Working
<1>2. s \in Snapshots /\ s.lease = lease[RunOf(p)]
  BY <1>1 DEF Row, Snapshots, ControlInv, TypeOK, RowsOK
<1>3. j \in Jobs /\ j.run = RunOf(p) /\ j.goal = job[p].goal /\ j.saw = s
  BY <1>1, <1>2 DEF Jobs, RunOf
<1>4. at' = [at EXCEPT ![p] = l] /\ job' = [job EXCEPT ![p] = j]
  BY DEF Look
<1> HIDE DEF j, s
<1> QED
  BY <1>2, <1>3, <1>4 DEF Moves

\* Going on with what was read, which is still there.
LEMMA InformedMoves ==
  ASSUME ControlInv, NEW p \in Processes, at[p] \in Informed,
         NEW l \in Informed \ ({"ended"} \cup Cleaning), Goto(p, l)
  PROVE  Moves(p)
<1>1. job[p] \in Jobs /\ job' = [job EXCEPT ![p] = job[p]]
  BY Working DEF Goto, ControlInv, TypeOK, JobsOK, Informed, Resting
<1>2. l \in Places \ (Resting \cup {"spawned"})
  BY DEF Informed, Places, Resting
<1> QED
  BY <1>1, <1>2 DEF Goto, Moves, ControlInv, JobsFit, RunOf, Saw

\* The end of a launch keeps what was read and says what comes next.
LEMMA EndedMoves ==
  ASSUME ControlInv, NEW p \in Processes, at[p] \in Informed,
         NEW t \in Outcomes, Aim(p, "ended", t)
  PROVE  Moves(p)
<1> DEFINE j == [job[p] EXCEPT !.then = t]
<1>1. job[p] \in Jobs /\ Saw(p) \in Snapshots
  BY Working DEF ControlInv, JobsFit, Informed, Resting
<1>2. j \in Jobs /\ j.run = RunOf(p) /\ j.goal = job[p].goal /\ j.saw \in Snapshots /\ j.then \in Outcomes
  BY <1>1 DEF Jobs, RunOf, Saw, Outcomes, Followups
<1>3. at' = [at EXCEPT ![p] = "ended"] /\ job' = [job EXCEPT ![p] = j]
  BY DEF Aim
<1>4. "ended" \in Places \ (Resting \cup {"spawned"}) /\ "ended" \notin Cleaning
  BY DEF Places, Resting, Cleaning
<1> HIDE DEF j
<1> QED
  BY <1>2, <1>3, <1>4 DEF Moves

\* Leaving: a controller goes on to give up its lease, a command is over.
LEMMA LeaveMoves ==
  ASSUME ControlInv, NEW p \in Processes, at[p] \notin Resting, Leave(p)
  PROVE  Moves(p) \/ Rests(p)
<1>1. CASE p \in Controllers
  <2>1. "release" \in Places \ (Resting \cup Informed \cup {"spawned"})
    BY DEF Places, Resting, Informed
  <2> QED
    BY <1>1, <2>1, GotoMoves DEF Leave
<1>2. CASE p \notin Controllers
  BY <1>2 DEF Leave, End, Rests
<1> QED
  BY <1>1, <1>2

\* The rows stay well-formed and no run disappears.
Continues == RowsOK' /\ \A r \in Runs : phase[r] # None => phase'[r] # None

\* A step of one process that leaves the lease alone.
LEMMA MoveKeeps ==
  ASSUME ControlInv, Continues, NEW p \in Processes, at[p] \notin Resting \cup {"spawned"},
         Moves(p), lease' = lease
  PROVE  ControlInv'
<1>1. PICK l \in Places \ (Resting \cup {"spawned"}), j \in Jobs :
          /\ at' = [at EXCEPT ![p] = l] /\ job' = [job EXCEPT ![p] = j]
          /\ j.run = RunOf(p) /\ j.goal = job[p].goal
          /\ l \in Informed => j.saw \in Snapshots
          /\ l = "ended" => j.then \in Outcomes
          /\ l \in Cleaning => j.saw.lease = None \/ at[j.saw.lease] = "dead"
  BY DEF Moves
<1>2. j # None /\ job[p] \in Jobs /\ RunOf(p) \in Runs /\ phase[RunOf(p)] # None
  BY JobAssumption, Working
<1>3. at[p] # "dead" /\ at[p] # "unborn" /\ l # "unborn" /\ l # "dead"
  BY <1>1 DEF Resting
<1>4. JobsOK'
  BY <1>1, <1>2 DEF ControlInv, TypeOK, JobsOK
<1>5. JobsFit'
  BY <1>1, <1>2 DEF ControlInv, TypeOK, JobsOK, JobsFit, RunOf, Saw, Continues, Jobs, Resting
<1>6. LeaseIsBorn'
  BY <1>1, <1>3 DEF ControlInv, TypeOK, JobsOK, LeaseIsBorn
<1>7. CleanersSawDead'
  <2> SUFFICES ASSUME NEW q \in Processes, at'[q] \in Cleaning
               PROVE  Saw(q)'.lease = None \/ at'[Saw(q)'.lease] = "dead"
    BY DEF CleanersSawDead
  <2>1. CASE q = p
    <3>1. at'[q] = l /\ Saw(q)' = j.saw
      BY <1>1, <2>1 DEF ControlInv, TypeOK, JobsOK, Saw
    <3>2. j.saw.lease = None \/ at[j.saw.lease] = "dead"
      BY <1>1, <3>1
    <3> QED
      BY <1>1, <1>3, <3>1, <3>2 DEF ControlInv, TypeOK, JobsOK
  <2>2. CASE q # p
    <3>1. at[q] \in Cleaning /\ Saw(q)' = Saw(q)
      BY <1>1, <2>2 DEF ControlInv, TypeOK, JobsOK, Saw
    <3> QED
      BY <1>1, <1>3, <3>1 DEF ControlInv, TypeOK, JobsOK, CleanersSawDead
  <2> QED
    BY <2>1, <2>2
<1>8. ControllerHoldsLease'
  BY <1>1, <1>2, <1>3 DEF ControlInv, TypeOK, JobsOK, ControllerHoldsLease, Lives, RunOf, Processes
<1> QED
  BY <1>4, <1>5, <1>6, <1>7, <1>8 DEF ControlInv, TypeOK, Continues

\* A process that ends frees whatever it had read.
LEMMA RestKeeps ==
  ASSUME ControlInv, Continues, NEW p \in Processes, at[p] \notin Resting,
         Rests(p), lease' = lease
  PROVE  ControlInv'
<1> DEFINE l == IF p \in Controllers THEN "dead" ELSE "free"
<1>1. at' = [at EXCEPT ![p] = l] /\ job' = [job EXCEPT ![p] = None] /\ l \in {"dead", "free"}
  BY DEF Rests
<1>2. at[p] # "dead" /\ at[p] # "unborn" /\ l \in Resting /\ l \in Places /\ l # "unborn"
      /\ l \notin Informed /\ l \notin Cleaning /\ (p \in Controllers => l = "dead") /\ (p \notin Controllers => l = "free")
  BY DEF Resting, Places, Informed, Cleaning
<1> HIDE DEF l
<1>3. JobsOK'
  BY <1>1, <1>2 DEF ControlInv, TypeOK, JobsOK
<1>4. JobsFit'
  BY <1>1, <1>2, IdentityAssumption DEF ControlInv, TypeOK, JobsOK, JobsFit, RunOf, Saw, Continues, Jobs, Informed, Resting
<1>5. LeaseIsBorn'
  BY <1>1, <1>2 DEF ControlInv, TypeOK, JobsOK, LeaseIsBorn
<1>6. CleanersSawDead'
  BY <1>1, <1>2 DEF ControlInv, TypeOK, JobsOK, CleanersSawDead, Saw
<1>7. ControllerHoldsLease'
  BY <1>1, <1>2 DEF ControlInv, TypeOK, JobsOK, ControllerHoldsLease, Lives, RunOf, Processes
<1> QED
  BY <1>3, <1>4, <1>5, <1>6, <1>7 DEF ControlInv, TypeOK, Continues

\* The steps of a controller, apart from those that take and release the lease.
LEMMA ControllerKeeps ==
  ASSUME ControlInv, NEW c \in Controllers,
         \/ RunLoop(c) \/ CheckpointControl(c) \/ PollControl(c) \/ Advance(c)
         \/ Deliver(c) \/ Raise(c) \/ (\E a \in Launchers : Launch(c, a))
         \/ SetActiveAgent(c) \/ WriteStart(c) \/ Interrupt(c) \/ Collect(c)
         \/ AgentFinished(c) \/ AfterPause(c) \/ Block(c) \/ MarkBlocked(c) \/ Expire(c)
  PROVE  ControlInv'
<1> c \in Processes
  BY DEF Processes
<1> USE DEF At, RunOf, row, os
<1>a. RowsOK /\ JobsOK
  BY DEF ControlInv, TypeOK
<1>n. None \notin Phases
  BY IdentityAssumption
<1>b. at[c] \notin Resting => RunOf(c) \in Runs /\ phase[RunOf(c)] # None /\ job[c] \in Jobs
  BY Working
<1>1. CASE RunLoop(c)
  <2>0. at[c] \notin Resting \cup {"spawned"} /\ lease' = lease
    BY <1>1 DEF RunLoop, Resting
  <2>1. Continues
    BY <1>a, <1>b, <1>n, <1>1, <2>0 DEF RunLoop, Continues, RowsOK
  <2>2. Moves(c)
    BY LookMoves, <1>1, <2>0 DEF RunLoop, Places, Resting, Cleaning
  <2> QED
    BY MoveKeeps, <2>0, <2>1, <2>2
<1>2. CASE CheckpointControl(c)
  <2>0. at[c] \notin Resting \cup {"spawned"} /\ lease' = lease
    BY <1>2 DEF CheckpointControl, Resting
  <2>1. Continues
    BY <1>a, <1>b, <1>n, <1>2, <2>0 DEF CheckpointControl, Continues, RowsOK
  <2>3. desired[RunOf(c)] \in Desired
    BY <1>a, <1>b, <2>0 DEF RowsOK
  <2>4. Goto(c, "block") \/ Goto(c, "work") \/ Goto(c, "release") \/ Goto(c, "stop")
    BY <1>2, <2>3 DEF CheckpointControl, Desired
  <2>5. at[c] \in Informed
    BY <1>2 DEF CheckpointControl, Informed
  <2>2. Moves(c)
    BY GotoMoves, InformedMoves, <2>0, <2>4, <2>5 DEF Places, Followups, Resting, Informed, Cleaning
  <2> QED
    BY MoveKeeps, <2>0, <2>1, <2>2
<1>3. CASE PollControl(c)
  <2>0. at[c] \notin Resting \cup {"spawned"} /\ lease' = lease
    BY <1>3 DEF PollControl, Resting
  <2>1. Continues
    BY <1>a, <1>b, <1>n, <1>3, <2>0 DEF PollControl, Continues, RowsOK
  <2>2. Moves(c)
    BY InformedMoves, <1>3 DEF PollControl, Informed, Cleaning
  <2> QED
    BY MoveKeeps, <2>0, <2>1, <2>2
<1>4. CASE Advance(c)
  <2>0. at[c] \notin Resting \cup {"spawned"} /\ lease' = lease
    BY <1>4 DEF Advance, Resting
  <2>1. Continues
    BY <1>a, <1>b, <1>n, <1>4, <2>0 DEF Advance, Continues, RowsOK, Phases
  <2>2. Moves(c)
    BY GotoMoves, <1>4, <2>0 DEF Advance, Places, Resting, Informed
  <2> QED
    BY MoveKeeps, <2>0, <2>1, <2>2
<1>5. CASE Deliver(c)
  <2>0. at[c] \notin Resting \cup {"spawned"} /\ lease' = lease
    BY <1>5 DEF Deliver, Resting
  <2>1. Continues
    BY <1>a, <1>b, <1>n, <1>5, <2>0 DEF Deliver, Continues, RowsOK, Phases
  <2>2. Moves(c)
    BY GotoMoves, <1>5, <2>0 DEF Deliver, Places, Resting, Informed, Followups
  <2> QED
    BY MoveKeeps, <2>0, <2>1, <2>2
<1>6. CASE Raise(c)
  <2>0. at[c] \notin Resting \cup {"spawned"} /\ lease' = lease
    BY <1>6 DEF Raise, Resting
  <2>1. Continues
    BY <1>a, <1>b, <1>n, <1>6, <2>0 DEF Raise, Continues, RowsOK
  <2>2. Moves(c)
    BY GotoMoves, <1>6, <2>0 DEF Raise, Places, Followups, Resting, Informed
  <2> QED
    BY MoveKeeps, <2>0, <2>1, <2>2
<1>7. CASE SetActiveAgent(c)
  <2>0. at[c] \notin Resting \cup {"spawned"} /\ lease' = lease
    BY <1>7 DEF SetActiveAgent, Resting
  <2>m. Mine(c) \in Launchers \cup {None}
    <3>1. Saw(c) \in Snapshots
      BY <1>7 DEF SetActiveAgent, ControlInv, JobsFit, Informed
    <3> QED
      BY <3>1 DEF Snapshots, Mine
  <2>1. Continues
    BY <2>m, <1>a, <1>b, <1>n, <1>7, <2>0 DEF SetActiveAgent, Continues, RowsOK, Kill, Ended
  <2>2. Moves(c)
    BY GotoMoves, InformedMoves, <1>7, <2>0 DEF SetActiveAgent, Places, Followups, Resting, Informed, Cleaning
  <2> QED
    BY MoveKeeps, <2>0, <2>1, <2>2
<1>8. CASE WriteStart(c)
  <2>0. at[c] \notin Resting \cup {"spawned"} /\ lease' = lease
    BY <1>8 DEF WriteStart, Resting
  <2>1. Continues
    BY <1>a, <1>b, <1>n, <1>8, <2>0 DEF WriteStart, Continues, RowsOK
  <2>2. Moves(c)
    BY InformedMoves, <1>8, <2>0 DEF WriteStart, Informed, Cleaning
  <2> QED
    BY MoveKeeps, <2>0, <2>1, <2>2
<1>9. CASE Interrupt(c)
  <2>0. at[c] \notin Resting \cup {"spawned"} /\ lease' = lease
    BY <1>9 DEF Interrupt, Resting
  <2>1. Continues
    BY <1>a, <1>b, <1>n, <1>9, <2>0 DEF Interrupt, Continues, RowsOK, Kill, Ended
  <2>2. Moves(c)
    BY EndedMoves, <1>9, <2>0 DEF Interrupt, Informed, Outcomes
  <2> QED
    BY MoveKeeps, <2>0, <2>1, <2>2
<1>10. CASE Collect(c)
  <2>0. at[c] \notin Resting \cup {"spawned"} /\ lease' = lease
    BY <1>10 DEF Collect, Resting
  <2>1. Continues
    BY <1>a, <1>b, <1>n, <1>10, <2>0 DEF Collect, Continues, RowsOK
  <2>2. Moves(c)
    BY EndedMoves, <1>10, <2>0 DEF Collect, Informed, Outcomes
  <2> QED
    BY MoveKeeps, <2>0, <2>1, <2>2
<1>11. CASE AgentFinished(c)
  <2>0. at[c] \notin Resting \cup {"spawned"} /\ lease' = lease
    BY <1>11 DEF AgentFinished, Resting
  <2>1. Continues
    BY <1>a, <1>b, <1>n, <1>11, <2>0 DEF AgentFinished, Continues, RowsOK
  <2>3. job[c].then \in Outcomes
    BY <1>11 DEF AgentFinished, ControlInv, JobsFit
  <2>4. \E l \in Outcomes : Goto(c, l)
    BY <1>11, <2>3 DEF AgentFinished, Outcomes
  <2>2. Moves(c)
    BY GotoMoves, <2>0, <2>4 DEF Places, Resting, Informed, Outcomes, Followups
  <2> QED
    BY MoveKeeps, <2>0, <2>1, <2>2
<1>12. CASE AfterPause(c)
  <2>0. at[c] \notin Resting \cup {"spawned"} /\ lease' = lease
    BY <1>12 DEF AfterPause, Resting
  <2>1. Continues
    BY <1>a, <1>b, <1>n, <1>12, <2>0 DEF AfterPause, Continues, RowsOK
  <2>3. desired[RunOf(c)] \in Desired
    BY <1>a, <1>b, <2>0 DEF RowsOK
  <2>4. Goto(c, "loop") \/ Goto(c, "release") \/ Goto(c, "stop")
    BY <1>12, <2>3 DEF AfterPause, Desired
  <2>2. Moves(c)
    BY GotoMoves, <2>0, <2>4 DEF Places, Resting, Informed, Followups
  <2> QED
    BY MoveKeeps, <2>0, <2>1, <2>2
<1>13. CASE Block(c)
  <2>0. at[c] \notin Resting \cup {"spawned"} /\ lease' = lease
    BY <1>13 DEF Block, Resting
  <2>1. Continues
    BY <1>a, <1>b, <1>n, <1>13, <2>0 DEF Block, Continues, RowsOK
  <2>2. Moves(c)
    BY GotoMoves, <1>13, <2>0 DEF Block, Places, Resting, Informed, Followups
  <2> QED
    BY MoveKeeps, <2>0, <2>1, <2>2
<1>14. CASE MarkBlocked(c)
  <2>0. at[c] \notin Resting \cup {"spawned"} /\ lease' = lease
    BY <1>14 DEF MarkBlocked, Resting
  <2>1. Continues
    BY <1>a, <1>b, <1>n, <1>14, <2>0 DEF MarkBlocked, Continues, RowsOK, Phases
  <2>2. Moves(c)
    BY GotoMoves, <1>14, <2>0 DEF MarkBlocked, Places, Resting, Informed, Followups
  <2> QED
    BY MoveKeeps, <2>0, <2>1, <2>2
<1>15. CASE Expire(c)
  <2>0. at[c] \notin Resting \cup {"spawned"} /\ lease' = lease
    BY <1>15 DEF Expire, Resting
  <2>1. Continues
    BY <1>a, <1>b, <1>n, <1>15, <2>0 DEF Expire, Continues, RowsOK, Kill, Ended
  <2>2. Moves(c)
    BY EndedMoves, <1>15, <2>0 DEF Expire, Informed, Outcomes
  <2> QED
    BY MoveKeeps, <2>0, <2>1, <2>2
<1>16. ASSUME NEW a \in Launchers, Launch(c, a)
      PROVE  ControlInv'
  <2> DEFINE j == [job[c] EXCEPT !.saw.agent = a]
  <2>0. at[c] \notin Resting \cup {"spawned"} /\ lease' = lease
    BY <1>16 DEF Launch, Resting
  <2>1. Continues
    BY <1>a, <1>b, <1>n, <1>16, <2>0 DEF Launch, Continues, RowsOK, Phases
  <2>3. job[c] \in Jobs /\ Saw(c) \in Snapshots
    BY <1>b, <1>16, <2>0 DEF Launch, ControlInv, JobsFit, Informed
  <2>4. j = [job[c] EXCEPT !.saw = [Saw(c) EXCEPT !.agent = a]]
    BY <2>3 DEF Jobs, Saw
  <2>5. [Saw(c) EXCEPT !.agent = a] \in Snapshots
    BY <2>3 DEF Snapshots
  <2>6. j \in Jobs /\ j.run = RunOf(c) /\ j.goal = job[c].goal /\ j.saw \in Snapshots
    BY <2>3, <2>4, <2>5 DEF Jobs
  <2>7. at' = [at EXCEPT ![c] = "register"] /\ job' = [job EXCEPT ![c] = j]
    BY <1>16, <2>3 DEF Launch
  <2> HIDE DEF j
  <2>8. "register" \in Places \ (Resting \cup {"spawned"}) /\ "register" \notin Cleaning
    BY DEF Places, Resting, Cleaning
  <2>2. Moves(c)
    BY <2>6, <2>7, <2>8 DEF Moves
  <2> QED
    BY MoveKeeps, <2>0, <2>1, <2>2
<1> QED
  BY <1>1, <1>2, <1>3, <1>4, <1>5, <1>6, <1>7, <1>8, <1>9, <1>10, <1>11, <1>12, <1>13, <1>14, <1>15, <1>16

\* Taking the lease: it was free, so no controller at work held it.
LEMMA AcquireKeeps ==
  ASSUME ControlInv, NEW c \in Controllers, AcquireProcessLease(c)
  PROVE  ControlInv'
<1> DEFINE r == RunOf(c)
<1>1. c \in Processes /\ at[c] = "spawned" /\ job[c] \in Jobs /\ r \in Runs /\ phase[r] # None
  BY Working DEF AcquireProcessLease, At, Processes, Resting
<1>2. CASE lease[r] = None
  <2>1. /\ lease' = [lease EXCEPT ![r] = c] /\ at' = [at EXCEPT ![c] = "loop"] /\ job' = job
        /\ UNCHANGED <<phase, desired, agent, ciError, claim, os>>
    BY <1>2 DEF AcquireProcessLease, Goto
  <2>2. RowsOK'
    BY <1>1, <2>1 DEF ControlInv, TypeOK, RowsOK, os
  <2>3. JobsOK'
    BY <1>1, <2>1 DEF ControlInv, TypeOK, JobsOK, Places, Resting
  <2>4. JobsFit'
    BY <1>1, <2>1 DEF ControlInv, TypeOK, JobsOK, JobsFit, RunOf, Saw, Informed
  <2>5. LeaseIsBorn'
    BY <1>1, <2>1 DEF ControlInv, TypeOK, RowsOK, JobsOK, LeaseIsBorn, Processes
  <2>6. CleanersSawDead'
    BY <1>1, <2>1 DEF ControlInv, TypeOK, JobsOK, CleanersSawDead, Saw, Cleaning
  <2>7. \A d \in Controllers : d # c /\ Lives(d) /\ at[d] # "spawned" => RunOf(d) # r
    BY <1>2, IdentityAssumption DEF ControlInv, ControllerHoldsLease
  <2>8. ControllerHoldsLease'
    <3> SUFFICES ASSUME NEW d \in Controllers, Lives(d)', at'[d] # "spawned"
                 PROVE  lease'[RunOf(d)'] = d
      BY DEF ControllerHoldsLease
    <3>1. CASE d = c
      BY <1>1, <2>1, <3>1 DEF RunOf, ControlInv, TypeOK, RowsOK
    <3>2. CASE d # c
      <4>1. at'[d] = at[d] /\ Lives(d) /\ RunOf(d)' = RunOf(d)
        BY <2>1, <3>2 DEF ControlInv, TypeOK, JobsOK, Processes, Lives, RunOf
      <4> QED
        BY <2>1, <2>7, <3>2, <4>1 DEF ControlInv, ControllerHoldsLease, TypeOK, RowsOK
    <3> QED
      BY <3>1, <3>2
  <2> QED
    BY <2>2, <2>3, <2>4, <2>5, <2>6, <2>8 DEF ControlInv, TypeOK
<1>3. CASE lease[r] # None
  <2>1. Rests(c) /\ Continues /\ lease' = lease /\ at[c] \notin Resting
    BY <1>1, <1>3 DEF AcquireProcessLease, End, Rests, Continues, ControlInv, TypeOK, RowsOK, os, Resting
  <2> QED
    BY <1>1, <2>1, RestKeeps
<1> QED
  BY <1>2, <1>3

\* Nobody but the holder of a lease loses it when a lease is cleared whose holder is
\* dead or ends in the same step.
LEMMA ClearedLease ==
  ASSUME ControlInv, NEW r \in Runs, lease' = [lease EXCEPT ![r] = None],
         JobsOK', JobsFit', CleanersSawDead', Continues,
         \A q \in Processes : at'[q] = "unborn" => at[q] = "unborn",
         \A c \in Controllers : Lives(c)' /\ at'[c] # "spawned" =>
            Lives(c) /\ at[c] # "spawned" /\ RunOf(c)' = RunOf(c) /\ RunOf(c) \in Runs /\ lease[r] # c
  PROVE  ControlInv'
<1>1. LeaseIsBorn'
  BY DEF ControlInv, LeaseIsBorn, TypeOK, RowsOK, Processes
<1>2. ControllerHoldsLease'
  BY DEF ControlInv, ControllerHoldsLease, TypeOK, RowsOK
<1> QED
  BY <1>1, <1>2 DEF ControlInv, TypeOK, Continues

\* A controller gives up its own lease as it ends.
LEMMA ReleaseKeeps ==
  ASSUME ControlInv, NEW c \in Controllers, ReleaseProcessLease(c)
  PROVE  ControlInv'
<1> DEFINE r == RunOf(c)
<1>1. c \in Processes /\ at[c] = "release" /\ job[c] \in Jobs /\ r \in Runs
  BY Working DEF ReleaseProcessLease, At, Processes, Resting
<1>2. Rests(c) /\ Continues /\ at[c] \notin Resting
  BY <1>1, IdentityAssumption DEF ReleaseProcessLease, End, Rests, Continues, ControlInv, TypeOK, RowsOK, os, Resting
<1>3. CASE lease' = lease
  BY <1>1, <1>2, <1>3, RestKeeps
<1>4. CASE lease' # lease
  <2>1. lease[r] = c /\ lease' = [lease EXCEPT ![r] = None]
    BY <1>4 DEF ReleaseProcessLease
  <2>2. at' = [at EXCEPT ![c] = "dead"] /\ job' = [job EXCEPT ![c] = None]
    BY <1>2 DEF Rests
  <2>3. JobsOK'
    BY <1>1, <2>2 DEF ControlInv, TypeOK, JobsOK, Places, Resting
  <2>4. JobsFit'
    BY <1>1, <1>2, <2>2, IdentityAssumption DEF ControlInv, TypeOK, JobsOK, JobsFit, RunOf, Saw, Continues, Jobs, Informed, Resting
  <2>5. CleanersSawDead'
    BY <1>1, <2>2 DEF ControlInv, TypeOK, JobsOK, CleanersSawDead, Saw, Cleaning
  <2>6. \A q \in Processes : at'[q] = "unborn" => at[q] = "unborn"
    BY <2>2 DEF ControlInv, TypeOK, JobsOK
  <2>7. \A d \in Controllers : Lives(d)' /\ at'[d] # "spawned" =>
            Lives(d) /\ at[d] # "spawned" /\ RunOf(d)' = RunOf(d) /\ RunOf(d) \in Runs /\ lease[r] # d
    <3> SUFFICES ASSUME NEW d \in Controllers, Lives(d)', at'[d] # "spawned"
                 PROVE  Lives(d) /\ at[d] # "spawned" /\ RunOf(d)' = RunOf(d) /\ RunOf(d) \in Runs /\ lease[r] # d
      OBVIOUS
    <3>1. d # c /\ d \in Processes
      BY <1>1, <2>2 DEF Lives, Processes, ControlInv, TypeOK, JobsOK
    <3>2. at'[d] = at[d] /\ job'[d] = job[d]
      BY <2>2, <3>1 DEF ControlInv, TypeOK, JobsOK
    <3>3. at[d] \notin Resting
      BY <3>1, <3>2 DEF Lives, Resting, ControlInv, JobsFit
    <3> QED
      BY <2>1, <3>1, <3>2, <3>3, Working DEF Lives, RunOf
  <2> QED
    BY <1>1, <1>2, <2>1, <2>3, <2>4, <2>5, <2>6, <2>7, ClearedLease
<1> QED
  BY <1>3, <1>4

\* Clearing a stale lease: only what was read, and its controller was dead by then.
LEMMA ClearKeeps ==
  ASSUME ControlInv, NEW p \in Commands, ClearStaleProcessLease(p)
  PROVE  ControlInv'
<1> DEFINE r == RunOf(p)
<1> USE DEF os, row
<1>1. p \in Processes /\ p \notin Controllers /\ at[p] = "cleanlease" /\ job[p] \in Jobs
      /\ r \in Runs /\ Saw(p) \in Snapshots
  BY Working, IdentityAssumption
     DEF ClearStaleProcessLease, At, Processes, Resting, ControlInv, JobsFit, Informed
<1>2. at[p] \notin Resting \cup {"spawned"}
  BY <1>1 DEF Resting
<1>3. Saw(p).lease = None \/ at[Saw(p).lease] = "dead"
  BY <1>1 DEF ControlInv, CleanersSawDead, Cleaning
<1>4. Continues
  BY <1>1 DEF ClearStaleProcessLease, Continues, ControlInv, TypeOK, RowsOK
<1>5. Moves(p) \/ Rests(p)
  <2>1. CASE Leave(p)
    BY <1>1, <1>2, <2>1, LeaveMoves
  <2>2. CASE AfterTidy(p)
    <3>1. Forget(p, "spawn") \/ Forget(p, "stop") \/ End(p, "free")
      BY <2>2 DEF AfterTidy
    <3>2. CASE End(p, "free")
      BY <1>1, <3>2 DEF End, Rests
    <3> QED
      BY <1>1, <1>2, <3>1, <3>2, GotoMoves DEF Places, Followups, Resting, Informed
  <2> QED
    BY <2>1, <2>2 DEF ClearStaleProcessLease
<1>6. CASE lease' = lease
  BY <1>1, <1>2, <1>4, <1>5, <1>6, MoveKeeps, RestKeeps
<1>7. CASE lease' # lease
  <2>1. lease' = [lease EXCEPT ![r] = None] /\ lease[r] = Saw(p).lease /\ AfterTidy(p)
    BY <1>7 DEF ClearStaleProcessLease
  <2>2. at[lease[r]] = "dead"
    <3>1. lease[r] # None
      BY <1>1, <1>7, <2>1 DEF ControlInv, TypeOK, RowsOK
    <3> QED
      BY <1>3, <2>1, <3>1
  <2>3. \E l \in {"spawn", "stop", "free"} : at' = [at EXCEPT ![p] = l]
    BY <2>1 DEF AfterTidy, Forget, End
  <2>4. \A q \in Processes : q # p => at'[q] = at[q] /\ job'[q] = job[q]
    BY <1>1, <1>5, <2>3 DEF Moves, Rests, ControlInv, TypeOK, JobsOK
  <2>5. at'[p] \in Places /\ at'[p] \notin Informed /\ at'[p] \notin {"unborn", "dead"}
    BY <1>1, <2>3 DEF ControlInv, TypeOK, JobsOK, Places, Resting, Followups, Informed
  <2>6. JobsOK'
    <3>1. CASE Moves(p)
      BY <1>1, <3>1, JobAssumption DEF Moves, ControlInv, TypeOK, JobsOK
    <3>2. CASE Rests(p)
      BY <1>1, <3>2 DEF Rests, ControlInv, TypeOK, JobsOK, Places, Resting
    <3> QED
      BY <1>5, <3>1, <3>2
  <2>7. job'[p] # None => RunOf(p)' = r /\ phase[r] # None /\ job'[p].goal \in Desired
    <3>1. CASE Moves(p)
      BY <1>1, <1>2, <3>1, Working DEF Moves, ControlInv, TypeOK, JobsOK, JobsFit, RunOf
    <3>2. CASE Rests(p)
      BY <1>1, <3>2 DEF Rests, ControlInv, TypeOK, JobsOK
    <3> QED
      BY <1>5, <3>1, <3>2
  <2>8. JobsFit'
    <3> SUFFICES ASSUME NEW q \in Processes
                 PROVE  /\ at'[q] \in Informed => Saw(q)' \in Snapshots
                        /\ at'[q] = "ended" => job'[q].then \in Outcomes
                        /\ job'[q] # None => phase'[RunOf(q)'] # None
                        /\ q \in Controllers => at'[q] # "free"
                        /\ q \in Commands => at'[q] \notin {"unborn", "dead"}
                        /\ q \in Commands /\ job'[q] # None => job'[q].goal \in Desired
      BY DEF JobsFit
    <3>1. CASE q = p
      BY <1>1, <1>4, <2>5, <2>7, <3>1 DEF Informed, Continues
    <3>2. CASE q # p
      <4>1. at'[q] = at[q] /\ Saw(q)' = Saw(q) /\ job'[q] = job[q] /\ RunOf(q)' = RunOf(q)
        BY <2>4, <3>2 DEF Saw, RunOf
      <4>2. job[q] # None => RunOf(q) \in Runs
        BY DEF ControlInv, TypeOK, JobsOK, Jobs, RunOf
      <4> QED
        BY <1>4, <4>1, <4>2 DEF ControlInv, JobsFit, Continues
    <3> QED
      BY <3>1, <3>2
  <2>9. CleanersSawDead'
    <3> SUFFICES ASSUME NEW q \in Processes, at'[q] \in Cleaning
                 PROVE  Saw(q)'.lease = None \/ at'[Saw(q)'.lease] = "dead"
      BY DEF CleanersSawDead
    <3>1. q # p /\ at[q] \in Cleaning /\ Saw(q)' = Saw(q)
      BY <2>4, <2>5 DEF Saw, Cleaning, Informed
    <3>2. Saw(q).lease = None \/ at[Saw(q).lease] = "dead"
      BY <3>1 DEF ControlInv, CleanersSawDead
    <3> QED
      BY <1>1, <2>3, <3>1, <3>2 DEF ControlInv, TypeOK, JobsOK
  <2>10. \A d \in Controllers : Lives(d)' /\ at'[d] # "spawned" =>
            Lives(d) /\ at[d] # "spawned" /\ RunOf(d)' = RunOf(d) /\ RunOf(d) \in Runs /\ lease[r] # d
    <3> SUFFICES ASSUME NEW d \in Controllers, Lives(d)', at'[d] # "spawned"
                 PROVE  Lives(d) /\ at[d] # "spawned" /\ RunOf(d)' = RunOf(d) /\ RunOf(d) \in Runs /\ lease[r] # d
      OBVIOUS
    <3>1. d # p /\ d \in Processes
      BY <1>1 DEF Processes
    <3>2. at'[d] = at[d] /\ job'[d] = job[d]
      BY <2>4, <3>1
    <3>3. at[d] \notin Resting
      BY <3>1, <3>2 DEF Lives, Resting, ControlInv, JobsFit
    <3>4. RunOf(d) \in Runs /\ RunOf(d)' = RunOf(d)
      BY <3>1, <3>2, <3>3, Working DEF RunOf
    <3> QED
      BY <2>2, <3>2, <3>3, <3>4 DEF Lives, Resting
  <2>11. \A q \in Processes : at'[q] = "unborn" => at[q] = "unborn"
    BY <2>4, <2>5
  <2> QED
    BY <1>1, <1>4, <2>1, <2>6, <2>8, <2>9, <2>10, <2>11, ClearedLease
<1> QED
  BY <1>6, <1>7

\* The procedures that controllers and commands share.
LEMMA SharedKeeps ==
  ASSUME ControlInv, NEW p \in Processes, SharedStep(p)
  PROVE  ControlInv'
<1> USE DEF At, os, row
<1>a. RowsOK /\ JobsOK
  BY DEF ControlInv, TypeOK
<1>b. at[p] \notin Resting => RunOf(p) \in Runs /\ phase[RunOf(p)] # None /\ job[p] \in Jobs
  BY Working
<1>n. None \notin Phases
  BY IdentityAssumption
<1>1. CASE StopRun(p)
  <2>0. at[p] \notin Resting \cup {"spawned"} /\ lease' = lease
    BY <1>1 DEF StopRun, Resting
  <2>1. Continues
    BY <1>a, <1>b, <1>n, <1>1, <2>0 DEF StopRun, Continues, RowsOK
  <2>2. Moves(p) \/ Rests(p)
    BY GotoMoves, LeaveMoves, <1>1, <2>0 DEF StopRun, Places, Followups, Resting, Informed
  <2> QED
    BY MoveKeeps, RestKeeps, <2>0, <2>1, <2>2
<1>2. CASE CheckIdle(p)
  <2>0. at[p] \notin Resting \cup {"spawned"} /\ lease' = lease
    BY <1>2 DEF CheckIdle, Resting
  <2>1. Continues
    BY <1>a, <1>b, <1>n, <1>2, <2>0 DEF CheckIdle, Continues, RowsOK
  <2>3. Goto(p, "releasing") \/ Look(p, "clearing") \/ Goto(p, "block") \/ Goto(p, "tidy") \/ Leave(p)
    BY <1>2 DEF CheckIdle
  <2>2. Moves(p) \/ Rests(p)
    BY GotoMoves, LeaveMoves, LookMoves, <2>0, <2>3 DEF Places, Followups, Resting, Informed, Cleaning
  <2> QED
    BY MoveKeeps, RestKeeps, <2>0, <2>1, <2>2
<1>3. CASE ClearStaleActiveAgent(p)
  <2>0. at[p] \notin Resting \cup {"spawned"} /\ lease' = lease
    BY <1>3 DEF ClearStaleActiveAgent, Resting
  <2>1. Continues
    BY <1>a, <1>b, <1>n, <1>3, <2>0 DEF ClearStaleActiveAgent, Continues, RowsOK
  <2>3. \/ Forget(p, "releasing") \/ Goto(p, "block") \/ Leave(p)
        \/ at[p] = "cleanagent" /\ Goto(p, "cleanlease")
    BY <1>3 DEF ClearStaleActiveAgent
  <2>4. ASSUME at[p] = "cleanagent", Goto(p, "cleanlease")
        PROVE  Moves(p)
    <3>1. job[p] \in Jobs /\ job' = [job EXCEPT ![p] = job[p]] /\ at' = [at EXCEPT ![p] = "cleanlease"]
      BY <1>a, <1>b, <2>0, <2>4 DEF Goto, JobsOK
    <3>2. job[p].saw \in Snapshots /\ (job[p].saw.lease = None \/ at[job[p].saw.lease] = "dead")
      BY <2>4 DEF ControlInv, JobsFit, CleanersSawDead, Informed, Cleaning, Saw
    <3>3. "cleanlease" \in Places \ (Resting \cup {"spawned"}) /\ "cleanlease" # "ended"
      BY DEF Places, Resting
    <3>4. job[p].run = RunOf(p)
      BY DEF RunOf
    <3> DEFINE j == job[p]  l == "cleanlease"
    <3> HIDE DEF j, l
    <3>5. /\ l \in Places \ (Resting \cup {"spawned"}) /\ j \in Jobs
          /\ at' = [at EXCEPT ![p] = l] /\ job' = [job EXCEPT ![p] = j]
          /\ j.run = RunOf(p) /\ j.goal = job[p].goal
          /\ j.saw \in Snapshots /\ l # "ended"
          /\ j.saw.lease = None \/ at[j.saw.lease] = "dead"
      BY <3>1, <3>2, <3>3, <3>4 DEF j, l
    <3> QED
      BY <3>5 DEF Moves
  <2>2. Moves(p) \/ Rests(p)
    BY GotoMoves, LeaveMoves, <2>0, <2>3, <2>4 DEF Places, Followups, Resting, Informed
  <2> QED
    BY MoveKeeps, RestKeeps, <2>0, <2>1, <2>2
<1>4. CASE ReleaseClaim(p)
  <2>0. at[p] \notin Resting \cup {"spawned"} /\ lease' = lease
    BY <1>4 DEF ReleaseClaim, Resting
  <2>1. Continues
    BY <1>a, <1>b, <1>n, <1>4, <2>0 DEF ReleaseClaim, Continues, RowsOK
  <2>3. Goto(p, "stopped") \/ Goto(p, "tidy") \/ Leave(p)
    BY <1>4 DEF ReleaseClaim
  <2>2. Moves(p) \/ Rests(p)
    BY GotoMoves, LeaveMoves, <2>0, <2>3 DEF Places, Followups, Resting, Informed
  <2> QED
    BY MoveKeeps, RestKeeps, <2>0, <2>1, <2>2
<1>5. CASE MarkStopped(p)
  <2>0. at[p] \notin Resting \cup {"spawned"} /\ lease' = lease
    BY <1>5 DEF MarkStopped, Resting
  <2>1. Continues
    BY <1>a, <1>b, <1>n, <1>5, <2>0 DEF MarkStopped, Continues, RowsOK, Phases
  <2>2. Moves(p) \/ Rests(p)
    BY LeaveMoves, <1>5, <2>0 DEF MarkStopped
  <2> QED
    BY MoveKeeps, RestKeeps, <2>0, <2>1, <2>2
<1> QED
  BY <1>1, <1>2, <1>3, <1>4, <1>5 DEF SharedStep

\* The steps of a command that works.
LEMMA CommandKeeps ==
  ASSUME ControlInv, NEW p \in Commands,
         \/ ReadRun(p) \/ SetDesiredState(p) \/ StopOrphanProcess(p) \/ ConfirmContainment(p)
         \/ PrepareProcessLaunch(p) \/ ClearStaleProcessState(p)
         \/ Relaunch(p) \/ AcceptMerge(p) \/ MarkMerged(p) \/ Reclaim(p)
  PROVE  ControlInv'
<1> p \in Processes
  BY DEF Processes
<1> USE DEF At, os, row
<1>a. RowsOK /\ JobsOK
  BY DEF ControlInv, TypeOK
<1>b. at[p] \notin Resting => RunOf(p) \in Runs /\ phase[RunOf(p)] # None /\ job[p] \in Jobs
  BY Working
<1>n. None \notin Phases
  BY IdentityAssumption
<1>1. CASE ReadRun(p)
  <2>0. at[p] \notin Resting \cup {"spawned"} /\ lease' = lease
    BY <1>1 DEF ReadRun, Resting
  <2>1. Continues
    BY <1>a, <1>b, <1>n, <1>1, <2>0 DEF ReadRun, Continues, RowsOK
  <2>3. Leave(p) \/ Look(p, "set") \/ Goto(p, "merge") \/ Goto(p, "reclaim")
    BY <1>1 DEF ReadRun, Route
  <2>2. Moves(p) \/ Rests(p)
    BY GotoMoves, LeaveMoves, LookMoves, <2>0, <2>3 DEF Places, Followups, Resting, Informed, Cleaning
  <2> QED
    BY MoveKeeps, RestKeeps, <2>0, <2>1, <2>2
<1>2. CASE SetDesiredState(p)
  <2>0. at[p] \notin Resting \cup {"spawned"} /\ lease' = lease
    BY <1>2 DEF SetDesiredState, Resting
  <2>1. Continues
    BY <1>a, <1>b, <1>n, <1>2, <2>0 DEF SetDesiredState, Continues, RowsOK, ControlInv, JobsFit
  <2>3. \/ Forget(p, "relaunch") \/ Forget(p, "stop") \/ Aim(p, "orphan", "tidy")
        \/ Leave(p) \/ Forget(p, "orphan")
    BY <1>2 DEF SetDesiredState
  <2>2. Moves(p) \/ Rests(p)
    BY GotoMoves, LeaveMoves, <2>0, <2>3 DEF Places, Followups, Resting, Informed
  <2> QED
    BY MoveKeeps, RestKeeps, <2>0, <2>1, <2>2
<1>3. CASE StopOrphanProcess(p)
  <2>0. at[p] \notin Resting \cup {"spawned"} /\ lease' = lease
    BY <1>3 DEF StopOrphanProcess, Resting
  <2>1. Continues
    BY <1>a, <1>b, <1>n, <1>3, <2>0 DEF StopOrphanProcess, Continues, RowsOK, Kill, Ended
  <2>3. Goto(p, "confirm") \/ Goto(p, "idle") \/ Goto(p, "tidy") \/ Goto(p, "prepare")
    BY <1>3 DEF StopOrphanProcess, AfterOrphan
  <2>2. Moves(p) \/ Rests(p)
    BY GotoMoves, <2>0, <2>3 DEF Places, Followups, Resting, Informed
  <2> QED
    BY MoveKeeps, RestKeeps, <2>0, <2>1, <2>2
<1>4. CASE ConfirmContainment(p)
  <2>0. at[p] \notin Resting \cup {"spawned"} /\ lease' = lease
    BY <1>4 DEF ConfirmContainment, Resting
  <2>1. Continues
    BY <1>a, <1>b, <1>n, <1>4, <2>0 DEF ConfirmContainment, Continues, RowsOK
  <2>3. Leave(p) \/ Goto(p, "idle") \/ Goto(p, "tidy") \/ Goto(p, "prepare")
    BY <1>4 DEF ConfirmContainment, AfterOrphan
  <2>2. Moves(p) \/ Rests(p)
    BY GotoMoves, LeaveMoves, <2>0, <2>3 DEF Places, Followups, Resting, Informed
  <2> QED
    BY MoveKeeps, RestKeeps, <2>0, <2>1, <2>2
<1>5. CASE PrepareProcessLaunch(p)
  <2>0. at[p] \notin Resting \cup {"spawned"} /\ lease' = lease
    BY <1>5 DEF PrepareProcessLaunch, Resting
  <2>1. Continues
    BY <1>a, <1>b, <1>n, <1>5, <2>0 DEF PrepareProcessLaunch, Continues, RowsOK
  <2>2. Moves(p) \/ Rests(p)
    BY GotoMoves, LeaveMoves, <1>5, <2>0 DEF PrepareProcessLaunch, Places, Followups, Resting, Informed
  <2> QED
    BY MoveKeeps, RestKeeps, <2>0, <2>1, <2>2
<1>6. CASE ClearStaleProcessState(p)
  <2>0. at[p] \notin Resting \cup {"spawned"} /\ lease' = lease
    BY <1>6 DEF ClearStaleProcessState, Resting
  <2>1. Continues
    BY <1>a, <1>b, <1>n, <1>6, <2>0 DEF ClearStaleProcessState, Continues, RowsOK
  <2> DEFINE c == lease[RunOf(p)]
  <2>3. \/ Leave(p) \/ AfterTidy(p)
        \/ /\ Look(p, "cleanagent") \/ Look(p, "cleanlease")
           /\ c # None => ~Lives(c)
    BY <1>6 DEF ClearStaleProcessState
  <2>4. c = None \/ Lives(c) \/ at[c] = "dead"
    BY <1>a, <1>b, <2>0 DEF ControlInv, LeaseIsBorn, Lives
  <2>5. AfterTidy(p) => Forget(p, "spawn") \/ Forget(p, "stop") \/ End(p, "free")
    BY DEF AfterTidy
  <2>6. End(p, "free") => Rests(p)
    BY IdentityAssumption DEF End, Rests
  <2> HIDE DEF c
  <2>7. ASSUME NEW l \in Cleaning, Look(p, l), c = None \/ at[c] = "dead"
        PROVE  Moves(p)
    BY LookMoves, <2>0, <2>7 DEF Places, Followups, Resting, Cleaning, c
  <2>2. Moves(p) \/ Rests(p)
    BY GotoMoves, LeaveMoves, <2>0, <2>3, <2>4, <2>5, <2>6, <2>7
       DEF Places, Followups, Resting, Informed, Cleaning
  <2> QED
    BY MoveKeeps, RestKeeps, <2>0, <2>1, <2>2
<1>7. CASE Relaunch(p)
  <2>0. at[p] \notin Resting \cup {"spawned"} /\ lease' = lease
    BY <1>7 DEF Relaunch, Resting
  <2>1. Continues
    BY <1>a, <1>b, <1>n, <1>7, <2>0 DEF Relaunch, Continues, RowsOK
  <2>2. Moves(p) \/ Rests(p)
    BY GotoMoves, LeaveMoves, <1>7, <2>0 DEF Relaunch, Places, Followups, Resting, Informed
  <2> QED
    BY MoveKeeps, RestKeeps, <2>0, <2>1, <2>2
<1>8. CASE AcceptMerge(p)
  <2>0. at[p] \notin Resting \cup {"spawned"} /\ lease' = lease
    BY <1>8 DEF AcceptMerge, Resting
  <2>1. Continues
    BY <1>a, <1>b, <1>n, <1>8, <2>0 DEF AcceptMerge, Continues, RowsOK, Desired
  <2>2. Moves(p) \/ Rests(p)
    BY GotoMoves, <1>8, <2>0 DEF AcceptMerge, Places, Followups, Resting, Informed
  <2> QED
    BY MoveKeeps, RestKeeps, <2>0, <2>1, <2>2
<1>9. CASE MarkMerged(p)
  <2>0. at[p] \notin Resting \cup {"spawned"} /\ lease' = lease
    BY <1>9 DEF MarkMerged, Resting
  <2>1. Continues
    BY <1>a, <1>b, <1>n, <1>9, <2>0 DEF MarkMerged, Continues, RowsOK, Phases
  <2>2. Moves(p) \/ Rests(p)
    BY GotoMoves, <1>9, <2>0 DEF MarkMerged, Places, Followups, Resting, Informed
  <2> QED
    BY MoveKeeps, RestKeeps, <2>0, <2>1, <2>2
<1>10. CASE Reclaim(p)
  <2>0. at[p] \notin Resting \cup {"spawned"} /\ lease' = lease
    BY <1>10 DEF Reclaim, Resting
  <2>1. Continues
    BY <1>a, <1>b, <1>n, <1>10, <2>0 DEF Reclaim, Continues, RowsOK, Phases
  <2>3. Goto(p, "relaunch") \/ Leave(p)
    BY <1>10 DEF Reclaim
  <2>2. Moves(p) \/ Rests(p)
    BY GotoMoves, LeaveMoves, <2>0, <2>3 DEF Places, Followups, Resting, Informed
  <2> QED
    BY MoveKeeps, RestKeeps, <2>0, <2>1, <2>2
<1> QED
  BY <1>1, <1>2, <1>3, <1>4, <1>5, <1>6, <1>7, <1>8, <1>9, <1>10

\* A crash or an aborted command leaves the rows as they are.
LEMMA DeathKeeps ==
  ASSUME ControlInv,
         \/ \E c \in Controllers : Crash(c)
         \/ \E p \in Commands : Abort(p)
  PROVE  ControlInv'
<1>1. ASSUME NEW c \in Controllers, Crash(c)
      PROVE  ControlInv'
  <2>1. c \in Processes /\ at[c] \notin Resting
    BY <1>1 DEF Crash, Lives, Processes, Resting, ControlInv, JobsFit
  <2>2. Continues /\ Rests(c) /\ lease' = lease
    BY <1>1 DEF Crash, End, Rests, Continues, ControlInv, TypeOK, RowsOK, row, os
  <2> QED
    BY <2>1, <2>2, RestKeeps
<1>2. ASSUME NEW p \in Commands, Abort(p)
      PROVE  ControlInv'
  <2>1. p \in Processes /\ p \notin Controllers
    BY IdentityAssumption DEF Processes
  <2>2. Continues /\ lease' = lease
    BY <1>2 DEF Abort, Continues, ControlInv, TypeOK, RowsOK, row, os
  <2>3. CASE at[p] \notin Resting
    <3>1. Rests(p)
      BY <1>2, <2>1 DEF Abort, End, Rests
    <3> QED
      BY <2>1, <2>2, <2>3, <3>1, RestKeeps
  <2>4. CASE at[p] \in Resting
    <3>1. at[p] \in {"unborn", "dead"}
      BY <1>2, <2>4 DEF Abort, Resting
    <3> QED
      BY <2>1, <3>1 DEF ControlInv, JobsFit
  <2> QED
    BY <2>3, <2>4
<1> QED
  BY <1>1, <1>2

\* A free shell takes up a job for a run that exists, or makes one exist.
LEMMA OrderKeeps ==
  ASSUME ControlInv, NEW p \in Commands, NEW r \in Runs,
         Start(p, r) \/ \E goal \in Desired : Order(p, r, goal)
  PROVE  ControlInv'
<1>1. PICK goal \in Desired, l \in {"prepare", "read"} :
          /\ at' = [at EXCEPT ![p] = l]
          /\ job' = [job EXCEPT ![p] = NewJob(r, goal)]
  BY DEF Start, Order, Desired
<1>2. p \in Processes /\ p \notin Controllers /\ at[p] = "free"
  BY IdentityAssumption DEF Processes, Start, Order
<1>3. /\ NewJob(r, goal) \in Jobs /\ NewJob(r, goal).run = r /\ NewJob(r, goal).goal = goal
  BY DEF NewJob, Jobs
<1>4. l \in Places \ (Resting \cup Informed)
  BY DEF Places, Resting, Informed
<1>5. Continues /\ phase'[r] # None /\ lease' = lease
  BY IdentityAssumption
     DEF Start, Order, Continues, ControlInv, TypeOK, RowsOK, Phases, row, os
<1> DEFINE j == NewJob(r, goal)
<1>6. j \in Jobs /\ j.run = r /\ j.goal = goal /\ job' = [job EXCEPT ![p] = j]
  BY <1>1, <1>3
<1> HIDE DEF j
<1>7. JobsOK'
  BY <1>1, <1>2, <1>4, <1>6, JobAssumption DEF ControlInv, TypeOK, JobsOK
<1>8. \A q \in Processes : q # p => at'[q] = at[q] /\ job'[q] = job[q]
  BY <1>1, <1>6 DEF ControlInv, TypeOK, JobsOK
<1>9. at'[p] = l /\ job'[p] = j /\ l \notin Informed /\ l # "unborn"
  BY <1>1, <1>2, <1>4, <1>6 DEF ControlInv, TypeOK, JobsOK, Resting
<1>10. JobsFit'
  <2> SUFFICES ASSUME NEW q \in Processes
               PROVE  /\ at'[q] \in Informed => Saw(q)' \in Snapshots
                      /\ at'[q] = "ended" => job'[q].then \in Outcomes
                      /\ job'[q] # None => phase'[RunOf(q)'] # None
                      /\ q \in Controllers => at'[q] # "free"
                      /\ q \in Commands => at'[q] \notin {"unborn", "dead"}
                      /\ q \in Commands /\ job'[q] # None => job'[q].goal \in Desired
    BY DEF JobsFit
  <2>1. CASE q = p
    BY <1>2, <1>5, <1>6, <1>9, <2>1 DEF Informed, RunOf
  <2>2. CASE q # p
    <3>1. at'[q] = at[q] /\ Saw(q)' = Saw(q) /\ job'[q] = job[q] /\ RunOf(q)' = RunOf(q)
      BY <1>8, <2>2 DEF Saw, RunOf
    <3>2. job[q] # None => RunOf(q) \in Runs
      BY DEF ControlInv, TypeOK, JobsOK, Jobs, RunOf
    <3> QED
      BY <1>5, <3>1, <3>2 DEF ControlInv, JobsFit, Continues
  <2> QED
    BY <2>1, <2>2
<1>11. LeaseIsBorn'
  BY <1>1, <1>5, <1>9 DEF ControlInv, TypeOK, JobsOK, LeaseIsBorn
<1>12. CleanersSawDead'
  <2> SUFFICES ASSUME NEW q \in Processes, at'[q] \in Cleaning
               PROVE  Saw(q)'.lease = None \/ at'[Saw(q)'.lease] = "dead"
    BY DEF CleanersSawDead
  <2>1. q # p /\ at[q] \in Cleaning /\ Saw(q)' = Saw(q)
    BY <1>8, <1>9 DEF Saw, Cleaning, Informed
  <2>2. Saw(q).lease = None \/ at[Saw(q).lease] = "dead"
    BY <2>1 DEF ControlInv, CleanersSawDead
  <2> QED
    BY <1>1, <1>2, <2>1, <2>2 DEF ControlInv, TypeOK, JobsOK
<1>13. ControllerHoldsLease'
  BY <1>2, <1>5, <1>8 DEF ControlInv, ControllerHoldsLease, Lives, RunOf, Processes
<1> QED
  BY <1>5, <1>7, <1>10, <1>11, <1>12, <1>13 DEF ControlInv, TypeOK, Continues

\* A new controller is handed the run of the command that starts it.
LEMMA SpawnKeeps ==
  ASSUME ControlInv, NEW p \in Commands, NEW c \in Controllers, SpawnBackground(p, c)
  PROVE  ControlInv'
<1> DEFINE j == NewJob(RunOf(p), None)
<1>1. p \in Processes /\ c \in Processes /\ p # c /\ p \notin Controllers /\ c \notin Commands
  BY IdentityAssumption DEF Processes
<1>2. RunOf(p) \in Runs /\ phase[RunOf(p)] # None /\ at[p] = "spawn" /\ at[c] = "unborn"
  BY <1>1, Working DEF SpawnBackground, At, Resting
<1>3. j \in Jobs /\ j.run = RunOf(p)
  BY <1>2 DEF NewJob, Jobs
<1>4. /\ at' = [at EXCEPT ![p] = "free", ![c] = "spawned"]
      /\ job' = [job EXCEPT ![p] = None, ![c] = j]
      /\ UNCHANGED <<row, os>>
  BY DEF SpawnBackground
<1> HIDE DEF j
<1>5. /\ at'[p] = "free" /\ job'[p] = None /\ at'[c] = "spawned" /\ job'[c] = j
      /\ \A q \in Processes \ {p, c} : at'[q] = at[q] /\ job'[q] = job[q]
  BY <1>1, <1>4 DEF ControlInv, TypeOK, JobsOK
<1>6. RowsOK'
  BY <1>4 DEF ControlInv, TypeOK, RowsOK, row, os
<1>7. JobsOK'
  <2>1. at' \in [Processes -> Places] /\ job' \in [Processes -> Jobs \cup {None}]
    BY <1>3, <1>4 DEF ControlInv, TypeOK, JobsOK, Places, Resting
  <2>2. \A q \in Processes : job'[q] = None <=> at'[q] \in Resting
    BY <1>3, <1>5, JobAssumption DEF ControlInv, TypeOK, JobsOK, Resting
  <2> QED
    BY <2>1, <2>2 DEF JobsOK
<1>8. JobsFit'
  <2> SUFFICES ASSUME NEW q \in Processes
               PROVE  /\ at'[q] \in Informed => Saw(q)' \in Snapshots
                      /\ at'[q] = "ended" => job'[q].then \in Outcomes
                      /\ job'[q] # None => phase'[RunOf(q)'] # None
                      /\ q \in Controllers => at'[q] # "free"
                      /\ q \in Commands => at'[q] \notin {"unborn", "dead"}
                      /\ q \in Commands /\ job'[q] # None => job'[q].goal \in Desired
    BY DEF JobsFit
  <2>1. CASE q = p
    BY <1>1, <1>5, <2>1 DEF Informed
  <2>2. CASE q = c
    BY <1>1, <1>2, <1>3, <1>4, <1>5, <2>2 DEF Informed, RunOf, row
  <2>3. CASE q \notin {p, c}
    <3>1. at'[q] = at[q] /\ Saw(q)' = Saw(q) /\ job'[q] = job[q] /\ RunOf(q)' = RunOf(q)
          /\ phase' = phase
      BY <1>4, <1>5, <2>3 DEF Saw, RunOf, row
    <3> QED
      BY <3>1 DEF ControlInv, JobsFit
  <2> QED
    BY <2>1, <2>2, <2>3
<1>9. LeaseIsBorn'
  <2>1. lease' = lease /\ \A q \in Processes : at'[q] = "unborn" => at[q] = "unborn"
    BY <1>1, <1>2, <1>4 DEF row, ControlInv, TypeOK, JobsOK
  <2> QED
    BY <2>1 DEF ControlInv, TypeOK, RowsOK, LeaseIsBorn, Processes
<1>10. CleanersSawDead'
  <2> SUFFICES ASSUME NEW q \in Processes, at'[q] \in Cleaning
               PROVE  Saw(q)'.lease = None \/ at'[Saw(q)'.lease] = "dead"
    BY DEF CleanersSawDead
  <2>1. q \notin {p, c} /\ at[q] \in Cleaning /\ Saw(q)' = Saw(q)
    BY <1>5 DEF Saw, Cleaning
  <2>2. Saw(q).lease = None \/ at[Saw(q).lease] = "dead"
    BY <2>1 DEF ControlInv, CleanersSawDead
  <2>3. Saw(q).lease \in Processes \cup {None}
    BY <2>1 DEF ControlInv, JobsFit, Cleaning, Informed, Snapshots, Processes
  <2>4. Saw(q).lease = None \/ (Saw(q).lease \in Processes \ {p, c} /\ at[Saw(q).lease] = "dead")
    BY <1>2, <2>2, <2>3
  <2> QED
    BY <1>5, <2>1, <2>4
<1>11. ControllerHoldsLease'
  BY <1>1, <1>4, <1>5 DEF ControlInv, ControllerHoldsLease, Lives, RunOf, Processes, row
<1> QED
  BY <1>6, <1>7, <1>8, <1>9, <1>10, <1>11 DEF ControlInv, TypeOK

\* The launchers know nothing of rows and leases.
LEMMA LauncherKeeps ==
  ASSUME ControlInv, NEW a \in Launchers, LauncherStep(a)
  PROVE  ControlInv'
<1>1. UNCHANGED <<row, local>>
  BY DEF LauncherStep, PassBarrier, LauncherEnds, Contain, row, local
<1>2. RowsOK'
  BY DEF LauncherStep, PassBarrier, LauncherEnds, Contain, Kill, Ended, ControlInv, TypeOK, RowsOK, row
<1> QED
  BY <1>1, <1>2 DEF ControlInv, TypeOK, JobsOK, JobsFit, LeaseIsBorn, CleanersSawDead,
     ControllerHoldsLease, Saw, RunOf, Lives, row, local

\* At first there is no process, no lease and, but for legacy runs, no run.
LEMMA ControlInit == Init => ControlInv
<1> SUFFICES ASSUME Init PROVE ControlInv
  OBVIOUS
<1>1. RowsOK
  BY DEF Init, RowsOK, Phases, Desired
<1>2. JobsOK
  BY DEF Init, JobsOK, Places, Resting
<1>3. JobsFit
  BY IdentityAssumption DEF Init, JobsFit, Informed, Processes
<1>4. LeaseIsBorn /\ CleanersSawDead /\ ControllerHoldsLease
  BY DEF Init, LeaseIsBorn, CleanersSawDead, ControllerHoldsLease, Lives, Cleaning, Processes
<1> QED
  BY <1>1, <1>2, <1>3, <1>4 DEF ControlInv, TypeOK

\* Every step of every process keeps the invariant.
LEMMA ControlNext == ControlInv /\ [Next]_vars => ControlInv'
<1> SUFFICES ASSUME ControlInv, [Next]_vars PROVE ControlInv'
  OBVIOUS
<1>1. ASSUME NEW c \in Controllers, ControllerStep(c) \/ Expire(c)
      PROVE  ControlInv'
  BY <1>1, ControllerKeeps, AcquireKeeps, ReleaseKeeps DEF ControllerStep
<1>2. ASSUME NEW p \in Commands, CommandStep(p)
      PROVE  ControlInv'
  BY <1>2, CommandKeeps, ClearKeeps, SpawnKeeps DEF CommandStep
<1>3. CASE UNCHANGED vars
  BY <1>3 DEF ControlInv, TypeOK, RowsOK, JobsOK, JobsFit, LeaseIsBorn, CleanersSawDead,
     ControllerHoldsLease, Saw, RunOf, Lives, vars, row, local, os
<1> QED
  BY <1>1, <1>2, <1>3, SharedKeeps, DeathKeeps, OrderKeeps, LauncherKeeps DEF Next

\* The inductive invariant holds.
LEMMA ControlIsInvariant == Spec => []ControlInv
  BY ControlInit, ControlNext, PTL DEF Spec

\* Rows and jobs are always well-formed, and only a run that was created has a claim,
\* a lease or a launcher.
THEOREM ControlTypes == Spec => []TypeOK
<1>1. ControlInv => TypeOK
  BY DEF ControlInv
<1> QED
  BY <1>1, ControlIsInvariant, PTL

\* "A transactional process lease prevents concurrent controllers for one run": every
\* controller at work is the one its run's lease names, however many operators clear
\* stale leases and start controllers, and whoever crashes.
THEOREM LeaseIsHeld == Spec => []ControllerHoldsLease
<1>1. ControlInv => ControllerHoldsLease
  BY DEF ControlInv
<1> QED
  BY <1>1, ControlIsInvariant, PTL

\* A claim is given by Start and Reclaim, one at a time and within the limits.
LEMMA ClaimStep ==
  ASSUME TypeOK, [Next]_vars
  PROVE  \/ \A s \in Runs : claim'[s] => claim[s]
         \/ \E r \in Runs : Claimable(r) /\ \A s \in Runs : claim'[s] => claim[s] \/ s = r
<1> USE DEF row, os, vars
<1>1. CASE \E p \in Commands, r \in Runs : Start(p, r)
  BY <1>1 DEF Start, TypeOK, RowsOK
<1>2. ASSUME NEW p \in Commands, Reclaim(p)
      PROVE  \/ \A s \in Runs : claim'[s] => claim[s]
             \/ \E r \in Runs : Claimable(r) /\ \A s \in Runs : claim'[s] => claim[s] \/ s = r
  <2>1. RunOf(p) \in Runs
    BY <1>2, JobAssumption DEF Reclaim, At, TypeOK, JobsOK, Jobs, RunOf, Processes
  <2> QED
    BY <1>2, <2>1 DEF Reclaim, TypeOK, RowsOK
<1>3. ASSUME NEW p \in Processes, ReleaseClaim(p)
      PROVE  \A s \in Runs : claim'[s] => claim[s]
  BY <1>3 DEF ReleaseClaim, TypeOK, RowsOK
<1>4. ASSUME NEW c \in Controllers, ControllerStep(c) \/ Expire(c) \/ Crash(c)
      PROVE  claim' = claim
  BY <1>4 DEF ControllerStep, AcquireProcessLease, RunLoop, CheckpointControl, PollControl,
     Advance, Deliver, Raise, Launch, SetActiveAgent, WriteStart, Interrupt, Collect,
     AgentFinished, AfterPause, Block, MarkBlocked, ReleaseProcessLease, Expire, Crash
<1>5. ASSUME NEW p \in Commands,
             \/ ReadRun(p) \/ SetDesiredState(p) \/ StopOrphanProcess(p) \/ ConfirmContainment(p)
             \/ PrepareProcessLaunch(p) \/ ClearStaleProcessState(p) \/ ClearStaleProcessLease(p)
             \/ Relaunch(p) \/ AcceptMerge(p) \/ MarkMerged(p) \/ Abort(p)
             \/ (\E c \in Controllers : SpawnBackground(p, c))
             \/ (\E r \in Runs, goal \in Desired : Order(p, r, goal))
      PROVE  claim' = claim
  BY <1>5 DEF ReadRun, SetDesiredState, StopOrphanProcess, ConfirmContainment,
     PrepareProcessLaunch, ClearStaleProcessState, ClearStaleProcessLease, Relaunch,
     AcceptMerge, MarkMerged, Abort, SpawnBackground, Order
<1>6. ASSUME NEW p \in Processes,
             StopRun(p) \/ CheckIdle(p) \/ ClearStaleActiveAgent(p) \/ MarkStopped(p)
      PROVE  claim' = claim
  BY <1>6 DEF StopRun, CheckIdle, ClearStaleActiveAgent, MarkStopped
<1>7. ASSUME NEW a \in Launchers, LauncherStep(a)
      PROVE  claim' = claim
  BY <1>7 DEF LauncherStep, PassBarrier, LauncherEnds, Contain
<1>8. CASE UNCHANGED vars
  BY <1>8
<1> QED
  BY <1>1, <1>2, <1>3, <1>4, <1>5, <1>6, <1>7, <1>8 DEF Next, CommandStep, SharedStep

\* No more runs than --max-workers are ever claimed, and one of each task at most:
\* the recovery of a blocked run counts the claims in the transaction that takes its own.
THEOREM ClaimsStayLimited == Spec => []ClaimsAreLimited
<1> DEFINE Claimed == {r \in Runs : claim[r]}
<1>1. Init => ClaimsAreLimited
  <2> SUFFICES ASSUME Init PROVE ClaimsAreLimited
    OBVIOUS
  <2>1. Claimed = {}
    BY DEF Init
  <2> QED
    BY <2>1, FS_EmptySet, LimitAssumption DEF Init, ClaimsAreLimited
<1>2. TypeOK /\ ClaimsAreLimited /\ [Next]_vars => ClaimsAreLimited'
  <2> SUFFICES ASSUME TypeOK, ClaimsAreLimited, [Next]_vars
               PROVE  ClaimsAreLimited'
    OBVIOUS
  <2>1. IsFiniteSet(Claimed) /\ Claimed \subseteq Runs
    BY RunsAssumption, FS_Subset
  <2>2. Cardinality(Claimed) \in Nat
    BY <2>1, FS_CardinalityType
  <2>3. CASE \A s \in Runs : claim'[s] => claim[s]
    <3>1. Claimed' \subseteq Claimed
      BY <2>3
    <3>2. Cardinality(Claimed') <= Cardinality(Claimed)
      BY <2>1, <3>1, FS_Subset
    <3>3. Cardinality(Claimed') \in Nat
      BY <2>1, <3>1, FS_Subset, FS_CardinalityType
    <3> QED
      BY <2>2, <2>3, <3>2, <3>3, LimitAssumption DEF ClaimsAreLimited
  <2>4. ASSUME NEW r \in Runs, Claimable(r), \A s \in Runs : claim'[s] => claim[s] \/ s = r
        PROVE  ClaimsAreLimited'
    <3>1. Claimed' \subseteq Claimed \cup {r}
      BY <2>4
    <3>2. IsFiniteSet(Claimed \cup {r})
          /\ Cardinality(Claimed \cup {r}) <= Cardinality(Claimed) + 1
      BY <2>1, <2>2, FS_AddElement
    <3>3. Cardinality(Claimed') <= Cardinality(Claimed \cup {r}) /\ Cardinality(Claimed') \in Nat
      BY <3>1, <3>2, FS_Subset, FS_CardinalityType
    <3>4. Cardinality(Claimed) + 1 <= MaxWorkers
      BY <2>2, <2>4, LimitAssumption DEF Claimable
    <3>5. Cardinality(Claimed \cup {r}) \in Nat
      BY <3>2, FS_CardinalityType
    <3>6. Cardinality(Claimed') <= MaxWorkers
      BY <2>2, <3>2, <3>3, <3>4, <3>5, LimitAssumption
    <3> QED
      BY <2>4, <3>6 DEF ClaimsAreLimited, Claimable
  <2> QED
    BY <2>3, <2>4, ClaimStep
<1> QED
  BY <1>1, <1>2, ControlTypes, PTL DEF Spec

-----------------------------------------------------------------------------
(* Registration: whoever may write a worktree is the run's registered launcher *)

\* A controller that has taken the lease.
Active(c) == Lives(c) /\ at[c] # "spawned"

\* Where a controller has a launcher, and where a process is about to clear one.
Holding  == {"register", "attached", "polling"}
Clearing == {"clearing", "cleanagent"}

HoldersHaveLaunchers == \A c \in Controllers : at[c] \in Holding => Mine(c) \in Launchers

LaunchersHaveHomes == \A a \in Launchers : proc[a] # "unborn" => home[a] \in Runs

\* A launcher waits at its barrier for the controller of its run, or for none.
WaitersAreHeld ==
    \A a \in Launchers, c \in Controllers :
        proc[a] = "barrier" /\ Active(c) /\ RunOf(c) = home[a] =>
            at[c] \in Holding /\ Mine(c) = a

\* Who may pass the barrier has been registered; a registered launcher stays so until it
\* is contained.
StartedIsNamed ==
    \A a \in Launchers : proc[a] = "barrier" /\ start[home[a]] => agent[home[a]] = a

AttachedIsNamed ==
    \A c \in Controllers :
        at[c] = "attached" => agent[RunOf(c)] = Mine(c) \/ Contained(Mine(c))

\* Whoever is about to clear a launcher has seen it contained, for good.
ClearersSawContained ==
    \A p \in Processes :
        at[p] \in Clearing => Saw(p).agent \in Launchers /\ Contained(Saw(p).agent)

RegisterInv ==
    /\ HoldersHaveLaunchers /\ LaunchersHaveHomes /\ WaitersAreHeld /\ StartedIsNamed
    /\ AttachedIsNamed /\ ClearersSawContained /\ WriterIsRegistered

\* Launchers grow older, and are deregistered once they are contained.
Aging ==
    /\ start' = start
    /\ \A a \in Launchers :
          /\ proc[a] = "unborn" <=> proc'[a] = "unborn"
          /\ home'[a] = home[a]
          /\ proc'[a] = "barrier" => proc[a] = "barrier"
          /\ proc'[a] \in Writing =>
                proc[a] \in Writing \/ (proc[a] = "barrier" /\ start[home[a]])
          /\ proc[a] = "contained" => proc'[a] = "contained"
    /\ \/ agent' = agent
       \/ \E r \in Runs : /\ agent' = [agent EXCEPT ![r] = None]
                          /\ agent[r] \in Launchers /\ Contained(agent[r])

LEMMA AgingKeeps ==
  ASSUME ControlInv, RegisterInv, Aging,
         \A c \in Controllers : Active(c)' => Active(c) /\ RunOf(c)' = RunOf(c),
         \A c \in Controllers : at'[c] \in Holding =>
            at[c] \in Holding /\ Mine(c)' = Mine(c) /\ RunOf(c)' = RunOf(c),
         \A c \in Controllers : at[c] \in Holding /\ at'[c] \notin Holding =>
            ~Active(c)' \/ proc'[Mine(c)] # "barrier",
         \A c \in Controllers : at'[c] = "attached" => at[c] = "attached",
         \A p \in Processes : at'[p] \in Clearing =>
            Saw(p)'.agent \in Launchers /\ proc'[Saw(p)'.agent] = "contained"
  PROVE  RegisterInv'
<1>1. HoldersHaveLaunchers'
  BY DEF RegisterInv, HoldersHaveLaunchers
<1>2. LaunchersHaveHomes'
  BY DEF RegisterInv, LaunchersHaveHomes, Aging
<1>3. WaitersAreHeld'
  <2> SUFFICES ASSUME NEW a \in Launchers, NEW c \in Controllers,
                      proc'[a] = "barrier", Active(c)', RunOf(c)' = home'[a]
               PROVE  at'[c] \in Holding /\ Mine(c)' = a
    BY DEF WaitersAreHeld
  <2>1. proc[a] = "barrier" /\ Active(c) /\ RunOf(c) = home[a]
    BY DEF Aging
  <2>2. at[c] \in Holding /\ Mine(c) = a
    BY <2>1 DEF RegisterInv, WaitersAreHeld
  <2> QED BY <2>2
<1>4. ASSUME NEW a \in Launchers, agent[home[a]] = a, proc'[a] # "contained"
      PROVE  agent'[home[a]] = a
  <2>1. CASE agent' = agent
    BY <1>4, <2>1
  <2>2. ASSUME NEW r \in Runs, agent' = [agent EXCEPT ![r] = None], agent[r] \in Launchers,
               Contained(agent[r])
        PROVE  agent'[home[a]] = a
    <3>1. agent[r] # a
      BY <1>4, <2>2 DEF Aging, Contained
    <3>2. r # home[a]
      BY <1>4, <3>1
    <3>3. agent \in [Runs -> Launchers \cup {None}]
      BY DEF ControlInv, TypeOK, RowsOK
    <3> QED BY <1>4, <2>2, <3>2, <3>3
  <2> QED BY <2>1, <2>2 DEF Aging
<1>5. StartedIsNamed'
  <2> SUFFICES ASSUME NEW a \in Launchers, proc'[a] = "barrier", start'[home'[a]]
               PROVE  agent'[home'[a]] = a
    BY DEF StartedIsNamed
  <2>1. proc[a] = "barrier" /\ start[home[a]] /\ home'[a] = home[a]
    BY DEF Aging
  <2> QED BY <1>4, <2>1 DEF RegisterInv, StartedIsNamed
<1>6. WriterIsRegistered'
  <2> SUFFICES ASSUME NEW a \in Launchers, proc'[a] \in Writing
               PROVE  agent'[home'[a]] = a
    BY DEF WriterIsRegistered
  <2>1. /\ proc[a] \in Writing \/ (proc[a] = "barrier" /\ start[home[a]])
        /\ home'[a] = home[a]
    BY DEF Aging
  <2>2. agent[home[a]] = a
    BY <2>1 DEF RegisterInv, StartedIsNamed, WriterIsRegistered
  <2>3. proc'[a] # "contained"
    BY DEF Writing
  <2> QED BY <1>4, <2>1, <2>2, <2>3
<1>7. AttachedIsNamed'
  <2> SUFFICES ASSUME NEW c \in Controllers, at'[c] = "attached"
               PROVE  agent'[RunOf(c)'] = Mine(c)' \/ proc'[Mine(c)'] = "contained"
    BY DEF AttachedIsNamed, Contained
  <2>1. at[c] = "attached" /\ Mine(c)' = Mine(c) /\ RunOf(c)' = RunOf(c) /\ Mine(c) \in Launchers
    BY DEF Holding, RegisterInv, HoldersHaveLaunchers
  <2>2. CASE proc[Mine(c)] = "contained"
    BY <2>1, <2>2 DEF Aging
  <2>3. CASE proc[Mine(c)] # "contained"
    <3>1. agent[RunOf(c)] = Mine(c)
      BY <2>1, <2>3 DEF RegisterInv, AttachedIsNamed, Contained
    <3>2. CASE agent' = agent
      BY <2>1, <3>1, <3>2
    <3>3. ASSUME NEW r \in Runs, agent' = [agent EXCEPT ![r] = None], Contained(agent[r])
          PROVE  agent'[RunOf(c)] = Mine(c)
      <4>1. r # RunOf(c)
        BY <2>3, <3>1, <3>3 DEF Contained
      <4>2. agent \in [Runs -> Launchers \cup {None}]
        BY DEF ControlInv, TypeOK, RowsOK
      <4> QED BY <3>1, <3>3, <4>1, <4>2
    <3> QED BY <2>1, <3>2, <3>3 DEF Aging
  <2> QED BY <2>2, <2>3
<1>8. ClearersSawContained'
  BY DEF ClearersSawContained, Contained
<1> QED BY <1>1, <1>2, <1>3, <1>5, <1>6, <1>7, <1>8 DEF RegisterInv

\* Process p goes on, neither with a launcher nor with one to clear.
Steers(p) ==
    \E l \in Places \ (Resting \cup Holding \cup Clearing \cup {"spawned"}), j \in Jobs :
        /\ at' = [at EXCEPT ![p] = l] /\ job' = [job EXCEPT ![p] = j]
        /\ j.run = RunOf(p)

LEMMA Steering ==
  ASSUME ControlInv, NEW p \in Processes, at[p] \notin Resting,
         NEW l \in Places \ (Resting \cup Holding \cup Clearing \cup {"spawned"}),
         Goto(p, l) \/ Look(p, l) \/ Forget(p, l) \/ \E t \in Followups : Aim(p, l, t)
  PROVE  Steers(p)
<1>1. job[p] \in Jobs /\ RunOf(p) \in Runs /\ job \in [Processes -> Jobs \cup {None}]
  BY Working DEF ControlInv, TypeOK, JobsOK
<1>2. CASE Goto(p, l)
  <2>1. job' = [job EXCEPT ![p] = job[p]]
    BY <1>1, <1>2 DEF Goto
  <2> QED BY <1>1, <1>2, <2>1 DEF Goto, Steers, RunOf
<1>3. CASE Look(p, l)
  <2> DEFINE s == Row(RunOf(p))
             j == [job[p] EXCEPT !.saw = s]
  <2>1. s \in Snapshots
    BY <1>1 DEF Row, Snapshots, ControlInv, TypeOK, RowsOK
  <2>2. j \in Jobs /\ j.run = RunOf(p)
    BY <1>1, <2>1 DEF Jobs, RunOf
  <2>3. at' = [at EXCEPT ![p] = l] /\ job' = [job EXCEPT ![p] = j]
    BY <1>3 DEF Look
  <2> HIDE DEF j
  <2> QED BY <2>2, <2>3 DEF Steers
<1>4. CASE Forget(p, l)
  <2> DEFINE j == [job[p] EXCEPT !.saw = None]
  <2>1. j \in Jobs /\ j.run = RunOf(p)
    BY <1>1 DEF Jobs, RunOf
  <2>2. at' = [at EXCEPT ![p] = l] /\ job' = [job EXCEPT ![p] = j]
    BY <1>4 DEF Forget
  <2> HIDE DEF j
  <2> QED BY <2>1, <2>2 DEF Steers
<1>5. ASSUME NEW t \in Followups, Aim(p, l, t)
      PROVE  Steers(p)
  <2> DEFINE j == [job[p] EXCEPT !.then = t]
  <2>1. j \in Jobs /\ j.run = RunOf(p)
    BY <1>1 DEF Jobs, RunOf
  <2>2. at' = [at EXCEPT ![p] = l] /\ job' = [job EXCEPT ![p] = j]
    BY <1>5 DEF Aim
  <2> HIDE DEF j
  <2> QED BY <2>1, <2>2 DEF Steers
<1> QED BY <1>2, <1>3, <1>4, <1>5

LEMMA Leaving ==
  ASSUME ControlInv, NEW p \in Processes, at[p] \notin Resting, Leave(p)
  PROVE  Steers(p) \/ Rests(p)
<1>1. "release" \in Places \ (Resting \cup Holding \cup Clearing \cup {"spawned"})
  BY DEF Places, Resting, Holding, Clearing
<1> QED BY <1>1, Steering DEF Leave, End, Rests

LEMMA SteeringKeeps ==
  ASSUME ControlInv, RegisterInv, Aging, NEW p \in Processes, at[p] \notin Resting,
         at[p] \in Holding => Rests(p) \/ proc'[Mine(p)] # "barrier",
         (Steers(p) /\ at[p] # "spawned") \/ Rests(p)
  PROVE  RegisterInv'
<1>1. PICK l \in Places \ (Holding \cup Clearing \cup {"spawned"}), j \in Jobs \cup {None} :
          /\ at' = [at EXCEPT ![p] = l] /\ job' = [job EXCEPT ![p] = j]
          /\ p \in Controllers => \/ j \in Jobs /\ j.run = RunOf(p) /\ at[p] # "spawned"
                                  \/ l = "dead"
  <2>1. CASE Steers(p) /\ at[p] # "spawned"
    BY <2>1 DEF Steers
  <2>2. CASE Rests(p)
    <3>1. {"dead", "free"} \subseteq Places \ (Holding \cup Clearing \cup {"spawned"})
      BY DEF Places, Resting, Holding, Clearing
    <3> QED BY <2>2, <3>1 DEF Rests
  <2> QED BY <2>1, <2>2
<1>2. /\ at \in [Processes -> Places] /\ job \in [Processes -> Jobs \cup {None}]
      /\ \A c \in Controllers : c \in Processes
  BY DEF ControlInv, TypeOK, JobsOK, Processes
<1>3. /\ at'[p] = l /\ job'[p] = j
      /\ \A q \in Processes : q # p => at'[q] = at[q] /\ job'[q] = job[q]
  BY <1>1, <1>2
<1>4. \A c \in Controllers : Active(c)' => Active(c) /\ RunOf(c)' = RunOf(c)
  BY <1>1, <1>2, <1>3 DEF Active, Lives, RunOf, Resting
<1>5. \A c \in Controllers : at'[c] \in Holding =>
          at[c] \in Holding /\ Mine(c)' = Mine(c) /\ RunOf(c)' = RunOf(c)
  BY <1>1, <1>2, <1>3 DEF Mine, Saw, RunOf
<1>6. \A c \in Controllers : at[c] \in Holding /\ at'[c] \notin Holding =>
          ~Active(c)' \/ proc'[Mine(c)] # "barrier"
  BY <1>1, <1>2, <1>3 DEF Rests, Active, Lives
<1>7. \A c \in Controllers : at'[c] = "attached" => at[c] = "attached"
  BY <1>1, <1>2, <1>3 DEF Holding
<1>8. \A q \in Processes : at'[q] \in Clearing =>
          Saw(q)'.agent \in Launchers /\ proc'[Saw(q)'.agent] = "contained"
  <2> SUFFICES ASSUME NEW q \in Processes, at'[q] \in Clearing
               PROVE  Saw(q)'.agent \in Launchers /\ proc'[Saw(q)'.agent] = "contained"
    OBVIOUS
  <2>1. at[q] \in Clearing /\ Saw(q)' = Saw(q)
    BY <1>1, <1>3 DEF Saw
  <2> QED BY <2>1 DEF RegisterInv, ClearersSawContained, Contained, Aging
<1> QED BY <1>4, <1>5, <1>6, <1>7, <1>8, AgingKeeps

\* Where only processes move, and where one launcher is terminated.
LEMMA StillAging ==
  ASSUME UNCHANGED <<agent, os>>
  PROVE  Aging
  BY DEF Aging, os

LEMMA KillAging ==
  ASSUME ControlInv, NEW a \in Launchers, Kill(a), UNCHANGED <<agent, home, start>>
  PROVE  Aging /\ proc'[a] # "barrier"
  BY DEF Aging, Kill, Ended, Writing, ControlInv, TypeOK, RowsOK

LEMMA ClearAging ==
  ASSUME NEW r \in Runs, agent' = [agent EXCEPT ![r] = None], UNCHANGED os,
         agent[r] \in Launchers, Contained(agent[r])
  PROVE  Aging
  BY DEF Aging, os

\* The steps of a controller that neither take a lease nor handle a launcher at its barrier.
LEMMA ControllerRegisters ==
  ASSUME ControlInv, RegisterInv, NEW c \in Controllers,
         \/ RunLoop(c) \/ CheckpointControl(c) \/ PollControl(c) \/ Advance(c)
         \/ Deliver(c) \/ Raise(c) \/ Interrupt(c) \/ Collect(c) \/ AgentFinished(c)
         \/ AfterPause(c) \/ Block(c) \/ MarkBlocked(c) \/ Expire(c) \/ ReleaseProcessLease(c)
  PROVE  RegisterInv'
<1> c \in Processes
  BY DEF Processes
<1> USE DEF At, row, os
<1> DEFINE Open == Places \ (Resting \cup Holding \cup Clearing \cup {"spawned"})
<1>o. /\ {"loop", "checkpoint", "work", "ended", "release", "idle", "blocked"} \subseteq Open
      /\ {"result", "paused", "stop", "block"} \subseteq Open
  BY DEF Places, Followups, Resting, Holding, Clearing
<1>s. ASSUME at[c] \notin Resting, NEW l \in Open,
             Goto(c, l) \/ Look(c, l) \/ Forget(c, l) \/ \E t \in Followups : Aim(c, l, t)
      PROVE  Steers(c)
  BY <1>s, Steering
<1>r. at[c] \notin Resting => RunOf(c) \in Runs
  BY Working
<1>t. desired \in [Runs -> Desired] /\ agent \in [Runs -> Launchers \cup {None}]
  BY DEF ControlInv, TypeOK, RowsOK
<1> HIDE DEF Open
<1>1. CASE RunLoop(c)
  <2>1. at[c] \notin Resting \cup Holding \cup {"spawned"} /\ Aging
    BY <1>1, StillAging DEF RunLoop, Resting, Holding
  <2>2. Steers(c)
    BY <1>1, <2>1, <1>s, <1>o DEF RunLoop
  <2> QED BY <2>1, <2>2, SteeringKeeps
<1>2. CASE CheckpointControl(c)
  <2>1. at[c] \notin Resting \cup Holding \cup {"spawned"} /\ Aging
    BY <1>2, StillAging DEF CheckpointControl, Resting, Holding
  <2>2. Goto(c, "block") \/ Goto(c, "work") \/ Goto(c, "release") \/ Goto(c, "stop")
    BY <1>2, <1>r, <1>t, <2>1 DEF CheckpointControl, Desired
  <2>3. Steers(c)
    BY <2>1, <2>2, <1>s, <1>o
  <2> QED BY <2>1, <2>3, SteeringKeeps
<1>3. CASE PollControl(c)
  <2>1. at[c] \notin Resting \cup Holding \cup {"spawned"} /\ Aging
    BY <1>3, StillAging DEF PollControl, Resting, Holding
  <2>2. Steers(c)
    BY <1>3, <2>1, <1>s, <1>o DEF PollControl
  <2> QED BY <2>1, <2>2, SteeringKeeps
<1>4. CASE Advance(c)
  <2>1. at[c] \notin Resting \cup Holding \cup {"spawned"} /\ Aging
    BY <1>4, StillAging DEF Advance, Resting, Holding
  <2>2. Steers(c)
    BY <1>4, <2>1, <1>s, <1>o DEF Advance
  <2> QED BY <2>1, <2>2, SteeringKeeps
<1>5. CASE Deliver(c)
  <2>1. at[c] \notin Resting \cup Holding \cup {"spawned"} /\ Aging
    BY <1>5, StillAging DEF Deliver, Resting, Holding
  <2>2. Steers(c)
    BY <1>5, <2>1, <1>s, <1>o DEF Deliver, Followups
  <2> QED BY <2>1, <2>2, SteeringKeeps
<1>6. CASE Raise(c)
  <2>1. at[c] \notin Resting \cup Holding \cup {"spawned"} /\ Aging
    BY <1>6, StillAging DEF Raise, Resting, Holding
  <2>2. Steers(c)
    BY <1>6, <2>1, <1>s, <1>o DEF Raise
  <2> QED BY <2>1, <2>2, SteeringKeeps
<1>7. CASE Interrupt(c) \/ Expire(c)
  <2>1. at[c] \in Holding /\ at[c] \notin Resting \cup {"spawned"}
    BY <1>7 DEF Interrupt, Expire, Resting, Holding
  <2>2. Mine(c) \in Launchers
    BY <2>1 DEF RegisterInv, HoldersHaveLaunchers
  <2>3. Kill(Mine(c)) /\ UNCHANGED <<agent, home, start>>
    BY <1>7 DEF Interrupt, Expire
  <2>4. Aging /\ proc'[Mine(c)] # "barrier"
    BY <2>2, <2>3, KillAging
  <2>5. Aim(c, "ended", "paused") \/ Aim(c, "ended", "stop") \/ Aim(c, "ended", "block")
    BY <1>7 DEF Interrupt, Expire
  <2>6. Steers(c)
    BY <2>1, <2>5, <1>s, <1>o DEF Followups
  <2> QED BY <2>1, <2>4, <2>6, SteeringKeeps
<1>8. CASE Collect(c)
  <2>1. at[c] \notin Resting \cup {"spawned"} /\ Aging /\ proc'[Mine(c)] # "barrier"
    BY <1>8, StillAging DEF Collect, Resting, Up
  <2>2. Steers(c)
    BY <1>8, <2>1, <1>s, <1>o DEF Collect, Followups
  <2> QED BY <2>1, <2>2, SteeringKeeps
<1>9. CASE AgentFinished(c)
  <2>1. at[c] \notin Resting \cup Holding \cup {"spawned"} /\ RunOf(c) \in Runs
    BY <1>9, <1>r DEF AgentFinished, Resting, Holding
  <2>2. Aging
    <3>1. CASE agent' = agent
      BY <1>9, <3>1, StillAging DEF AgentFinished
    <3>2. CASE agent' # agent
      <4>1. agent' = [agent EXCEPT ![RunOf(c)] = None] /\ Contained(agent[RunOf(c)])
        BY <1>9, <3>2 DEF AgentFinished
      <4>2. agent[RunOf(c)] \in Launchers
        BY <1>t, <2>1, <3>2, <4>1
      <4> QED BY <1>9, <2>1, <4>1, <4>2, ClearAging DEF AgentFinished
    <3> QED BY <3>1, <3>2
  <2>3. job[c].then \in Outcomes
    BY <1>9 DEF AgentFinished, ControlInv, JobsFit
  <2>4. \E l \in Outcomes : Goto(c, l)
    BY <1>9, <2>3 DEF AgentFinished, Outcomes
  <2>5. Steers(c)
    BY <2>1, <2>4, <1>s, <1>o DEF Outcomes
  <2> QED BY <2>1, <2>2, <2>5, SteeringKeeps
<1>10. CASE AfterPause(c)
  <2>1. at[c] \notin Resting \cup Holding \cup {"spawned"} /\ Aging
    BY <1>10, StillAging DEF AfterPause, Resting, Holding
  <2>2. Goto(c, "loop") \/ Goto(c, "release") \/ Goto(c, "stop")
    BY <1>10, <1>r, <1>t, <2>1 DEF AfterPause, Desired
  <2>3. Steers(c)
    BY <2>1, <2>2, <1>s, <1>o
  <2> QED BY <2>1, <2>3, SteeringKeeps
<1>11. CASE Block(c)
  <2>1. at[c] \notin Resting \cup Holding \cup {"spawned"} /\ Aging
    BY <1>11, StillAging DEF Block, Resting, Holding
  <2>2. Steers(c)
    BY <1>11, <2>1, <1>s, <1>o DEF Block
  <2> QED BY <2>1, <2>2, SteeringKeeps
<1>12. CASE MarkBlocked(c)
  <2>1. at[c] \notin Resting \cup Holding \cup {"spawned"} /\ Aging
    BY <1>12, StillAging DEF MarkBlocked, Resting, Holding
  <2>2. Steers(c)
    BY <1>12, <2>1, <1>s, <1>o DEF MarkBlocked, Followups
  <2> QED BY <2>1, <2>2, SteeringKeeps
<1>13. CASE ReleaseProcessLease(c)
  <2>1. at[c] \notin Resting \cup Holding \cup {"spawned"} /\ Aging
    BY <1>13, StillAging DEF ReleaseProcessLease, Resting, Holding
  <2>2. Rests(c)
    BY <1>13 DEF ReleaseProcessLease, End, Rests
  <2> QED BY <2>1, <2>2, SteeringKeeps
<1> QED
  BY <1>1, <1>2, <1>3, <1>4, <1>5, <1>6, <1>7, <1>8, <1>9, <1>10, <1>11, <1>12, <1>13

\* A controller launches a model only where nothing waits at the barrier, and takes back
\* the leave to pass it that an earlier launch of the same invocation was given.
LEMMA LaunchRegisters ==
  ASSUME ControlInv, RegisterInv, NEW c \in Controllers, NEW a \in Launchers, Launch(c, a)
  PROVE  RegisterInv'
<1> DEFINE r == RunOf(c)
<1>1. c \in Processes /\ at[c] = "work" /\ r \in Runs /\ job[c] \in Jobs /\ Saw(c) \in Snapshots
      /\ lease[r] = c
  BY Working DEF Launch, At, Processes, Resting, ControlInv, JobsFit, Informed,
     ControllerHoldsLease, Lives
<1>2. /\ proc[a] = "unborn" /\ agent' = agent /\ start' = [start EXCEPT ![r] = FALSE]
      /\ proc' = [proc EXCEPT ![a] = "barrier"] /\ home' = [home EXCEPT ![a] = r]
      /\ at' = [at EXCEPT ![c] = "register"] /\ job' = [job EXCEPT ![c].saw.agent = a]
  BY DEF Launch
<1>3. /\ at \in [Processes -> Places] /\ job \in [Processes -> Jobs \cup {None}]
      /\ proc \in [Launchers -> {"unborn", "barrier", "running", "exited", "orphaned", "contained"}]
      /\ home \in [Launchers -> Runs \cup {None}] /\ start \in [Runs -> BOOLEAN]
      /\ agent \in [Runs -> Launchers \cup {None}]
  BY DEF ControlInv, TypeOK, RowsOK, JobsOK
<1>4. at'[c] = "register" /\ Mine(c)' = a /\ RunOf(c)' = r
  <2>1. job'[c] = [job[c] EXCEPT !.saw.agent = a]
    BY <1>1, <1>2, <1>3
  <2> QED BY <1>1, <1>2, <1>3, <2>1 DEF Mine, Saw, RunOf, Jobs, Snapshots
<1>5. \A q \in Processes : q # c =>
          at'[q] = at[q] /\ Saw(q)' = Saw(q) /\ RunOf(q)' = RunOf(q) /\ Mine(q)' = Mine(q)
  BY <1>2, <1>3 DEF Saw, RunOf, Mine
<1>6. /\ proc'[a] = "barrier" /\ home'[a] = r
      /\ \A b \in Launchers : b # a => proc'[b] = proc[b] /\ home'[b] = home[b]
      /\ start'[r] = FALSE /\ \A s \in Runs : s # r => start'[s] = start[s]
  BY <1>1, <1>2, <1>3
<1>7. \A d \in Controllers : Active(d)' /\ RunOf(d)' = r => d = c
  <2> SUFFICES ASSUME NEW d \in Controllers, Active(d)', RunOf(d)' = r, d # c
               PROVE  FALSE
    OBVIOUS
  <2>1. Active(d) /\ RunOf(d) = r
    BY <1>5 DEF Active, Lives, Processes
  <2> QED BY <1>1, <2>1 DEF ControlInv, ControllerHoldsLease, Active
<1>8. HoldersHaveLaunchers'
  BY <1>4, <1>5 DEF RegisterInv, HoldersHaveLaunchers, Processes
<1>9. LaunchersHaveHomes'
  BY <1>1, <1>6 DEF RegisterInv, LaunchersHaveHomes
<1>10. WaitersAreHeld'
  <2> SUFFICES ASSUME NEW b \in Launchers, NEW d \in Controllers,
                      proc'[b] = "barrier", Active(d)', RunOf(d)' = home'[b]
               PROVE  at'[d] \in Holding /\ Mine(d)' = b
    BY DEF WaitersAreHeld
  <2>1. CASE b = a
    BY <1>4, <1>6, <1>7, <2>1 DEF Holding
  <2>2. CASE b # a /\ d = c
    <3>1. proc[b] = "barrier" /\ home[b] = r /\ Active(c)
      BY <1>1, <1>4, <1>6, <2>2 DEF Active, Lives
    <3> QED BY <1>1, <3>1 DEF RegisterInv, WaitersAreHeld, Holding
  <2>3. CASE b # a /\ d # c
    BY <1>5, <1>6, <2>3 DEF RegisterInv, WaitersAreHeld, Active, Lives, Processes
  <2> QED BY <2>1, <2>2, <2>3
<1>11. StartedIsNamed'
  <2> SUFFICES ASSUME NEW b \in Launchers, proc'[b] = "barrier", start'[home'[b]]
               PROVE  agent'[home'[b]] = b
    BY DEF StartedIsNamed
  <2>1. home'[b] \in Runs /\ home'[b] # r
    BY <1>6, <1>9 DEF LaunchersHaveHomes
  <2>2. b # a /\ proc[b] = "barrier" /\ start[home[b]]
    BY <1>6, <2>1
  <2> QED BY <1>2, <1>6, <2>2 DEF RegisterInv, StartedIsNamed
<1>12. AttachedIsNamed'
  BY <1>2, <1>4, <1>5, <1>6 DEF RegisterInv, AttachedIsNamed, Contained, Processes
<1>13. ClearersSawContained'
  BY <1>2, <1>4, <1>5, <1>6 DEF RegisterInv, ClearersSawContained, Contained, Clearing
<1>14. WriterIsRegistered'
  BY <1>2, <1>6 DEF RegisterInv, WriterIsRegistered, Writing
<1> QED
  BY <1>8, <1>9, <1>10, <1>11, <1>12, <1>13, <1>14 DEF RegisterInv

\* The launcher is registered where none is, or terminated.
LEMMA SetActiveRegisters ==
  ASSUME ControlInv, RegisterInv, NEW c \in Controllers, SetActiveAgent(c)
  PROVE  RegisterInv'
<1> DEFINE r == RunOf(c)
           m == Mine(c)
<1>1. c \in Processes /\ at[c] = "register" /\ r \in Runs /\ m \in Launchers
  BY Working DEF SetActiveAgent, At, Processes, Resting, RegisterInv, HoldersHaveLaunchers, Holding
<1>2. CASE agent' = agent /\ Goto(c, "block") /\ Kill(m) /\ UNCHANGED <<home, start>>
  <2>1. Aging /\ proc'[m] # "barrier"
    BY <1>1, <1>2, KillAging
  <2>2. at[c] \notin Resting \cup {"spawned"}
        /\ "block" \in Places \ (Resting \cup Holding \cup Clearing \cup {"spawned"})
    BY <1>1 DEF Places, Followups, Resting, Holding, Clearing
  <2>3. Steers(c)
    BY <1>1, <1>2, <2>2, Steering
  <2> QED BY <1>1, <2>1, <2>2, <2>3, SteeringKeeps
<1>3. ASSUME lease[r] = c, agent[r] = None, agent' = [agent EXCEPT ![r] = m],
             Goto(c, "attached"), UNCHANGED os
      PROVE  RegisterInv'
  <2>1. /\ at \in [Processes -> Places] /\ agent \in [Runs -> Launchers \cup {None}]
        /\ at'[c] = "attached" /\ job' = job
        /\ \A q \in Processes : q # c => at'[q] = at[q]
    BY <1>1, <1>3 DEF Goto, ControlInv, TypeOK, RowsOK, JobsOK
  <2>2. agent'[r] = m /\ \A s \in Runs : s # r => agent'[s] = agent[s]
    BY <1>1, <1>3, <2>1
  <2>3. proc' = proc /\ home' = home /\ start' = start
    BY <1>3 DEF os
  <2>4. \A q \in Processes : Saw(q)' = Saw(q) /\ RunOf(q)' = RunOf(q) /\ Mine(q)' = Mine(q)
    BY <2>1 DEF Saw, RunOf, Mine
  <2>5. \A b \in Launchers : agent[home[b]] = b /\ proc[b] # "unborn" => agent'[home[b]] = b
    BY <1>3, <2>2, IdentityAssumption DEF RegisterInv, LaunchersHaveHomes
  <2>6. HoldersHaveLaunchers' /\ LaunchersHaveHomes'
    BY <1>1, <2>1, <2>3, <2>4 DEF RegisterInv, HoldersHaveLaunchers, LaunchersHaveHomes, Processes
  <2>7. WaitersAreHeld'
    BY <1>1, <2>1, <2>3, <2>4 DEF RegisterInv, WaitersAreHeld, Active, Lives, Processes, Holding
  <2>8. StartedIsNamed'
    BY <2>3, <2>5 DEF RegisterInv, StartedIsNamed
  <2>9. WriterIsRegistered'
    BY <2>3, <2>5 DEF RegisterInv, WriterIsRegistered, Writing
  <2>10. AttachedIsNamed'
    <3> SUFFICES ASSUME NEW d \in Controllers, at'[d] = "attached"
                 PROVE  agent'[RunOf(d)'] = Mine(d)' \/ Contained(Mine(d))'
      BY DEF AttachedIsNamed
    <3>1. CASE d = c
      BY <1>1, <2>2, <2>4, <3>1
    <3>2. CASE d # c
      <4>1. d \in Processes /\ at[d] = "attached"
        BY <2>1, <3>2 DEF Processes
      <4>2. RunOf(d) \in Runs
        BY <4>1, Working DEF Resting
      <4>3. RunOf(d) # r
        BY <1>3, <3>2, <4>1 DEF ControlInv, ControllerHoldsLease, Lives
      <4> QED
        BY <2>2, <2>3, <2>4, <4>1, <4>2, <4>3 DEF RegisterInv, AttachedIsNamed, Contained
    <3> QED BY <3>1, <3>2
  <2>11. ClearersSawContained'
    BY <1>1, <2>1, <2>3, <2>4 DEF RegisterInv, ClearersSawContained, Contained, Clearing
  <2> QED BY <2>6, <2>7, <2>8, <2>9, <2>10, <2>11 DEF RegisterInv
<1> QED
  BY <1>2, <1>3 DEF SetActiveAgent, os

\* Only the launcher that the row names is let through the barrier.
LEMMA WriteStartRegisters ==
  ASSUME ControlInv, RegisterInv, NEW c \in Controllers, WriteStart(c)
  PROVE  RegisterInv'
<1> DEFINE r == RunOf(c)
<1>1. c \in Processes /\ at[c] = "attached" /\ r \in Runs
  BY Working DEF WriteStart, At, Processes, Resting
<1>2. /\ start' = [start EXCEPT ![r] = TRUE] /\ at' = [at EXCEPT ![c] = "polling"] /\ job' = job
      /\ agent' = agent /\ proc' = proc /\ home' = home
  BY DEF WriteStart, Goto, row
<1>3. at'[c] = "polling" /\ \A q \in Processes : q # c => at'[q] = at[q]
  BY <1>1, <1>2 DEF ControlInv, TypeOK, JobsOK
<1>4. \A q \in Processes : Saw(q)' = Saw(q) /\ RunOf(q)' = RunOf(q) /\ Mine(q)' = Mine(q)
  BY <1>2 DEF Saw, RunOf, Mine
<1>5. HoldersHaveLaunchers' /\ LaunchersHaveHomes'
  BY <1>1, <1>2, <1>3, <1>4
     DEF RegisterInv, HoldersHaveLaunchers, LaunchersHaveHomes, Processes, Holding
<1>6. WaitersAreHeld'
  BY <1>1, <1>2, <1>3, <1>4
     DEF RegisterInv, WaitersAreHeld, Active, Lives, Processes, Holding
<1>7. StartedIsNamed'
  <2> SUFFICES ASSUME NEW b \in Launchers, proc[b] = "barrier", start'[home[b]]
               PROVE  agent[home[b]] = b
    BY <1>2 DEF StartedIsNamed
  <2>1. CASE home[b] = r
    <3>1. Mine(c) = b
      BY <1>1, <2>1 DEF RegisterInv, WaitersAreHeld, Active, Lives
    <3> QED BY <1>1, <2>1, <3>1 DEF RegisterInv, AttachedIsNamed, Contained
  <2>2. CASE home[b] # r
    <3>1. start[home[b]]
      BY <1>1, <1>2, <2>2 DEF RegisterInv, LaunchersHaveHomes, ControlInv, TypeOK, RowsOK
    <3> QED BY <3>1 DEF RegisterInv, StartedIsNamed
  <2> QED BY <2>1, <2>2
<1>8. WriterIsRegistered'
  BY <1>2 DEF RegisterInv, WriterIsRegistered
<1>9. AttachedIsNamed'
  BY <1>2, <1>3, <1>4 DEF RegisterInv, AttachedIsNamed, Contained, Processes
<1>10. ClearersSawContained'
  BY <1>1, <1>2, <1>3, <1>4 DEF RegisterInv, ClearersSawContained, Contained, Clearing
<1> QED
  BY <1>5, <1>6, <1>7, <1>8, <1>9, <1>10 DEF RegisterInv

\* A controller takes the lease once the launchers of earlier ones have left the barrier.
LEMMA AcquireRegisters ==
  ASSUME QuickResume = FALSE,
         ControlInv, RegisterInv, NEW c \in Controllers, AcquireProcessLease(c)
  PROVE  RegisterInv'
<1>1. c \in Processes /\ at[c] = "spawned" /\ job[c] \in Jobs
      /\ at[c] \notin Resting \cup Holding \cup Clearing
  BY Working DEF AcquireProcessLease, At, Processes, Resting, Holding, Clearing
<1>2. agent' = agent /\ UNCHANGED os
  BY DEF AcquireProcessLease
<1>3. Aging
  BY <1>2, StillAging
<1>4. CASE End(c, "dead")
  <2>1. Rests(c)
    BY <1>4 DEF Rests, End
  <2> QED BY <1>1, <1>3, <2>1, SteeringKeeps
<1>5. CASE Goto(c, "loop")
  <2>1. job' = job /\ at'[c] = "loop" /\ \A q \in Processes : q # c => at'[q] = at[q]
    BY <1>1, <1>5 DEF Goto, ControlInv, TypeOK, JobsOK
  <2>2. \A q \in Processes : Saw(q)' = Saw(q) /\ RunOf(q)' = RunOf(q) /\ Mine(q)' = Mine(q)
    BY <2>1 DEF Saw, RunOf, Mine
  <2>3. \A q \in Processes : at'[q] \in Holding \cup Clearing => q # c /\ at'[q] = at[q]
    BY <2>1 DEF Holding, Clearing
  <2>4. WaitersAreHeld'
    <3> SUFFICES ASSUME NEW a \in Launchers, NEW d \in Controllers,
                        proc[a] = "barrier", Active(d)', RunOf(d) = home[a]
                 PROVE  at'[d] \in Holding /\ Mine(d) = a
      BY <1>2, <2>2 DEF WaitersAreHeld, os, Processes
    <3>1. d # c
      BY DEF AcquireProcessLease
    <3>2. at'[d] = at[d] /\ Active(d)
      BY <2>1, <3>1 DEF Active, Lives, Processes
    <3> QED BY <3>2 DEF RegisterInv, WaitersAreHeld
  <2>5. HoldersHaveLaunchers' /\ LaunchersHaveHomes' /\ StartedIsNamed' /\ WriterIsRegistered'
    BY <1>2, <2>2, <2>3
       DEF RegisterInv, HoldersHaveLaunchers, LaunchersHaveHomes, StartedIsNamed,
           WriterIsRegistered, os, Processes
  <2>6. AttachedIsNamed'
    BY <1>2, <2>2, <2>3 DEF RegisterInv, AttachedIsNamed, Contained, os, Processes, Holding
  <2>7. ClearersSawContained'
    BY <1>2, <2>2, <2>3 DEF RegisterInv, ClearersSawContained, Contained, os
  <2> QED BY <2>4, <2>5, <2>6, <2>7 DEF RegisterInv
<1> QED
  BY <1>4, <1>5 DEF AcquireProcessLease

\* Whoever looks for a contained launcher to clear has found one.
LEMMA LookRegisters ==
  ASSUME ControlInv, RegisterInv, UNCHANGED <<agent, os>>, NEW p \in Processes,
         at[p] \notin Resting \cup Holding \cup Clearing \cup {"spawned"},
         NEW l \in Clearing, Look(p, l),
         agent[RunOf(p)] # None, Contained(agent[RunOf(p)])
  PROVE  RegisterInv'
<1>1. RunOf(p) \in Runs /\ job[p] \in Jobs /\ agent[RunOf(p)] \in Launchers
  BY Working DEF ControlInv, TypeOK, RowsOK
<1>2. /\ at' = [at EXCEPT ![p] = l] /\ job' = [job EXCEPT ![p].saw = Row(RunOf(p))]
      /\ at \in [Processes -> Places] /\ job \in [Processes -> Jobs \cup {None}]
  BY DEF Look, ControlInv, TypeOK, JobsOK
<1>3. /\ at'[p] = l /\ Saw(p)' = Row(RunOf(p)) /\ RunOf(p)' = RunOf(p)
      /\ \A q \in Processes : q # p => at'[q] = at[q] /\ job'[q] = job[q]
  BY <1>1, <1>2 DEF Saw, RunOf, Jobs
<1>4. Saw(p)'.agent = agent[RunOf(p)]
  BY <1>3 DEF Row
<1>5. \A c \in Controllers : Active(c)' => Active(c) /\ RunOf(c)' = RunOf(c)
  BY <1>3 DEF Active, Lives, RunOf, Resting, Processes
<1>6. /\ \A c \in Controllers : at'[c] \in Holding =>
            at[c] \in Holding /\ Mine(c)' = Mine(c) /\ RunOf(c)' = RunOf(c)
      /\ \A c \in Controllers : at[c] \in Holding => at'[c] \in Holding
      /\ \A c \in Controllers : at'[c] = "attached" => at[c] = "attached"
  BY <1>3 DEF Mine, Saw, RunOf, Holding, Clearing, Processes
<1>7. \A q \in Processes : at'[q] \in Clearing =>
          Saw(q)'.agent \in Launchers /\ proc'[Saw(q)'.agent] = "contained"
  <2> SUFFICES ASSUME NEW q \in Processes, at'[q] \in Clearing
               PROVE  Saw(q)'.agent \in Launchers /\ proc'[Saw(q)'.agent] = "contained"
    OBVIOUS
  <2>1. CASE q = p
    BY <1>1, <1>4, <2>1 DEF Contained, os
  <2>2. CASE q # p
    BY <1>3, <2>2 DEF RegisterInv, ClearersSawContained, Contained, Saw, os
  <2> QED BY <2>1, <2>2
<1> QED BY <1>5, <1>6, <1>7, StillAging, AgingKeeps

\* The procedures that controllers and commands share.
LEMMA SharedRegisters ==
  ASSUME ControlInv, RegisterInv, NEW p \in Processes, SharedStep(p)
  PROVE  RegisterInv'
<1> USE DEF At, row, os
<1> DEFINE Open == Places \ (Resting \cup Holding \cup Clearing \cup {"spawned"})
<1>o. {"idle", "releasing", "block", "tidy", "stopped", "cleanlease"} \subseteq Open
  BY DEF Places, Followups, Resting, Holding, Clearing
<1>s. ASSUME at[p] \notin Resting, NEW l \in Open,
             Goto(p, l) \/ Look(p, l) \/ Forget(p, l) \/ \E t \in Followups : Aim(p, l, t)
      PROVE  Steers(p)
  BY <1>s, Steering
<1>r. at[p] \notin Resting => RunOf(p) \in Runs
  BY Working
<1>t. agent \in [Runs -> Launchers \cup {None}]
  BY DEF ControlInv, TypeOK, RowsOK
<1> HIDE DEF Open
<1>1. CASE StopRun(p)
  <2>1. at[p] \notin Resting \cup Holding \cup {"spawned"} /\ Aging
    BY <1>1, StillAging DEF StopRun, Resting, Holding
  <2>2. Steers(p) \/ Rests(p)
    BY <1>1, <2>1, <1>s, <1>o, Leaving DEF StopRun, Followups
  <2> QED BY <2>1, <2>2, SteeringKeeps
<1>2. CASE CheckIdle(p)
  <2>1. /\ at[p] \notin Resting \cup Holding \cup Clearing \cup {"spawned"} /\ Aging
        /\ UNCHANGED <<agent, os>>
    BY <1>2, StillAging DEF CheckIdle, Resting, Holding, Clearing
  <2>2. CASE Look(p, "clearing") /\ agent[RunOf(p)] # None /\ Contained(agent[RunOf(p)])
    BY <2>1, <2>2, LookRegisters DEF Clearing
  <2>3. CASE Goto(p, "releasing") \/ Goto(p, "block") \/ Goto(p, "tidy") \/ Leave(p)
    <3>1. Steers(p) \/ Rests(p)
      BY <2>1, <2>3, <1>s, <1>o, Leaving
    <3> QED BY <2>1, <3>1, SteeringKeeps
  <2> QED BY <1>2, <2>2, <2>3 DEF CheckIdle
<1>3. CASE ClearStaleActiveAgent(p)
  <2>1. at[p] \in Clearing /\ at[p] \notin Resting \cup Holding \cup {"spawned"} /\ RunOf(p) \in Runs
    BY <1>3, <1>r DEF ClearStaleActiveAgent, Resting, Holding, Clearing
  <2>2. Aging
    <3>1. CASE agent' = agent
      BY <1>3, <3>1, StillAging DEF ClearStaleActiveAgent
    <3>2. CASE agent' # agent
      <4>1. agent' = [agent EXCEPT ![RunOf(p)] = None] /\ agent[RunOf(p)] = Saw(p).agent
        BY <1>3, <3>2 DEF ClearStaleActiveAgent, Unchanged
      <4>2. Saw(p).agent \in Launchers /\ Contained(Saw(p).agent)
        BY <2>1 DEF RegisterInv, ClearersSawContained
      <4> QED BY <1>3, <2>1, <4>1, <4>2, ClearAging DEF ClearStaleActiveAgent
    <3> QED BY <3>1, <3>2
  <2>3. Forget(p, "releasing") \/ Goto(p, "cleanlease") \/ Goto(p, "block") \/ Leave(p)
    BY <1>3 DEF ClearStaleActiveAgent
  <2>4. Steers(p) \/ Rests(p)
    BY <2>1, <2>3, <1>s, <1>o, Leaving
  <2> QED BY <2>1, <2>2, <2>4, SteeringKeeps
<1>4. CASE ReleaseClaim(p)
  <2>1. at[p] \notin Resting \cup Holding \cup {"spawned"} /\ Aging
    BY <1>4, StillAging DEF ReleaseClaim, Resting, Holding
  <2>2. Goto(p, "stopped") \/ Goto(p, "tidy") \/ Leave(p)
    BY <1>4 DEF ReleaseClaim
  <2>3. Steers(p) \/ Rests(p)
    BY <2>1, <2>2, <1>s, <1>o, Leaving
  <2> QED BY <2>1, <2>3, SteeringKeeps
<1>5. CASE MarkStopped(p)
  <2>1. at[p] \notin Resting \cup Holding \cup {"spawned"} /\ Aging
    BY <1>5, StillAging DEF MarkStopped, Resting, Holding
  <2>2. Steers(p) \/ Rests(p)
    BY <1>5, <2>1, Leaving DEF MarkStopped
  <2> QED BY <2>1, <2>2, SteeringKeeps
<1> QED
  BY <1>1, <1>2, <1>3, <1>4, <1>5 DEF SharedStep

\* The steps of a command that works.
LEMMA CommandRegisters ==
  ASSUME ControlInv, RegisterInv, NEW p \in Commands,
         \/ ReadRun(p) \/ SetDesiredState(p) \/ StopOrphanProcess(p) \/ ConfirmContainment(p)
         \/ PrepareProcessLaunch(p) \/ ClearStaleProcessState(p) \/ ClearStaleProcessLease(p)
         \/ Relaunch(p) \/ AcceptMerge(p) \/ MarkMerged(p) \/ Reclaim(p)
  PROVE  RegisterInv'
<1> p \in Processes /\ p \notin Controllers
  BY IdentityAssumption DEF Processes
<1> USE DEF At, row, os
<1> DEFINE Open == Places \ (Resting \cup Holding \cup Clearing \cup {"spawned"})
<1>o. {"set", "merge", "reclaim", "relaunch", "stop", "orphan", "confirm", "idle", "prepare",
       "tidy", "cleanlease", "spawn", "merged"} \subseteq Open
  BY DEF Places, Followups, Resting, Holding, Clearing
<1>s. ASSUME at[p] \notin Resting, NEW l \in Open,
             Goto(p, l) \/ Look(p, l) \/ Forget(p, l) \/ \E t \in Followups : Aim(p, l, t)
      PROVE  Steers(p)
  BY <1>s, Steering
<1>r. at[p] \notin Resting => RunOf(p) \in Runs
  BY Working
<1>t. agent \in [Runs -> Launchers \cup {None}]
  BY DEF ControlInv, TypeOK, RowsOK
<1>k. ASSUME at[p] \notin Resting \cup Holding \cup {"spawned"}, UNCHANGED <<agent, os>>,
             Steers(p) \/ Rests(p)
      PROVE  RegisterInv'
  BY <1>k, StillAging, SteeringKeeps
<1> HIDE DEF Open
<1>1. CASE ReadRun(p)
  <2>1. at[p] \notin Resting \cup Holding \cup {"spawned"} /\ UNCHANGED <<agent, os>>
    BY <1>1 DEF ReadRun, Resting, Holding
  <2>2. Leave(p) \/ Look(p, "set") \/ Goto(p, "merge") \/ Goto(p, "reclaim")
    BY <1>1 DEF ReadRun, Route
  <2> QED BY <2>1, <2>2, <1>s, <1>o, <1>k, Leaving
<1>2. CASE SetDesiredState(p)
  <2>1. at[p] \notin Resting \cup Holding \cup {"spawned"} /\ UNCHANGED <<agent, os>>
    BY <1>2 DEF SetDesiredState, Resting, Holding
  <2>2. \/ Leave(p) \/ Forget(p, "relaunch") \/ Forget(p, "stop") \/ Forget(p, "orphan")
        \/ Aim(p, "orphan", "tidy")
    BY <1>2 DEF SetDesiredState
  <2> QED BY <2>1, <2>2, <1>s, <1>o, <1>k, Leaving DEF Followups
<1>3. CASE StopOrphanProcess(p)
  <2> DEFINE a == agent[RunOf(p)]
  <2>1. at[p] \notin Resting \cup Holding \cup {"spawned"} /\ UNCHANGED <<agent, home, start>>
    BY <1>3 DEF StopOrphanProcess, Resting, Holding
  <2>2. CASE a # None /\ Kill(a) /\ Goto(p, "confirm")
    <3>1. a \in Launchers
      BY <1>r, <1>t, <2>1, <2>2
    <3>2. Aging
      BY <2>1, <2>2, <3>1, KillAging
    <3>3. Steers(p)
      BY <2>1, <2>2, <1>s, <1>o
    <3> QED BY <2>1, <3>2, <3>3, SteeringKeeps
  <2>3. CASE proc' = proc /\ AfterOrphan(p)
    <3>1. Goto(p, "idle") \/ Goto(p, "prepare")
      BY <2>3 DEF AfterOrphan
    <3> QED BY <2>1, <2>3, <3>1, <1>s, <1>o, <1>k
  <2> QED BY <1>3, <2>2, <2>3 DEF StopOrphanProcess
<1>4. CASE ConfirmContainment(p)
  <2>1. at[p] \notin Resting \cup Holding \cup {"spawned"} /\ UNCHANGED <<agent, os>>
    BY <1>4 DEF ConfirmContainment, Resting, Holding
  <2>2. Leave(p) \/ Goto(p, "idle") \/ Goto(p, "prepare")
    BY <1>4 DEF ConfirmContainment, AfterOrphan
  <2> QED BY <2>1, <2>2, <1>s, <1>o, <1>k, Leaving
<1>5. CASE PrepareProcessLaunch(p)
  <2>1. at[p] \notin Resting \cup Holding \cup {"spawned"} /\ UNCHANGED <<agent, os>>
    BY <1>5 DEF PrepareProcessLaunch, Resting, Holding
  <2>2. Leave(p) \/ Goto(p, "tidy")
    BY <1>5 DEF PrepareProcessLaunch
  <2> QED BY <2>1, <2>2, <1>s, <1>o, <1>k, Leaving
<1>t1. ASSUME at[p] \notin Resting, AfterTidy(p)
       PROVE  Steers(p) \/ Rests(p)
  <2>1. Forget(p, "spawn") \/ Forget(p, "stop") \/ End(p, "free")
    BY <1>t1 DEF AfterTidy
  <2>2. CASE End(p, "free")
    BY <2>2 DEF End, Rests
  <2> QED BY <2>1, <2>2, <1>t1, <1>s, <1>o
<1>6. CASE ClearStaleProcessState(p)
  <2>1. /\ at[p] \notin Resting \cup Holding \cup Clearing \cup {"spawned"}
        /\ UNCHANGED <<agent, os>>
    BY <1>6 DEF ClearStaleProcessState, Resting, Holding, Clearing
  <2>2. CASE Look(p, "cleanagent") /\ agent[RunOf(p)] # None /\ Contained(agent[RunOf(p)])
    BY <2>1, <2>2, LookRegisters DEF Clearing
  <2>3. CASE Leave(p) \/ Look(p, "cleanlease") \/ AfterTidy(p)
    BY <2>1, <2>3, <1>s, <1>o, <1>k, <1>t1, Leaving
  <2> QED BY <1>6, <2>2, <2>3 DEF ClearStaleProcessState
<1>7. CASE ClearStaleProcessLease(p)
  <2>1. at[p] \notin Resting \cup Holding \cup {"spawned"} /\ UNCHANGED <<agent, os>>
    BY <1>7 DEF ClearStaleProcessLease, Resting, Holding
  <2>2. Leave(p) \/ AfterTidy(p)
    BY <1>7 DEF ClearStaleProcessLease
  <2> QED BY <2>1, <2>2, <1>k, <1>t1, Leaving
<1>8. CASE Relaunch(p)
  <2>1. at[p] \notin Resting \cup Holding \cup {"spawned"} /\ UNCHANGED <<agent, os>>
    BY <1>8 DEF Relaunch, Resting, Holding
  <2>2. Leave(p) \/ Goto(p, "prepare")
    BY <1>8 DEF Relaunch
  <2> QED BY <2>1, <2>2, <1>s, <1>o, <1>k, Leaving
<1>9. CASE AcceptMerge(p)
  <2>1. at[p] \notin Resting \cup Holding \cup {"spawned"} /\ UNCHANGED <<agent, os>>
    BY <1>9 DEF AcceptMerge, Resting, Holding
  <2> QED BY <1>9, <2>1, <1>s, <1>o, <1>k DEF AcceptMerge
<1>10. CASE MarkMerged(p)
  <2>1. at[p] \notin Resting \cup Holding \cup {"spawned"} /\ UNCHANGED <<agent, os>>
    BY <1>10 DEF MarkMerged, Resting, Holding
  <2> QED BY <1>10, <2>1, <1>s, <1>o, <1>k DEF MarkMerged
<1>11. CASE Reclaim(p)
  <2>1. at[p] \notin Resting \cup Holding \cup {"spawned"} /\ UNCHANGED <<agent, os>>
    BY <1>11 DEF Reclaim, Resting, Holding
  <2>2. Leave(p) \/ Goto(p, "relaunch")
    BY <1>11 DEF Reclaim
  <2> QED BY <2>1, <2>2, <1>s, <1>o, <1>k, Leaving
<1> QED
  BY <1>1, <1>2, <1>3, <1>4, <1>5, <1>6, <1>7, <1>8, <1>9, <1>10, <1>11

\* A process dies or gives up, an operator gives an order, a controller is started.
LEMMA DeathRegisters ==
  ASSUME ControlInv, RegisterInv,
         \/ \E c \in Controllers : Crash(c)
         \/ \E p \in Commands : Abort(p)
  PROVE  RegisterInv'
<1>1. ASSUME NEW c \in Controllers, Crash(c)
      PROVE  RegisterInv'
  <2>1. c \in Processes /\ at[c] \notin Resting /\ Aging /\ Rests(c)
    BY <1>1, StillAging
       DEF Processes, Crash, Lives, End, Rests, ControlInv, JobsFit, Resting, row
  <2> QED BY <2>1, SteeringKeeps
<1>2. ASSUME NEW p \in Commands, Abort(p)
      PROVE  RegisterInv'
  <2>1. p \in Processes /\ at[p] \notin Resting /\ Aging /\ Rests(p)
    BY <1>2, StillAging, IdentityAssumption
       DEF Processes, Abort, End, Rests, ControlInv, JobsFit, Resting, row
  <2> QED BY <2>1, SteeringKeeps
<1> QED BY <1>1, <1>2

LEMMA OrderRegisters ==
  ASSUME ControlInv, RegisterInv, NEW p \in Commands,
         \/ \E r \in Runs : Start(p, r)
         \/ \E r \in Runs, goal \in Desired : Order(p, r, goal)
         \/ \E c \in Controllers : SpawnBackground(p, c)
  PROVE  RegisterInv'
<1>1. p \in Processes /\ p \notin Controllers
  BY IdentityAssumption DEF Processes
<1>2. UNCHANGED <<agent, os>>
  BY DEF Start, Order, SpawnBackground, row
<1> DEFINE Same(q) == at'[q] = at[q] /\ job'[q] = job[q]
           Only == /\ \A q \in Processes : Same(q) \/ at'[q] \notin Holding \cup Clearing
                   /\ \A c \in Controllers : Same(c) \/ (at'[c] = "spawned" /\ at[c] = "unborn")
<1>3. Only
  <2>1. ASSUME NEW r \in Runs, NEW l \in {"prepare", "read"}, NEW j,
               at' = [at EXCEPT ![p] = l] /\ job' = [job EXCEPT ![p] = j]
        PROVE  Only
    BY <1>1, <2>1 DEF Processes, Holding, Clearing, ControlInv, TypeOK, JobsOK
  <2>2. ASSUME NEW c \in Controllers, SpawnBackground(p, c)
        PROVE  Only
    <3>1. c \in Processes /\ c # p /\ at[c] = "unborn"
          /\ at \in [Processes -> Places] /\ job \in [Processes -> Jobs \cup {None}]
      BY <1>1, <2>2 DEF SpawnBackground, Processes, ControlInv, TypeOK, JobsOK
    <3>2. at'[p] = "free" /\ at'[c] = "spawned"
          /\ \A q \in Processes \ {p, c} : at'[q] = at[q] /\ job'[q] = job[q]
      BY <1>1, <2>2, <3>1 DEF SpawnBackground
    <3> QED BY <1>1, <3>1, <3>2 DEF Processes, Holding, Clearing
  <2> QED BY <2>1, <2>2 DEF Start, Order
<1>4. \A c \in Controllers : Active(c)' => Active(c) /\ RunOf(c)' = RunOf(c)
  BY <1>3 DEF Active, Lives, RunOf
<1>5. /\ \A c \in Controllers : at'[c] \in Holding =>
            at[c] \in Holding /\ Mine(c)' = Mine(c) /\ RunOf(c)' = RunOf(c)
      /\ \A c \in Controllers : at[c] \in Holding => at'[c] \in Holding
      /\ \A c \in Controllers : at'[c] = "attached" => at[c] = "attached"
  BY <1>3 DEF Mine, Saw, RunOf, Holding
<1>6. \A q \in Processes : at'[q] \in Clearing =>
          Saw(q)'.agent \in Launchers /\ proc'[Saw(q)'.agent] = "contained"
  BY <1>2, <1>3 DEF RegisterInv, ClearersSawContained, Contained, Saw, os
<1> QED BY <1>2, <1>4, <1>5, <1>6, StillAging, AgingKeeps

\* A launcher passes its barrier once it may, ends, and is contained.
LEMMA LauncherRegisters ==
  ASSUME ControlInv, RegisterInv, NEW a \in Launchers, LauncherStep(a)
  PROVE  RegisterInv'
<1>1. UNCHANGED <<row, local>>
  BY DEF LauncherStep, PassBarrier, LauncherEnds, Contain, row, local
<1>2. Aging
  <2>1. agent' = agent
    BY <1>1 DEF row
  <2>2. CASE LauncherEnds(a)
    BY <2>1, <2>2, KillAging DEF LauncherEnds
  <2>3. CASE PassBarrier(a) \/ Contain(a)
    BY <2>1, <2>3
       DEF PassBarrier, Contain, Aging, Writing, ControlInv, TypeOK, RowsOK
  <2> QED BY <2>2, <2>3 DEF LauncherStep
<1>3. \A q \in Processes : at'[q] \in Clearing =>
          Saw(q)'.agent \in Launchers /\ proc'[Saw(q)'.agent] = "contained"
  BY <1>1, <1>2 DEF RegisterInv, ClearersSawContained, Contained, Saw, Aging, local
<1> QED
  BY <1>1, <1>2, <1>3, AgingKeeps DEF Active, Lives, RunOf, Mine, Saw, local

LEMMA RegisterInit == Init => RegisterInv
<1> SUFFICES ASSUME Init PROVE RegisterInv
  OBVIOUS
<1>1. \A p \in Processes : at[p] \in {"unborn", "free"}
  BY DEF Init
<1>2. \A a \in Launchers : proc[a] = "unborn"
  BY DEF Init
<1>3. HoldersHaveLaunchers /\ AttachedIsNamed /\ ClearersSawContained
  BY <1>1 DEF HoldersHaveLaunchers, AttachedIsNamed, ClearersSawContained, Holding, Clearing, Processes
<1>4. LaunchersHaveHomes /\ WaitersAreHeld /\ StartedIsNamed /\ WriterIsRegistered
  BY <1>2 DEF LaunchersHaveHomes, WaitersAreHeld, StartedIsNamed, WriterIsRegistered, Writing
<1> QED BY <1>3, <1>4 DEF RegisterInv

LEMMA RegisterNext ==
  ASSUME QuickResume = FALSE, ControlInv, RegisterInv, [Next]_vars
  PROVE  RegisterInv'
<1>1. ASSUME NEW c \in Controllers, ControllerStep(c) \/ Expire(c)
      PROVE  RegisterInv'
  BY <1>1, ControllerRegisters, AcquireRegisters, LaunchRegisters, SetActiveRegisters,
     WriteStartRegisters DEF ControllerStep
<1>2. ASSUME NEW p \in Commands, CommandStep(p)
      PROVE  RegisterInv'
  BY <1>2, CommandRegisters, OrderRegisters DEF CommandStep
<1>3. CASE UNCHANGED vars
  BY <1>3 DEF RegisterInv, HoldersHaveLaunchers, LaunchersHaveHomes, WaitersAreHeld,
     StartedIsNamed, AttachedIsNamed, ClearersSawContained, WriterIsRegistered, Contained,
     Active, Lives, RunOf, Mine, Saw, vars, row, local, os
<1> QED
  BY <1>1, <1>2, <1>3, SharedRegisters, DeathRegisters, OrderRegisters, LauncherRegisters DEF Next

\* Where operators let a launcher that an earlier controller left at its barrier give up
\* before the next controller takes the lease, whatever a model may still write is
\* registered with its run: no crash, stop, resume or clearing of stale state loses it.
THEOREM WritersAreRegistered ==
  ASSUME QuickResume = FALSE
  PROVE  Spec => []WriterIsRegistered
<1> DEFINE Inv == ControlInv /\ RegisterInv
<1>1. Init => Inv
  BY ControlInit, RegisterInit
<1>2. Inv /\ [Next]_vars => Inv'
  BY ControlNext, RegisterNext
<1>3. Inv => WriterIsRegistered
  BY DEF RegisterInv
<1> QED BY <1>1, <1>2, <1>3, PTL DEF Spec
-----------------------------------------------------------------------------
(* Releasing and stopping: what commands do meanwhile                                *)

\* A controller that is about to release its claim has found no launcher registered.
ReleasersFoundNone == \A c \in Controllers : at[c] = "releasing" => agent[RunOf(c)] = None

\* The runs that this release creates, which never name a CI failure as their end; a stop
\* of one releases its claim before it writes STOPPED, and nothing takes the claim back.
Created == Runs \ UNION Legacies

StopInv ==
    /\ \A r \in Created : ~ciError[r] /\ (phase[r] = "STOPPED" => ~claim[r])
    /\ \A p \in Processes : at[p] = "reclaim" => RunOf(p) \notin Created
    /\ \A p \in Processes : at[p] = "stopped" /\ RunOf(p) \in Created => ~claim[RunOf(p)]

EndInv == ReleasersFoundNone /\ StopInv

\* Process p goes where neither of the two is at stake.
Elsewhere(p) ==
    \E l \in Places \ {"releasing", "reclaim", "stopped"}, j \in Jobs \cup {None} :
        at' = [at EXCEPT ![p] = l] /\ job' = [job EXCEPT ![p] = j]

\* Nothing is registered, claimed, stopped or said to have failed on CI.
Harmless ==
    \A r \in Runs :
        /\ agent'[r] \in {agent[r], None}
        /\ ciError'[r] => ciError[r]
        /\ claim'[r] => claim[r]
        /\ phase'[r] = "STOPPED" => phase[r] = "STOPPED"

LEMMA GoesElsewhere ==
  ASSUME ControlInv, ControlInv', NEW p \in Processes,
         NEW l \in Places \ {"releasing", "reclaim", "stopped"},
         \/ Goto(p, l) \/ Look(p, l) \/ Forget(p, l) \/ End(p, l) \/ \E t : Aim(p, l, t)
  PROVE  Elsewhere(p)
<1>1. job'[p] \in Jobs \cup {None} /\ at' = [at EXCEPT ![p] = l]
  BY DEF Goto, Look, Forget, End, Aim, ControlInv, TypeOK, JobsOK
<1>2. job' = [job EXCEPT ![p] = job'[p]]
  BY DEF Goto, Look, Forget, End, Aim, ControlInv, TypeOK, JobsOK
<1> QED BY <1>1, <1>2 DEF Elsewhere

LEMMA LeavesElsewhere ==
  ASSUME ControlInv, ControlInv', NEW p \in Processes, Leave(p)
  PROVE  Elsewhere(p)
<1>1. {"release", "free"} \subseteq Places \ {"releasing", "reclaim", "stopped"}
  BY DEF Places, Resting
<1> QED BY <1>1, GoesElsewhere DEF Leave

LEMMA ElsewhereKeeps ==
  ASSUME ControlInv, EndInv, Harmless, NEW p \in Processes, Elsewhere(p)
  PROVE  EndInv'
<1>1. \A q \in Processes : at'[q] \in {"releasing", "reclaim", "stopped"} =>
          at'[q] = at[q] /\ job'[q] = job[q]
  BY DEF Elsewhere, ControlInv, TypeOK, JobsOK
<1>2. \A q \in Processes : at[q] \in {"releasing", "reclaim", "stopped"} => RunOf(q) \in Runs
  BY Working DEF Resting
<1>3. ReleasersFoundNone'
  BY <1>1, <1>2 DEF EndInv, ReleasersFoundNone, Harmless, RunOf, Processes
<1>4. StopInv'
  BY <1>1, <1>2 DEF EndInv, StopInv, Harmless, RunOf, Created
<1> QED BY <1>3, <1>4 DEF EndInv

\* A controller's steps: only the holder of the lease registers a launcher.
LEMMA ControllerEnds ==
  ASSUME ControlInv, ControlInv', EndInv, NEW c \in Controllers, ControllerStep(c) \/ Expire(c)
  PROVE  EndInv'
<1> c \in Processes
  BY DEF Processes
<1> USE DEF At, row, os
<1> DEFINE Open == Places \ {"releasing", "reclaim", "stopped"}
<1>o. Resting \cup (Followups \ {"stopped"}) \cup
         {"spawned", "loop", "checkpoint", "work", "register", "attached", "polling", "ended",
          "idle", "clearing", "release", "prepare", "cleanagent", "cleanlease", "spawn", "read",
          "set", "merge", "merged", "relaunch", "orphan", "confirm"} \subseteq Open
  BY DEF Places, Resting, Followups
<1>g. ASSUME NEW l \in Open,
             Goto(c, l) \/ Look(c, l) \/ Forget(c, l) \/ End(c, l) \/ \E t : Aim(c, l, t)
      PROVE  Elsewhere(c)
  BY <1>g, GoesElsewhere
<1>k. ASSUME Harmless, Elsewhere(c)
      PROVE  EndInv'
  BY <1>k, ElsewhereKeeps
<1>t. RowsOK /\ (at[c] \notin Resting => RunOf(c) \in Runs)
  BY Working DEF ControlInv, TypeOK
<1> HIDE DEF Open
<1>1. CASE AcquireProcessLease(c)
  <2>1. Harmless
    BY <1>1, <1>t DEF AcquireProcessLease, Harmless, RowsOK
  <2>2. Elsewhere(c)
    BY <1>1, <1>g, <1>o, LeavesElsewhere DEF AcquireProcessLease, Resting, Followups
  <2> QED BY <1>k, <2>1, <2>2
<1>2. CASE RunLoop(c)
  <2>1. Harmless
    BY <1>2, <1>t DEF RunLoop, Harmless, RowsOK
  <2>2. Elsewhere(c)
    BY <1>2, <1>g, <1>o, LeavesElsewhere DEF RunLoop, Resting, Followups
  <2> QED BY <1>k, <2>1, <2>2
<1>3. CASE CheckpointControl(c)
  <2>1. Harmless
    BY <1>3 DEF CheckpointControl, Harmless
  <2>2. desired[RunOf(c)] \in Desired
    BY <1>3, <1>t DEF CheckpointControl, RowsOK, Resting
  <2>3. \E l \in {"block", "work", "release", "stop", "loop"} : Goto(c, l)
    BY <1>3, <2>2 DEF CheckpointControl, Desired
  <2>4. Elsewhere(c)
    BY <1>g, <1>o, <2>3 DEF Followups
  <2> QED BY <1>k, <2>1, <2>4
<1>4. CASE PollControl(c)
  <2>1. Harmless
    BY <1>4, <1>t DEF PollControl, Harmless, RowsOK
  <2>2. Elsewhere(c)
    BY <1>4, <1>g, <1>o, LeavesElsewhere DEF PollControl, Resting, Followups
  <2> QED BY <1>k, <2>1, <2>2
<1>5. CASE Advance(c)
  <2>1. Harmless
    BY <1>5, <1>t DEF Advance, Harmless, RowsOK
  <2>2. Elsewhere(c)
    BY <1>5, <1>g, <1>o, LeavesElsewhere DEF Advance, Resting, Followups
  <2> QED BY <1>k, <2>1, <2>2
<1>6. CASE Deliver(c)
  <2>1. Harmless
    BY <1>6, <1>t DEF Deliver, Harmless, RowsOK
  <2>2. Elsewhere(c)
    BY <1>6, <1>g, <1>o, LeavesElsewhere DEF Deliver, Resting, Followups
  <2> QED BY <1>k, <2>1, <2>2
<1>7. CASE Raise(c)
  <2>1. Harmless
    BY <1>7, <1>t DEF Raise, Harmless, RowsOK
  <2>2. Elsewhere(c)
    BY <1>7, <1>g, <1>o, LeavesElsewhere DEF Raise, Resting, Followups
  <2> QED BY <1>k, <2>1, <2>2
<1>8. CASE \E a \in Launchers : Launch(c, a)
  <2>1. PICK a \in Launchers : Launch(c, a)
    BY <1>8
  <2>2. Harmless
    BY <1>t, <2>1 DEF Launch, Harmless, RowsOK
  <2>3. job'[c] \in Jobs \cup {None} /\ job \in [Processes -> Jobs \cup {None}]
    BY DEF ControlInv, TypeOK, JobsOK
  <2>4. at' = [at EXCEPT ![c] = "register"] /\ job' = [job EXCEPT ![c] = job'[c]]
    BY <2>1, <2>3 DEF Launch
  <2>5. Elsewhere(c)
    BY <1>o, <2>3, <2>4 DEF Elsewhere, Open
  <2> QED BY <1>k, <2>2, <2>5
<1>9. CASE SetActiveAgent(c)
  <2>1. Elsewhere(c)
    BY <1>9, <1>g, <1>o DEF SetActiveAgent, Followups
  <2>2. CASE agent' = agent
    <3>1. Harmless
      BY <1>9, <2>2 DEF SetActiveAgent, Harmless
    <3> QED BY <1>k, <2>1, <3>1
  <2>3. CASE lease[RunOf(c)] = c /\ agent' = [agent EXCEPT ![RunOf(c)] = Mine(c)]
    <3>1. UNCHANGED <<phase, ciError, claim>>
      BY <1>9 DEF SetActiveAgent
    <3>2. \A q \in Processes : at'[q] \in {"releasing", "reclaim", "stopped"} =>
              at'[q] = at[q] /\ job'[q] = job[q]
      BY <2>1 DEF Elsewhere, ControlInv, TypeOK, JobsOK
    <3>3. ASSUME NEW q \in Controllers, at'[q] = "releasing"
          PROVE  agent'[RunOf(q)'] = None
      <4>1. q \in Processes /\ at[q] = "releasing" /\ RunOf(q)' = RunOf(q) /\ RunOf(q) \in Runs
        BY <3>2, <3>3, Working DEF Processes, RunOf, Resting
      <4>2. lease[RunOf(q)] = q /\ agent[RunOf(q)] = None
        BY <4>1 DEF ControlInv, ControllerHoldsLease, Lives, EndInv, ReleasersFoundNone
      <4>3. q # c
        BY <1>9, <4>1 DEF SetActiveAgent
      <4> QED BY <1>t, <2>3, <4>1, <4>2, <4>3 DEF RowsOK
    <3>4. StopInv'
      BY <3>1, <3>2, Working DEF EndInv, StopInv, RunOf, Created
    <3> QED BY <3>3, <3>4 DEF EndInv, ReleasersFoundNone
  <2> QED BY <1>9, <2>2, <2>3 DEF SetActiveAgent
<1>10. CASE WriteStart(c)
  <2>1. Harmless
    BY <1>10, <1>t DEF WriteStart, Harmless, RowsOK
  <2>2. Elsewhere(c)
    BY <1>10, <1>g, <1>o, LeavesElsewhere DEF WriteStart, Resting, Followups
  <2> QED BY <1>k, <2>1, <2>2
<1>11. CASE Interrupt(c)
  <2>1. Harmless
    BY <1>11, <1>t DEF Interrupt, Harmless, RowsOK
  <2>2. Elsewhere(c)
    BY <1>11, <1>g, <1>o, LeavesElsewhere DEF Interrupt, Resting, Followups
  <2> QED BY <1>k, <2>1, <2>2
<1>12. CASE Collect(c)
  <2>1. Harmless
    BY <1>12, <1>t DEF Collect, Harmless, RowsOK
  <2>2. Elsewhere(c)
    BY <1>12, <1>g, <1>o, LeavesElsewhere DEF Collect, Resting, Followups
  <2> QED BY <1>k, <2>1, <2>2
<1>13. CASE AgentFinished(c)
  <2>1. Harmless
    BY <1>13, <1>t DEF AgentFinished, Harmless, RowsOK
  <2>2. job[c].then \in Outcomes
    BY <1>13 DEF AgentFinished, ControlInv, JobsFit
  <2>3. \E l \in Outcomes : Goto(c, l)
    BY <1>13, <2>2 DEF AgentFinished, Outcomes
  <2>4. Elsewhere(c)
    BY <1>g, <1>o, <2>3 DEF Outcomes, Followups
  <2> QED BY <1>k, <2>1, <2>4
<1>14. CASE AfterPause(c)
  <2>1. Harmless
    BY <1>14 DEF AfterPause, Harmless
  <2>2. desired[RunOf(c)] \in Desired
    BY <1>14, <1>t DEF AfterPause, RowsOK, Resting
  <2>3. \E l \in {"block", "work", "release", "stop", "loop"} : Goto(c, l)
    BY <1>14, <2>2 DEF AfterPause, Desired
  <2>4. Elsewhere(c)
    BY <1>g, <1>o, <2>3 DEF Followups
  <2> QED BY <1>k, <2>1, <2>4
<1>15. CASE Block(c)
  <2>1. Harmless
    BY <1>15, <1>t DEF Block, Harmless, RowsOK
  <2>2. Elsewhere(c)
    BY <1>15, <1>g, <1>o, LeavesElsewhere DEF Block, Resting, Followups
  <2> QED BY <1>k, <2>1, <2>2
<1>16. CASE MarkBlocked(c)
  <2>1. Harmless
    BY <1>16, <1>t DEF MarkBlocked, Harmless, RowsOK
  <2>2. Elsewhere(c)
    BY <1>16, <1>g, <1>o, LeavesElsewhere DEF MarkBlocked, Resting, Followups
  <2> QED BY <1>k, <2>1, <2>2
<1>17. CASE ReleaseProcessLease(c)
  <2>1. Harmless
    BY <1>17, <1>t DEF ReleaseProcessLease, Harmless, RowsOK
  <2>2. Elsewhere(c)
    BY <1>17, <1>g, <1>o, LeavesElsewhere DEF ReleaseProcessLease, Resting, Followups
  <2> QED BY <1>k, <2>1, <2>2
<1>18. CASE Expire(c)
  <2>1. Harmless
    BY <1>18, <1>t DEF Expire, Harmless, RowsOK
  <2>2. Elsewhere(c)
    BY <1>18, <1>g, <1>o, LeavesElsewhere DEF Expire, Resting, Followups
  <2> QED BY <1>k, <2>1, <2>2
<1> QED
  BY <1>1, <1>2, <1>3, <1>4, <1>5, <1>6, <1>7, <1>8, <1>9, <1>10, <1>11, <1>12, <1>13, <1>14, <1>15, <1>16, <1>17, <1>18 DEF ControllerStep

\* A command's steps: only a run that an older release left blocked is reclaimed.
LEMMA CommandEnds ==
  ASSUME ControlInv, ControlInv', EndInv, NEW p \in Commands, 
         ReadRun(p) \/ SetDesiredState(p) \/ StopOrphanProcess(p) \/ ConfirmContainment(p) \/ PrepareProcessLaunch(p)
         \/ ClearStaleProcessState(p) \/ ClearStaleProcessLease(p) \/ Relaunch(p) \/ AcceptMerge(p) \/ MarkMerged(p) \/ Reclaim(p)
  PROVE  EndInv'
<1> p \in Processes
  BY DEF Processes
<1> USE DEF At, row, os
<1> DEFINE Open == Places \ {"releasing", "reclaim", "stopped"}
<1>o. Resting \cup (Followups \ {"stopped"}) \cup
         {"spawned", "loop", "checkpoint", "work", "register", "attached", "polling", "ended",
          "idle", "clearing", "release", "prepare", "cleanagent", "cleanlease", "spawn", "read",
          "set", "merge", "merged", "relaunch", "orphan", "confirm"} \subseteq Open
  BY DEF Places, Resting, Followups
<1>g. ASSUME NEW l \in Open,
             Goto(p, l) \/ Look(p, l) \/ Forget(p, l) \/ End(p, l) \/ \E t : Aim(p, l, t)
      PROVE  Elsewhere(p)
  BY <1>g, GoesElsewhere
<1>k. ASSUME Harmless, Elsewhere(p)
      PROVE  EndInv'
  BY <1>k, ElsewhereKeeps
<1>t. RowsOK /\ (at[p] \notin Resting => RunOf(p) \in Runs)
  BY Working DEF ControlInv, TypeOK
<1> HIDE DEF Open
<1>1. CASE ReadRun(p)
  <2>1. Harmless
    BY <1>1 DEF ReadRun, Harmless
  <2>2. CASE Leave(p) \/ Look(p, "set") \/ Goto(p, "merge")
    BY <1>g, <1>k, <1>o, <2>1, <2>2, LeavesElsewhere
  <2>3. CASE Goto(p, "reclaim") /\ ciError[RunOf(p)]
    <3>1. RunOf(p) \notin Created
      BY <1>1, <1>t, <2>3 DEF ReadRun, EndInv, StopInv, Created, Resting
    <3>2. at' = [at EXCEPT ![p] = "reclaim"] /\ job' = job
      BY <2>3 DEF Goto
    <3>3. UNCHANGED row
      BY <1>1 DEF ReadRun
    <3>4. ReleasersFoundNone'
      BY <3>2, <3>3 DEF EndInv, ReleasersFoundNone, RunOf, Processes, ControlInv, TypeOK, JobsOK
    <3>5. StopInv'
      BY <3>1, <3>2, <3>3 DEF EndInv, StopInv, RunOf, Created, ControlInv, TypeOK, JobsOK
    <3> QED BY <3>4, <3>5 DEF EndInv
  <2> QED BY <1>1, <2>2, <2>3 DEF ReadRun, Route
<1>2. CASE SetDesiredState(p)
  <2>1. Harmless
    BY <1>2, <1>t DEF SetDesiredState, Harmless, RowsOK
  <2>2. Elsewhere(p)
    BY <1>2, <1>g, <1>o, LeavesElsewhere DEF SetDesiredState, Resting, Followups
  <2> QED BY <1>k, <2>1, <2>2
<1>3. CASE StopOrphanProcess(p)
  <2>1. Harmless
    BY <1>3, <1>t DEF StopOrphanProcess, Harmless, RowsOK
  <2>2. Elsewhere(p)
    BY <1>3, <1>g, <1>o, LeavesElsewhere DEF StopOrphanProcess, AfterOrphan, Resting, Followups
  <2> QED BY <1>k, <2>1, <2>2
<1>4. CASE ConfirmContainment(p)
  <2>1. Harmless
    BY <1>4, <1>t DEF ConfirmContainment, Harmless, RowsOK
  <2>2. Elsewhere(p)
    BY <1>4, <1>g, <1>o, LeavesElsewhere DEF ConfirmContainment, AfterOrphan, Resting, Followups
  <2> QED BY <1>k, <2>1, <2>2
<1>5. CASE PrepareProcessLaunch(p)
  <2>1. Harmless
    BY <1>5, <1>t DEF PrepareProcessLaunch, Harmless, RowsOK
  <2>2. Elsewhere(p)
    BY <1>5, <1>g, <1>o, LeavesElsewhere DEF PrepareProcessLaunch, Resting, Followups
  <2> QED BY <1>k, <2>1, <2>2
<1>6. CASE ClearStaleProcessState(p)
  <2>1. Harmless
    BY <1>6, <1>t DEF ClearStaleProcessState, Harmless, RowsOK
  <2>2. Elsewhere(p)
    BY <1>6, <1>g, <1>o, LeavesElsewhere DEF ClearStaleProcessState, AfterTidy, Resting, Followups
  <2> QED BY <1>k, <2>1, <2>2
<1>7. CASE ClearStaleProcessLease(p)
  <2>1. Harmless
    BY <1>7, <1>t DEF ClearStaleProcessLease, Harmless, RowsOK
  <2>2. Elsewhere(p)
    BY <1>7, <1>g, <1>o, LeavesElsewhere DEF ClearStaleProcessLease, AfterTidy, Resting, Followups
  <2> QED BY <1>k, <2>1, <2>2
<1>8. CASE Relaunch(p)
  <2>1. Harmless
    BY <1>8, <1>t DEF Relaunch, Harmless, RowsOK
  <2>2. Elsewhere(p)
    BY <1>8, <1>g, <1>o, LeavesElsewhere DEF Relaunch, Resting, Followups
  <2> QED BY <1>k, <2>1, <2>2
<1>9. CASE AcceptMerge(p)
  <2>1. Harmless
    BY <1>9, <1>t DEF AcceptMerge, Harmless, RowsOK
  <2>2. Elsewhere(p)
    BY <1>9, <1>g, <1>o, LeavesElsewhere DEF AcceptMerge, Resting, Followups
  <2> QED BY <1>k, <2>1, <2>2
<1>10. CASE MarkMerged(p)
  <2>1. Harmless
    BY <1>10, <1>t DEF MarkMerged, Harmless, RowsOK
  <2>2. Elsewhere(p)
    BY <1>10, <1>g, <1>o, LeavesElsewhere DEF MarkMerged, Resting, Followups
  <2> QED BY <1>k, <2>1, <2>2
<1>11. CASE Reclaim(p)
  <2>1. Elsewhere(p)
    BY <1>11, <1>g, <1>o, LeavesElsewhere DEF Reclaim
  <2>2. RunOf(p) \in Runs /\ RunOf(p) \notin Created
    BY <1>11, <1>t DEF Reclaim, EndInv, StopInv, Resting
  <2>3. /\ agent' = agent
        /\ \A r \in Runs : r # RunOf(p) =>
              phase'[r] = phase[r] /\ ciError'[r] = ciError[r] /\ claim'[r] = claim[r]
    BY <1>11, <1>t, <2>2 DEF Reclaim, RowsOK
  <2>4. \A q \in Processes : at'[q] \in {"releasing", "reclaim", "stopped"} =>
            at'[q] = at[q] /\ job'[q] = job[q] /\ RunOf(q) \in Runs
    BY <2>1, Working DEF Elsewhere, ControlInv, TypeOK, JobsOK, Resting
  <2>5. ReleasersFoundNone'
    BY <2>3, <2>4 DEF EndInv, ReleasersFoundNone, RunOf, Processes
  <2>6. StopInv'
    BY <2>2, <2>3, <2>4 DEF EndInv, StopInv, RunOf, Created
  <2> QED BY <2>5, <2>6 DEF EndInv
<1> QED
  BY <1>1, <1>2, <1>3, <1>4, <1>5, <1>6, <1>7, <1>8, <1>9, <1>10, <1>11

\* Stopping and releasing.
LEMMA SharedEnds ==
  ASSUME ControlInv, ControlInv', EndInv, NEW p \in Processes, SharedStep(p)
  PROVE  EndInv'
<1> p \in Processes
  BY DEF Processes
<1> USE DEF At, row, os
<1> DEFINE Open == Places \ {"releasing", "reclaim", "stopped"}
<1>o. Resting \cup (Followups \ {"stopped"}) \cup
         {"spawned", "loop", "checkpoint", "work", "register", "attached", "polling", "ended",
          "idle", "clearing", "release", "prepare", "cleanagent", "cleanlease", "spawn", "read",
          "set", "merge", "merged", "relaunch", "orphan", "confirm"} \subseteq Open
  BY DEF Places, Resting, Followups
<1>g. ASSUME NEW l \in Open,
             Goto(p, l) \/ Look(p, l) \/ Forget(p, l) \/ End(p, l) \/ \E t : Aim(p, l, t)
      PROVE  Elsewhere(p)
  BY <1>g, GoesElsewhere
<1>k. ASSUME Harmless, Elsewhere(p)
      PROVE  EndInv'
  BY <1>k, ElsewhereKeeps
<1>t. RowsOK /\ (at[p] \notin Resting => RunOf(p) \in Runs)
  BY Working DEF ControlInv, TypeOK
<1> HIDE DEF Open
<1>1. CASE StopRun(p)
  <2>1. Harmless
    BY <1>1 DEF StopRun, Harmless
  <2>2. Elsewhere(p)
    BY <1>1, <1>g, <1>o, LeavesElsewhere DEF StopRun
  <2> QED BY <1>k, <2>1, <2>2
<1>e. ASSUME UNCHANGED <<phase, ciError, claim>>, at' = [at EXCEPT ![p] = "releasing"],
             \A r \in Runs : agent'[r] \in {agent[r], None},
             RunOf(p) \in Runs, RunOf(p)' = RunOf(p), agent'[RunOf(p)] = None,
             \A q \in Processes : q # p => job'[q] = job[q]
      PROVE  EndInv'
  <2>1. \A q \in Processes : q # p => at'[q] = at[q] /\ RunOf(q)' = RunOf(q)
    BY <1>e DEF ControlInv, TypeOK, JobsOK, RunOf
  <2>2. \A q \in Processes : at[q] = "releasing" => RunOf(q) \in Runs
    BY Working DEF Resting
  <2>3. ReleasersFoundNone'
    BY <1>e, <2>1, <2>2 DEF EndInv, ReleasersFoundNone, Processes
  <2>4. at'[p] = "releasing"
    BY <1>e DEF ControlInv, TypeOK, JobsOK
  <2>5. StopInv'
    BY <1>e, <2>1, <2>4 DEF EndInv, StopInv, Created
  <2> QED BY <2>3, <2>5 DEF EndInv
<1>2. CASE CheckIdle(p)
  <2>1. CASE Goto(p, "releasing") /\ agent[RunOf(p)] = None
    <3>1. RunOf(p) \in Runs /\ UNCHANGED row
      BY <1>2, <1>t DEF CheckIdle, Resting
    <3>2. at' = [at EXCEPT ![p] = "releasing"] /\ job' = job
      BY <2>1 DEF Goto
    <3> QED BY <1>e, <2>1, <3>1, <3>2 DEF RunOf
  <2>2. CASE Look(p, "clearing") \/ Goto(p, "block") \/ Goto(p, "tidy") \/ Leave(p)
    <3>1. Harmless
      BY <1>2 DEF CheckIdle, Harmless
    <3>2. Elsewhere(p)
      BY <1>g, <1>o, <2>2, LeavesElsewhere DEF Followups
    <3> QED BY <1>k, <3>1, <3>2
  <2> QED BY <1>2, <2>1, <2>2 DEF CheckIdle
<1>3. CASE ClearStaleActiveAgent(p)
  <2>1. CASE Forget(p, "releasing") /\ agent' = [agent EXCEPT ![RunOf(p)] = None]
    <3>1. RunOf(p) \in Runs /\ UNCHANGED <<phase, ciError, claim>>
      BY <1>3, <1>t DEF ClearStaleActiveAgent, Resting
    <3>2. \A r \in Runs : agent'[r] \in {agent[r], None}
      BY <1>t, <2>1 DEF RowsOK
    <3>3. agent'[RunOf(p)] = None
      BY <1>t, <2>1, <3>1 DEF RowsOK
    <3>4. job[p] \in Jobs /\ job' = [job EXCEPT ![p].saw = None]
      BY <1>3, <2>1, Working DEF ClearStaleActiveAgent, Forget, Resting
    <3>5. RunOf(p)' = RunOf(p) /\ \A q \in Processes : q # p => job'[q] = job[q]
      BY <3>4 DEF RunOf, Jobs, ControlInv, TypeOK, JobsOK
    <3>6. at' = [at EXCEPT ![p] = "releasing"]
      BY <2>1 DEF Forget
    <3> QED BY <1>e, <3>1, <3>2, <3>3, <3>5, <3>6
  <2>2. CASE Goto(p, "cleanlease") \/ Goto(p, "block") \/ Leave(p)
    <3>1. Harmless
      BY <1>3, <1>t DEF ClearStaleActiveAgent, Harmless, RowsOK
    <3>2. Elsewhere(p)
      BY <1>g, <1>o, <2>2, LeavesElsewhere DEF Followups
    <3> QED BY <1>k, <3>1, <3>2
  <2> QED BY <1>3, <2>1, <2>2 DEF ClearStaleActiveAgent
<1>4. CASE ReleaseClaim(p)
  <2>1. Harmless
    BY <1>4, <1>t DEF ReleaseClaim, Harmless, RowsOK
  <2>2. CASE Goto(p, "tidy") \/ Leave(p)
    BY <1>g, <1>k, <1>o, <2>1, <2>2, LeavesElsewhere DEF Followups
  <2>3. CASE Goto(p, "stopped")
    <3>1. at' = [at EXCEPT ![p] = "stopped"] /\ job' = job
      BY <2>3 DEF Goto
    <3>2. RunOf(p) \in Runs /\ claim' = [claim EXCEPT ![RunOf(p)] = FALSE]
          /\ UNCHANGED <<agent, phase, ciError>>
      BY <1>4, <1>t DEF ReleaseClaim, Resting
    <3>3. ReleasersFoundNone'
      BY <3>1, <3>2 DEF EndInv, ReleasersFoundNone, RunOf, Processes, ControlInv, TypeOK, JobsOK
    <3>4. \A q \in Processes : at[q] = "stopped" => RunOf(q) \in Runs
      BY Working DEF Resting
    <3>5. StopInv'
      BY <1>t, <3>1, <3>2, <3>4
         DEF EndInv, StopInv, RunOf, Created, RowsOK, ControlInv, TypeOK, JobsOK
    <3> QED BY <3>3, <3>5 DEF EndInv
  <2> QED BY <1>4, <2>2, <2>3 DEF ReleaseClaim
<1>5. CASE MarkStopped(p)
  <2>1. Elsewhere(p)
    BY <1>5, LeavesElsewhere DEF MarkStopped
  <2>2. RunOf(p) \in Runs /\ (RunOf(p) \in Created => ~claim[RunOf(p)])
    BY <1>5, <1>t DEF MarkStopped, EndInv, StopInv, Resting
  <2>3. UNCHANGED <<agent, ciError, claim>> /\ phase' = [phase EXCEPT ![RunOf(p)] = "STOPPED"]
    BY <1>5 DEF MarkStopped
  <2>4. \A q \in Processes : at'[q] \in {"releasing", "reclaim", "stopped"} =>
            at'[q] = at[q] /\ job'[q] = job[q]
    BY <2>1 DEF Elsewhere, ControlInv, TypeOK, JobsOK
  <2>5. ReleasersFoundNone'
    BY <2>3, <2>4 DEF EndInv, ReleasersFoundNone, RunOf, Processes
  <2>6. StopInv'
    BY <1>t, <2>2, <2>3, <2>4 DEF EndInv, StopInv, RunOf, Created, RowsOK
  <2> QED BY <2>5, <2>6 DEF EndInv
<1> QED BY <1>1, <1>2, <1>3, <1>4, <1>5 DEF SharedStep

\* A run is created when no process can have a job for it.
LEMMA StartEnds ==
  ASSUME ControlInv, ControlInv', EndInv, NEW p \in Commands, NEW r \in Runs, Start(p, r)
  PROVE  EndInv'
<1>1. p \in Processes /\ RowsOK /\ JobsOK
  BY DEF Processes, ControlInv, TypeOK
<1>2. \A q \in Processes : at'[q] \in {"releasing", "reclaim", "stopped"} =>
          at'[q] = at[q] /\ job'[q] = job[q] /\ RunOf(q) \in Runs /\ RunOf(q) # r
  <2>1. at' = [at EXCEPT ![p] = "prepare"] /\ phase[r] = None
    BY DEF Start
  <2>2. \A q \in Processes \ {p} : job'[q] = job[q]
    BY <1>1 DEF Start, JobsOK
  <2> QED BY <1>1, <2>1, <2>2, Working DEF JobsOK, Resting
<1>3. UNCHANGED <<agent, ciError>> /\ phase' = [phase EXCEPT ![r] = "WORKING"]
      /\ claim' = [claim EXCEPT ![r] = TRUE]
  BY DEF Start
<1>4. ReleasersFoundNone'
  BY <1>2, <1>3 DEF EndInv, ReleasersFoundNone, RunOf, Processes
<1>5. StopInv'
  BY <1>1, <1>2, <1>3 DEF EndInv, StopInv, RunOf, Created, RowsOK
<1> QED BY <1>4, <1>5 DEF EndInv

\* Orders, deaths, the start of a controller and the launchers change nothing of the kind.
LEMMA OthersEnd ==
  ASSUME ControlInv, ControlInv', EndInv,
         \/ \E c \in Controllers : Crash(c)
         \/ \E p \in Commands : Abort(p)
         \/ \E p \in Commands, r \in Runs, goal \in Desired : Order(p, r, goal)
         \/ \E p \in Commands, c \in Controllers : SpawnBackground(p, c)
         \/ \E a \in Launchers : LauncherStep(a)
         \/ UNCHANGED vars
  PROVE  EndInv'
<1>1. UNCHANGED row
  BY DEF Crash, Abort, Order, SpawnBackground, LauncherStep, PassBarrier, LauncherEnds, Contain, vars
<1>2. at \in [Processes -> Places] /\ job \in [Processes -> Jobs \cup {None}]
  BY DEF ControlInv, TypeOK, JobsOK
<1>3. \A q \in Processes : at'[q] \in {"releasing", "reclaim", "stopped"} =>
          at'[q] = at[q] /\ job'[q] = job[q]
  <2>1. CASE \/ \E c \in Controllers : Crash(c)
             \/ \E p \in Commands : Abort(p)
             \/ \E p \in Commands, r \in Runs, goal \in Desired : Order(p, r, goal)
    BY <1>2, <2>1 DEF Crash, Abort, Order, End, Processes
  <2>2. CASE \E p \in Commands, c \in Controllers : SpawnBackground(p, c)
    <3>1. PICK p \in Commands, c \in Controllers : SpawnBackground(p, c)
      BY <2>2
    <3>2. p \in Processes /\ c \in Processes /\ p # c
      BY IdentityAssumption DEF Processes
    <3>3. at'[p] = "free" /\ at'[c] = "spawned"
          /\ \A q \in Processes \ {p, c} : at'[q] = at[q] /\ job'[q] = job[q]
      BY <1>2, <3>1, <3>2 DEF SpawnBackground
    <3> QED BY <3>2, <3>3
  <2>3. CASE (\E a \in Launchers : LauncherStep(a)) \/ UNCHANGED vars
    BY <2>3 DEF LauncherStep, PassBarrier, LauncherEnds, Contain, vars, local
  <2> QED BY <2>1, <2>2, <2>3
<1>4. ReleasersFoundNone'
  BY <1>1, <1>3 DEF EndInv, ReleasersFoundNone, RunOf, Processes, row
<1>5. StopInv'
  BY <1>1, <1>3 DEF EndInv, StopInv, RunOf, Created, row
<1> QED BY <1>4, <1>5 DEF EndInv

LEMMA EndInit == Init => EndInv
<1> SUFFICES ASSUME Init PROVE EndInv
  OBVIOUS
<1>1. \A p \in Processes : at[p] \in {"unborn", "free"}
  BY DEF Init
<1>2. \A r \in Created : ~ciError[r] /\ phase[r] = None
  BY DEF Init, Created
<1>3. None # "STOPPED"
  BY IdentityAssumption DEF Phases
<1> QED
  BY <1>1, <1>2, <1>3 DEF EndInv, ReleasersFoundNone, StopInv, Processes

LEMMA EndNext ==
  ASSUME ControlInv, ControlInv', EndInv, [Next]_vars
  PROVE  EndInv'
BY ControllerEnds, CommandEnds, SharedEnds, StartEnds, OthersEnd DEF Next, CommandStep

\* A controller never releases the claim of a run whose worktree a model may still write:
\* from its look at the row to the release its lease keeps every launcher from being
\* registered, whatever any number of commands do meanwhile (_release_claim_if_agent_idle,
\* set_active_agent).
THEOREM ControllersReleaseIdleWorktrees ==
  ASSUME QuickResume = FALSE
  PROVE  Spec => []ControllersReleaseIdle
<1> DEFINE Inv == ControlInv /\ RegisterInv /\ EndInv
<1>1. Init => Inv
  BY ControlInit, RegisterInit, EndInit
<1>2. Inv /\ [Next]_vars => Inv'
  BY ControlNext, RegisterNext, EndNext
<1>3. Inv => ControllersReleaseIdle
  <2> SUFFICES ASSUME Inv, NEW c \in Controllers, At(c, "releasing"),
                      NEW a \in Launchers, home[a] = RunOf(c), proc[a] \in Writing
               PROVE  FALSE
    BY DEF ControllersReleaseIdle
  <2>1. agent[RunOf(c)] = None
    BY DEF EndInv, ReleasersFoundNone, At
  <2>2. agent[RunOf(c)] = a
    BY DEF RegisterInv, WriterIsRegistered
  <2> QED BY <2>1, <2>2, IdentityAssumption
<1> QED BY <1>1, <1>2, <1>3, PTL DEF Spec

\* A stop gives the claim up before it writes STOPPED, and no pause, resume, block,
\* delivery, clearing or crash in between, of any number of operators and controllers,
\* gives a stopped run its claim back (_stop_run, set_control, resume_run).
THEOREM StoppedRunsHoldNoClaim == Spec => []StoppedHoldsNoClaim
<1> DEFINE Inv == ControlInv /\ EndInv
<1>1. Init => Inv
  BY ControlInit, EndInit
<1>2. Inv /\ [Next]_vars => Inv'
  BY ControlNext, EndNext
<1>3. Inv => StoppedHoldsNoClaim
  BY DEF EndInv, StopInv, Created, StoppedHoldsNoClaim
<1> QED BY <1>1, <1>2, <1>3, PTL DEF Spec
=============================================================================

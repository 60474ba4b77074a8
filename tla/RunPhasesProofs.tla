--------------------------- MODULE RunPhasesProofs ----------------------------
(***************************************************************************)
(* Proofs about the work of one run, for any number of fix rounds, agents, *)
(* tokens and dying controllers.                                           *)
(***************************************************************************)
EXTENDS Orchestrator, SequenceTheorems, FiniteSetTheorems, TLAPS

-----------------------------------------------------------------------------
(* Types *)

PhaseNames == {"CREATED", "CLAIMED", "WORKER_RUNNING", "WORKER_COMPLETE", "CI_WAITING",
               "REVIEW_RUNNING", "FIX_REQUESTED", "READY_FOR_OWNER", "OWNER_MERGED",
               "COMPLETED", "BLOCKED"}

Heads  == Nat \cup {NoHead}
Rounds == 0..MaxFixRounds

RunRows == [phase : PhaseNames, head : Heads, reviewed : Heads, begun : Heads, parent : Heads,
          ci : Heads, fix : Rounds, inv : 0..MaxInvocations]

Outcomes     == {"none"} \cup Results("worker") \cup Results("reviewer")
EventStreams == [role : Roles, head : Nat, done : BOOLEAN, res : Outcomes, names : Heads, used : Nat]

\* Where a controller may be in each phase.
AtWork     == {"spawn", "agent", "account", "raise", "commit", "committed", "recorded"}
AtReview   == {"review", "spawnReview", "agent", "account", "raise", "verdict", "decide", "changes"}
AtPublish  == {"unmark", "published", "forgotten"}
AtGate     == {"passed", "requested"}
ControllerPlaces == {"loop", "gone", "marked", "unbegin"} \cup AtWork \cup AtReview \cup AtPublish \cup AtGate

PhaseTypeOK ==
    /\ run \in RunRows
    /\ ledger \subseteq [inv : (Roles \X Rounds) \X (0..MaxInvocations), stream : Nat]
    /\ tree \in [head : Nat, dirty : BOOLEAN]
    /\ streams \in Seq(EventStreams)
    /\ files \in [Roles \X Rounds -> Nat]
    /\ requests \in [Rounds -> Heads]
    /\ pull \in [head : Heads, merged : BOOLEAN]
    /\ pc \in ControllerPlaces
    /\ mem \in [stream : Nat, by : {"live", "found", "committed"}]
    /\ cumulative \in BOOLEAN /\ deaths \in Nat

\* The phase the row shows while the controller is somewhere.
PhaseOfPlace ==
    /\ pc = "marked" => run.phase \in {"CLAIMED", "FIX_REQUESTED"}
    /\ pc \in AtWork \ AtReview => run.phase = "WORKER_RUNNING"
    /\ pc \in AtReview \ AtWork => run.phase = "REVIEW_RUNNING"
    /\ pc \in AtWork \cap AtReview => run.phase \in {"WORKER_RUNNING", "REVIEW_RUNNING"}
    /\ pc \in AtPublish => run.phase = "WORKER_COMPLETE"
    /\ pc \in AtGate => run.phase = "CI_WAITING"
    /\ pc = "requested" => run.fix < MaxFixRounds
    /\ pc = "unbegin" => run.phase \in {"FIX_REQUESTED", "READY_FOR_OWNER"}

RoleOfPhase == IF run.phase = "WORKER_RUNNING" THEN "worker" ELSE "reviewer"

\* An events file is that of a stream of its role; a controller with an agent, or with a
\* stream in hand, has the one that belongs to the phase and round.
FilesAreOfRole ==
    \A x \in Roles \X Rounds : files[x] # 0 =>
        files[x] \in DOMAIN streams /\ streams[files[x]].role = x[1]

StreamInHand ==
    /\ pc = "agent" => /\ Len(streams) # 0 /\ Stream(RoleOfPhase) = Len(streams)
                       /\ ~streams[Len(streams)].done
    /\ pc \in {"account", "commit", "verdict", "decide"} =>
          mem.stream = Stream(RoleOfPhase) /\ Finished(mem.stream)
    /\ pc = "changes" =>
          /\ run.fix # 0 /\ mem.stream = files[<<"reviewer", run.fix - 1>>]
          /\ Finished(mem.stream)

PlaceInv == PhaseTypeOK /\ PhaseOfPlace /\ FilesAreOfRole /\ StreamInHand

\* The steps that write the row alone, or nothing.
RowSteps == \/ CreateWorktree \/ StartWorker \/ WorkerRuns \/ CommitFails \/ CommitFound
            \/ RecordHead \/ WorkerCompletes \/ Unmark
            \/ ForgetEvidence \/ AwaitCi \/ CiPasses \/ AwaitReview \/ RecordCiFix
            \/ StartReview \/ Verdict \/ RequestChanges \/ Decide \/ Unbegin
            \/ Reconcile \/ MainDelivery \/ TakesOver \/ Fails

PhaseSteps == \/ RowSteps \/ RecoverWorker \/ Review
              \/ Spawn \/ AgentEnds \/ Account \/ Commit \/ Publish \/ CiFails \/ OwnerMerges \/ Dies

LEMMA StepsOfPhaseNext == PhaseNext => PhaseSteps
  BY DEF PhaseNext, PhaseSteps, RowSteps, Work, Gate, Judge, Owner

LEMMA RowStepsWriteTheRow ==
  RowSteps => UNCHANGED <<ledger, tree, streams, files, requests, pull, mem, cumulative, deaths>>
  BY DEF RowSteps, CreateWorktree, StartWorker, WorkerRuns, CommitFails, CommitFound, RecordHead,
         WorkerCompletes, Unmark, ForgetEvidence, AwaitCi, CiPasses, AwaitReview, RecordCiFix,
         StartReview, Verdict, RequestChanges, Decide, Unbegin, Reconcile, MainDelivery,
         TakesOver, Fails, Blocks, Reopen, Keep, store

LEMMA PlaceInit == PhaseInit => PlaceInv
  BY BudgetAssumption
  DEF PhaseInit, PlaceInv, PhaseTypeOK, PhaseOfPlace, FilesAreOfRole, StreamInHand, RunRows,
      PhaseNames, Heads, NoHead, Base, Rounds, Roles, ControllerPlaces, AtWork, AtReview,
      AtPublish, AtGate

\* A row with another value in one column.
LEMMA ColumnTypes ==
  ASSUME NEW r \in RunRows
  PROVE  /\ \A x \in PhaseNames : [r EXCEPT !.phase = x] \in RunRows
         /\ \A x \in Heads :
              /\ [r EXCEPT !.head = x] \in RunRows /\ [r EXCEPT !.reviewed = x] \in RunRows
              /\ [r EXCEPT !.begun = x] \in RunRows /\ [r EXCEPT !.parent = x] \in RunRows
              /\ [r EXCEPT !.ci = x] \in RunRows
         /\ \A x \in Rounds : [r EXCEPT !.fix = x] \in RunRows
         /\ \A x \in 0..MaxInvocations : [r EXCEPT !.inv = x] \in RunRows
<1>1. \A x \in PhaseNames : [r EXCEPT !.phase = x] \in RunRows
  BY DEF RunRows
<1>2. \A x \in Heads : [r EXCEPT !.head = x] \in RunRows /\ [r EXCEPT !.reviewed = x] \in RunRows
  BY DEF RunRows
<1>3. \A x \in Heads : [r EXCEPT !.begun = x] \in RunRows /\ [r EXCEPT !.parent = x] \in RunRows
  BY DEF RunRows
<1>4. \A x \in Heads : [r EXCEPT !.ci = x] \in RunRows
  BY DEF RunRows
<1>5. \A x \in Rounds : [r EXCEPT !.fix = x] \in RunRows
  BY DEF RunRows
<1>6. \A x \in 0..MaxInvocations : [r EXCEPT !.inv = x] \in RunRows
  BY DEF RunRows
<1> QED
  BY <1>1, <1>2, <1>3, <1>4, <1>5, <1>6

KeepsHead     == run'.head = run.head
KeepsRound    == run'.parent = run.parent /\ run'.fix = run.fix /\ run'.inv = run.inv
KeepsEvidence == run'.reviewed = run.reviewed /\ run'.ci = run.ci /\ run'.begun = run.begun
ShiftsTo(p)   == run'.phase = p /\ KeepsHead /\ KeepsRound /\ KeepsEvidence

\* A step that writes the phase alone.
LEMMA PhaseIsWritten ==
  ASSUME run \in RunRows, NEW p \in PhaseNames, Set([run EXCEPT !.phase = p])
  PROVE  run' \in RunRows /\ ShiftsTo(p)
<1>1. run' \in RunRows
  BY ColumnTypes DEF Set
<1>2. ShiftsTo(p)
  BY DEF Set, RunRows, ShiftsTo, KeepsHead, KeepsRound, KeepsEvidence
<1> QED
  BY <1>1, <1>2

LEMMA PhaseWriters ==
  ASSUME run \in RunRows
  PROVE  /\ CreateWorktree => run' \in RunRows /\ ShiftsTo("CLAIMED")
         /\ WorkerRuns => run' \in RunRows /\ ShiftsTo("WORKER_RUNNING")
         /\ Reopen => run' \in RunRows /\ (run.fix = 0 => ShiftsTo("CLAIMED"))
                        /\ (run.fix # 0 => ShiftsTo("FIX_REQUESTED"))
         /\ WorkerCompletes => run' \in RunRows /\ ShiftsTo("WORKER_COMPLETE")
         /\ AwaitCi => run' \in RunRows /\ ShiftsTo("CI_WAITING")
         /\ AwaitReview => run' \in RunRows /\ ShiftsTo("REVIEW_RUNNING")
         /\ Decide => run' \in RunRows /\ (pc = "changes" => ShiftsTo("FIX_REQUESTED"))
                        /\ (pc # "changes" => ShiftsTo("READY_FOR_OWNER"))
         /\ Reconcile => run' \in RunRows /\ ShiftsTo("OWNER_MERGED")
         /\ MainDelivery => run' \in RunRows /\ ShiftsTo("COMPLETED")
         /\ Fails => run' \in RunRows /\ ShiftsTo("BLOCKED")
<1> DEFINE q == IF run.fix = 0 THEN "CLAIMED" ELSE "FIX_REQUESTED"
<1> USE PhaseIsWritten
<1>1. CreateWorktree => run' \in RunRows /\ ShiftsTo("CLAIMED")
  BY DEF CreateWorktree, PhaseNames
<1>2. WorkerRuns => run' \in RunRows /\ ShiftsTo("WORKER_RUNNING")
  BY DEF WorkerRuns, PhaseNames
<1>3. ASSUME Reopen
      PROVE  run' \in RunRows /\ ShiftsTo(q)
  <2>1. q \in PhaseNames /\ Set([run EXCEPT !.phase = q])
    BY <1>3 DEF Reopen, PhaseNames
  <2> HIDE DEF q
  <2> QED
    BY <2>1
<1>4. WorkerCompletes => run' \in RunRows /\ ShiftsTo("WORKER_COMPLETE")
  BY DEF WorkerCompletes, PhaseNames
<1>5. AwaitCi => run' \in RunRows /\ ShiftsTo("CI_WAITING")
  BY DEF AwaitCi, PhaseNames
<1>6. AwaitReview => run' \in RunRows /\ ShiftsTo("REVIEW_RUNNING")
  BY DEF AwaitReview, PhaseNames
<1>7. Decide => run' \in RunRows /\ (pc = "changes" => ShiftsTo("FIX_REQUESTED"))
                  /\ (pc # "changes" => ShiftsTo("READY_FOR_OWNER"))
  BY DEF Decide, PhaseNames
<1>8. Reconcile => run' \in RunRows /\ ShiftsTo("OWNER_MERGED")
  BY DEF Reconcile, PhaseNames
<1>9. MainDelivery => run' \in RunRows /\ ShiftsTo("COMPLETED")
  BY DEF MainDelivery, PhaseNames
<1>10. Fails => run' \in RunRows /\ ShiftsTo("BLOCKED")
  BY DEF Fails, Blocks, PhaseNames
<1> QED
  BY <1>1, <1>2, <1>3, <1>4, <1>5, <1>6, <1>7, <1>8, <1>9, <1>10

\* The steps that write other columns.
LEMMA ColumnWriters ==
  ASSUME PhaseTypeOK
  PROVE  /\ StartWorker =>
              /\ run' \in RunRows /\ run'.phase = run.phase /\ KeepsHead /\ KeepsEvidence
              /\ run'.fix = run.fix /\ run'.inv = run.inv + 1 /\ run'.parent = tree.head
         /\ RecordHead =>
              /\ run' \in RunRows /\ run'.phase = run.phase /\ KeepsRound
              /\ run'.head = tree.head /\ run'.ci = run.ci /\ run'.begun = run.begun
         /\ Unmark =>
              /\ run' \in RunRows /\ run'.phase = run.phase /\ KeepsHead /\ KeepsEvidence
              /\ run'.fix = run.fix /\ run'.inv = run.inv
         /\ ForgetEvidence =>
              /\ run' \in RunRows /\ run'.phase = run.phase /\ KeepsHead /\ KeepsRound
         /\ CiPasses =>
              /\ run' \in RunRows /\ run'.phase = run.phase /\ KeepsHead /\ KeepsRound
              /\ run'.ci = run.head
         /\ RecordCiFix /\ run.fix < MaxFixRounds =>
              /\ run' \in RunRows /\ run'.phase = "FIX_REQUESTED" /\ KeepsHead
              /\ run'.fix = run.fix + 1 /\ run'.inv = run.inv
         /\ StartReview =>
              /\ run' \in RunRows /\ run'.phase = run.phase /\ KeepsHead
              /\ run'.parent = run.parent /\ run'.fix = run.fix /\ run'.inv = run.inv + 1
              /\ run'.ci = run.ci /\ run'.begun = run.head
         /\ Verdict =>
              /\ run' \in RunRows /\ run'.phase = run.phase /\ KeepsHead /\ KeepsRound
              /\ run'.ci = run.ci /\ run'.begun = run.begun /\ run'.reviewed = run.head
         /\ RequestChanges =>
              /\ run' \in RunRows /\ run'.phase = run.phase /\ KeepsHead /\ KeepsEvidence
              /\ run'.fix = run.fix + 1 /\ run'.inv = run.inv /\ run'.parent = run.parent
         /\ Unbegin =>
              /\ run' \in RunRows /\ run'.phase = run.phase /\ KeepsHead /\ KeepsRound
              /\ run'.ci = run.ci /\ run'.reviewed = run.reviewed
<1> USE BudgetAssumption DEF KeepsHead, KeepsRound, KeepsEvidence, Set
<1>0. /\ run \in RunRows /\ tree.head \in Heads /\ run.head \in Heads
      /\ run.fix \in Rounds /\ run.inv \in 0..MaxInvocations /\ NoHead \in Heads
      /\ "FIX_REQUESTED" \in PhaseNames
      /\ run.fix < MaxFixRounds => run.fix + 1 \in Rounds
      /\ run.inv < MaxInvocations => run.inv + 1 \in 0..MaxInvocations
  BY DEF PhaseTypeOK, RunRows, Heads, Rounds, PhaseNames
<1>1. ASSUME StartWorker
      PROVE  /\ run' \in RunRows /\ run'.phase = run.phase /\ KeepsHead /\ KeepsEvidence
             /\ run'.fix = run.fix /\ run'.inv = run.inv + 1 /\ run'.parent = tree.head
  <2>1. [run EXCEPT !.inv = run.inv + 1] \in RunRows
    BY <1>0, <1>1, ColumnTypes DEF StartWorker, MayWork, WithinBudget
  <2>2. run' \in RunRows
    BY <1>0, <1>1, <2>1, ColumnTypes DEF StartWorker
  <2>3. run' = [run EXCEPT !.inv = run.inv + 1, !.parent = tree.head]
    BY <1>1 DEF StartWorker
  <2> QED
    BY <1>0, <2>2, <2>3 DEF RunRows
<1>2. ASSUME RecordHead
      PROVE  /\ run' \in RunRows /\ run'.phase = run.phase /\ KeepsRound
             /\ run'.head = tree.head /\ run'.ci = run.ci /\ run'.begun = run.begun
  <2>1. run' = [run EXCEPT !.head = tree.head, !.reviewed = NoHead]
    BY <1>2 DEF RecordHead
  <2>2. [run EXCEPT !.head = tree.head] \in RunRows
    BY <1>0, ColumnTypes
  <2>3. run' \in RunRows
    BY <1>0, <2>1, <2>2, ColumnTypes
  <2> QED
    BY <1>0, <2>1, <2>3 DEF RunRows
<1>3. ASSUME Unmark
      PROVE  /\ run' \in RunRows /\ run'.phase = run.phase /\ KeepsHead /\ KeepsEvidence
             /\ run'.fix = run.fix /\ run'.inv = run.inv
  <2>1. run' = [run EXCEPT !.parent = NoHead]
    BY <1>3 DEF Unmark
  <2> QED
    BY <1>0, <2>1, ColumnTypes DEF RunRows
<1>4. ASSUME ForgetEvidence
      PROVE  run' \in RunRows /\ run'.phase = run.phase /\ KeepsHead /\ KeepsRound
  <2>1. run' = [run EXCEPT !.reviewed = NoHead, !.ci = NoHead]
    BY <1>4 DEF ForgetEvidence
  <2>2. [run EXCEPT !.reviewed = NoHead] \in RunRows
    BY <1>0, ColumnTypes
  <2>3. run' \in RunRows
    BY <1>0, <2>1, <2>2, ColumnTypes
  <2> QED
    BY <1>0, <2>1, <2>3 DEF RunRows
<1>5. ASSUME CiPasses
      PROVE  /\ run' \in RunRows /\ run'.phase = run.phase /\ KeepsHead /\ KeepsRound
             /\ run'.ci = run.head
  <2>1. run' = [run EXCEPT !.ci = run.head]
    BY <1>5 DEF CiPasses
  <2> QED
    BY <1>0, <2>1, ColumnTypes DEF RunRows
<1>6. ASSUME RecordCiFix, run.fix < MaxFixRounds
      PROVE  /\ run' \in RunRows /\ run'.phase = "FIX_REQUESTED" /\ KeepsHead
             /\ run'.fix = run.fix + 1 /\ run'.inv = run.inv
  <2> DEFINE r1 == [run EXCEPT !.phase = "FIX_REQUESTED"]
             r2 == [r1 EXCEPT !.fix = run.fix + 1]
             r3 == [r2 EXCEPT !.ci = NoHead]
             r4 == [r3 EXCEPT !.reviewed = NoHead]
             r5 == [r4 EXCEPT !.begun = NoHead]
  <2>1. r1 \in RunRows /\ r1.phase = "FIX_REQUESTED" /\ r1.head = run.head /\ r1.inv = run.inv
          /\ r1.fix = run.fix
    BY <1>0, ColumnTypes DEF RunRows
  <2>2. run' = r5
    BY <1>6, <2>1 DEF RecordCiFix
  <2> HIDE DEF r1
  <2>3. r2 \in RunRows /\ r2.phase = r1.phase /\ r2.head = r1.head /\ r2.inv = r1.inv
          /\ r2.fix = run.fix + 1
    BY <1>0, <1>6, <2>1, ColumnTypes DEF RunRows
  <2> HIDE DEF r2
  <2>4. r3 \in RunRows /\ r3.phase = r2.phase /\ r3.head = r2.head /\ r3.inv = r2.inv
          /\ r3.fix = r2.fix
    BY <1>0, <2>3, ColumnTypes DEF RunRows
  <2> HIDE DEF r3
  <2>5. r4 \in RunRows /\ r4.phase = r3.phase /\ r4.head = r3.head /\ r4.inv = r3.inv
          /\ r4.fix = r3.fix
    BY <1>0, <2>4, ColumnTypes DEF RunRows
  <2> HIDE DEF r4
  <2>6. r5 \in RunRows /\ r5.phase = r4.phase /\ r5.head = r4.head /\ r5.inv = r4.inv
          /\ r5.fix = r4.fix
    BY <1>0, <2>5, ColumnTypes DEF RunRows
  <2> HIDE DEF r5
  <2> QED
    BY <2>1, <2>2, <2>3, <2>4, <2>5, <2>6
<1>7. ASSUME StartReview
      PROVE  /\ run' \in RunRows /\ run'.phase = run.phase /\ KeepsHead
             /\ run'.parent = run.parent /\ run'.fix = run.fix /\ run'.inv = run.inv + 1
             /\ run'.ci = run.ci /\ run'.begun = run.head
  <2>1. run' = [run EXCEPT !.inv = run.inv + 1, !.begun = run.head]
    BY <1>7 DEF StartReview
  <2>2. [run EXCEPT !.inv = run.inv + 1] \in RunRows
    BY <1>0, <1>7, ColumnTypes DEF StartReview, WithinBudget
  <2>3. run' \in RunRows
    BY <1>0, <2>1, <2>2, ColumnTypes
  <2> QED
    BY <1>0, <2>1, <2>3 DEF RunRows
<1>8. ASSUME Verdict
      PROVE  /\ run' \in RunRows /\ run'.phase = run.phase /\ KeepsHead /\ KeepsRound
             /\ run'.ci = run.ci /\ run'.begun = run.begun /\ run'.reviewed = run.head
  <2>1. run' = [run EXCEPT !.reviewed = run.head]
    BY <1>8 DEF Verdict
  <2> QED
    BY <1>0, <2>1, ColumnTypes DEF RunRows
<1>9. ASSUME RequestChanges
      PROVE  /\ run' \in RunRows /\ run'.phase = run.phase /\ KeepsHead /\ KeepsEvidence
             /\ run'.fix = run.fix + 1 /\ run'.inv = run.inv /\ run'.parent = run.parent
  <2>1. run' = [run EXCEPT !.fix = run.fix + 1] /\ run.fix < MaxFixRounds
    BY <1>9 DEF RequestChanges
  <2>2. run' \in RunRows
    BY <1>0, <2>1, ColumnTypes
  <2> QED
    BY <1>0, <2>1, <2>2 DEF RunRows
<1>10. ASSUME Unbegin
       PROVE  /\ run' \in RunRows /\ run'.phase = run.phase /\ KeepsHead /\ KeepsRound
              /\ run'.ci = run.ci /\ run'.reviewed = run.reviewed
  <2>1. run' = [run EXCEPT !.begun = NoHead]
    BY <1>10 DEF Unbegin
  <2> QED
    BY <1>0, <2>1, ColumnTypes DEF RunRows
<1> QED
  BY <1>1, <1>2, <1>3, <1>4, <1>5, <1>6, <1>7, <1>8, <1>9, <1>10

\* Where each row step leads.
LEMMA RowPlaces ==
  ASSUME PlaceInv, RowSteps
  PROVE  /\ run' \in RunRows /\ pc' \in ControllerPlaces /\ PhaseOfPlace'
         /\ pc' \notin {"agent", "account", "commit", "verdict"}
         /\ pc' = "decide" => Verdict
         /\ pc' = "changes" => RequestChanges
<1> USE DEF PlaceInv, PhaseTypeOK, PhaseOfPlace, ControllerPlaces, AtWork, AtReview, AtPublish,
            AtGate, Step, In, ShiftsTo
<1>0. run \in RunRows /\ PhaseTypeOK
  OBVIOUS
<1>1. CASE CreateWorktree \/ StartWorker \/ WorkerRuns
  BY <1>1, <1>0, PhaseWriters, ColumnWriters DEF CreateWorktree, StartWorker, WorkerRuns
<1>2. CASE CommitFails \/ CommitFound
  <2>1. CASE CommitFails
    BY <2>1, <1>0, PhaseWriters DEF CommitFails, Reopen
  <2>2. CASE CommitFound
    BY <2>2, <1>0 DEF CommitFound, Keep, store
  <2> QED
    BY <1>2, <2>1, <2>2
<1>3. CASE RecordHead \/ WorkerCompletes \/ Unmark
  BY <1>3, <1>0, PhaseWriters, ColumnWriters DEF RecordHead, WorkerCompletes, Unmark
<1>4. CASE ForgetEvidence \/ AwaitCi \/ CiPasses \/ AwaitReview
  BY <1>4, <1>0, PhaseWriters, ColumnWriters DEF ForgetEvidence, AwaitCi, CiPasses, AwaitReview
<1>5. CASE RecordCiFix
  BY <1>5, <1>0, ColumnWriters DEF RecordCiFix
<1>6. CASE StartReview \/ Verdict \/ RequestChanges
  BY <1>6, <1>0, ColumnWriters DEF StartReview, Verdict, RequestChanges
<1>7. CASE Decide
  BY <1>7, <1>0, PhaseWriters DEF Decide
<1>8. CASE Unbegin
  BY <1>8, <1>0, ColumnWriters DEF Unbegin
<1>9. CASE Reconcile \/ MainDelivery \/ Fails
  BY <1>9, <1>0, PhaseWriters DEF Reconcile, MainDelivery, Fails, Blocks
<1>10. CASE TakesOver
  BY <1>10, <1>0 DEF TakesOver, Keep, store
<1> QED
  BY <1>1, <1>2, <1>3, <1>4, <1>5, <1>6, <1>7, <1>8, <1>9, <1>10 DEF RowSteps

LEMMA RowStepPlaces == PlaceInv /\ RowSteps => PlaceInv'
<1> SUFFICES ASSUME PlaceInv, RowSteps
             PROVE  PlaceInv'
  OBVIOUS
<1>0. UNCHANGED <<ledger, tree, streams, files, requests, pull, mem, cumulative, deaths>>
  BY RowStepsWriteTheRow
<1>1. PhaseTypeOK' /\ PhaseOfPlace'
  BY <1>0, RowPlaces DEF PlaceInv, PhaseTypeOK
<1>2. FilesAreOfRole'
  BY <1>0 DEF PlaceInv, FilesAreOfRole
<1>3. CASE pc' = "decide"
  <2>1. Verdict /\ run'.phase = run.phase /\ KeepsRound
    BY <1>3, RowPlaces, ColumnWriters DEF PlaceInv
  <2> QED
    BY <1>0, <1>1, <1>2, <2>1, <1>3
    DEF PlaceInv, StreamInHand, Verdict, RoleOfPhase, Stream, Name, KeepsRound, Finished
<1>4. CASE pc' = "changes"
  <2>1. /\ RequestChanges /\ run'.fix = run.fix + 1
        /\ pc = "decide" /\ run.phase = "REVIEW_RUNNING" /\ run.fix \in Nat
    BY <1>4, RowPlaces, ColumnWriters
    DEF PlaceInv, PhaseOfPlace, RequestChanges, PhaseTypeOK, RunRows, Rounds, AtReview, AtWork
  <2>2. run'.fix # 0 /\ run'.fix - 1 = run.fix
    BY <2>1
  <2>3. mem.stream = files[<<"reviewer", run.fix>>] /\ Finished(mem.stream)
    BY <2>1 DEF PlaceInv, StreamInHand, RoleOfPhase, Stream, Name
  <2> QED
    BY <1>0, <1>1, <1>2, <1>4, <2>2, <2>3 DEF PlaceInv, StreamInHand, Finished
<1>5. CASE pc' \notin {"decide", "changes"}
  BY <1>1, <1>2, <1>5, RowPlaces DEF PlaceInv, StreamInHand
<1> QED
  BY <1>3, <1>4, <1>5

-----------------------------------------------------------------------------
(* Streams *)

\* A stream that ends keeps its role and head.
SameStream(s, t) == t.role = s.role /\ t.head = s.head

LEMMA RoundIsARound == PhaseTypeOK => run.fix \in Rounds /\ run.inv \in 0..MaxInvocations
  BY DEF PhaseTypeOK, RunRows

LEMMA SpawnWrites ==
  ASSUME PlaceInv, Spawn
  PROVE  /\ pc \in {"spawn", "spawnReview"} /\ pc' = "agent"
         /\ streams' \in Seq(EventStreams) /\ Len(streams') = Len(streams) + 1
         /\ \A i \in DOMAIN streams : i \in DOMAIN streams' /\ streams'[i] = streams[i]
         /\ streams'[Len(streams')].role = RoleOfPhase
         /\ streams'[Len(streams')].head = tree.head /\ ~streams'[Len(streams')].done
         /\ RoleOfPhase \in Roles
         /\ files' = [files EXCEPT ![<<RoleOfPhase, run.fix>>] = Len(streams')]
         /\ UNCHANGED <<run, ledger, tree, requests, pull, mem, cumulative, deaths>>
<1> DEFINE s == [role |-> RoleOfPhase, head |-> tree.head, done |-> FALSE,
                 res |-> "none", names |-> NoHead, used |-> 0]
<1>1. /\ pc \in {"spawn", "spawnReview"} /\ pc' = "agent"
      /\ UNCHANGED <<run, ledger, tree, requests, pull, mem, cumulative, deaths>>
  BY DEF Spawn, Keep, Step, store
<1>2. RoleOfPhase = (IF pc = "spawn" THEN "worker" ELSE "reviewer") /\ RoleOfPhase \in Roles
  BY <1>1 DEF PlaceInv, PhaseOfPlace, AtWork, AtReview, RoleOfPhase, Roles
<1>3. /\ streams' = Append(streams, s)
      /\ files' = [files EXCEPT ![<<RoleOfPhase, run.fix>>] = Len(streams) + 1]
  BY <1>2 DEF Spawn, Name
<1>4. s \in EventStreams /\ streams \in Seq(EventStreams)
  <2>1. tree.head \in Nat /\ NoHead \in Heads /\ streams \in Seq(EventStreams)
    BY DEF PlaceInv, PhaseTypeOK, Heads
  <2> QED
    BY <1>2, <2>1 DEF EventStreams, Outcomes
<1>5. /\ s.role = RoleOfPhase /\ s.head = tree.head /\ ~s.done
  OBVIOUS
<1> HIDE DEF s
<1> QED
  BY <1>1, <1>2, <1>3, <1>4, <1>5, AppendProperties

LEMMA UseIsANumber ==
  ASSUME PhaseTypeOK, NEW role, NEW u \in Used(role)
  PROVE  u \in Nat
<1> DEFINE W == {i \in DOMAIN streams : streams[i].role = "worker"}
<1>1. IsFiniteSet(DOMAIN streams)
  <2>1. DOMAIN streams = 1..Len(streams) /\ Len(streams) \in Int
    BY LenProperties DEF PhaseTypeOK
  <2> QED
    BY <2>1, FS_Interval
<1>2. Cardinality(W) \in Nat
  BY <1>1, FS_Subset, FS_CardinalityType
<1> QED
  BY <1>2 DEF Used

LEMMA TurnEndsWrites ==
  ASSUME PlaceInv, pc = "agent", TurnEnds(Len(streams))
  PROVE  /\ streams' \in Seq(EventStreams) /\ Len(streams') = Len(streams)
         /\ \A i \in DOMAIN streams : i # Len(streams) => streams'[i] = streams[i]
         /\ SameStream(streams[Len(streams)], streams'[Len(streams)])
         /\ streams'[Len(streams)].done
         /\ tree' \in [head : Nat, dirty : BOOLEAN] /\ tree'.head = tree.head
<1> DEFINE n == Len(streams)
<1>1. streams \in Seq(EventStreams) /\ n \in DOMAIN streams /\ tree \in [head : Nat, dirty : BOOLEAN]
  BY LenProperties DEF PlaceInv, PhaseTypeOK, StreamInHand
<1>2. PICK res \in Results(streams[n].role), used \in Used(streams[n].role), names \in {tree.head, NoHead} :
         /\ streams' = [streams EXCEPT ![n].done = TRUE, ![n].res = res, ![n].used = used,
                                       ![n].names = names]
         /\ tree' = [tree EXCEPT !.dirty = @ \/ res = "ok"]
  BY DEF TurnEnds, Names
<1> DEFINE t == [streams[n] EXCEPT !.done = TRUE, !.res = res, !.used = used, !.names = names]
<1>3. streams' = [streams EXCEPT ![n] = t]
  BY <1>2
<1>4. /\ streams[n] \in EventStreams /\ res \in Outcomes /\ used \in Nat /\ names \in Heads
  <2>1. streams[n] \in EventStreams /\ used \in Nat
    BY <1>1, UseIsANumber, ElementOfSeq, LenProperties DEF PlaceInv
  <2>2. res \in Outcomes
    BY DEF Results, Outcomes
  <2> QED
    BY <1>1, <2>1, <2>2 DEF Heads
<1>5. t \in EventStreams /\ SameStream(streams[n], t) /\ t.done
  BY <1>4 DEF EventStreams, SameStream
<1>6. tree' \in [head : Nat, dirty : BOOLEAN] /\ tree'.head = tree.head
  BY <1>1, <1>2
<1> HIDE DEF t
<1> QED
  BY <1>1, <1>3, <1>5, <1>6, ExceptSeq

\* A turn that is cut off leaves its stream as it is.
LEMMA TurnCutWrites ==
  ASSUME PlaceInv, TurnCut(Len(streams))
  PROVE  streams' = streams /\ tree' \in [head : Nat, dirty : BOOLEAN] /\ tree'.head = tree.head
<1>1. PICK dirty \in BOOLEAN :
         tree' = [tree EXCEPT !.dirty = @ \/ (streams[Len(streams)].role = "worker" /\ dirty)]
  BY DEF TurnCut
<1> QED
  BY <1>1 DEF TurnCut, PlaceInv, PhaseTypeOK

\* Ending the last stream changes nothing about which streams the files have.
LEMMA TurnKeepsFiles ==
  ASSUME PlaceInv, pc = "agent", TurnEnds(Len(streams)), UNCHANGED files
  PROVE  FilesAreOfRole' /\ DOMAIN streams' = DOMAIN streams
<1>1. streams \in Seq(EventStreams) /\ DOMAIN streams' = DOMAIN streams
  BY TurnEndsWrites, LenProperties DEF PlaceInv, PhaseTypeOK
<1>2. \A i \in DOMAIN streams : streams'[i].role = streams[i].role
  BY TurnEndsWrites DEF SameStream
<1> QED
  BY <1>1, <1>2 DEF PlaceInv, FilesAreOfRole

-----------------------------------------------------------------------------
(* The places of a controller, its stream and the types are kept *)

\* What a controller with a stream in hand, or that looks for one, has.
LEMMA StreamOfRole ==
  ASSUME PlaceInv, NEW role \in Roles, Stream(role) # 0
  PROVE  Stream(role) \in DOMAIN streams /\ streams[Stream(role)].role = role
<1>1. <<role, run.fix>> \in Roles \X Rounds
  BY RoundIsARound DEF PlaceInv
<1> QED
  BY <1>1 DEF PlaceInv, FilesAreOfRole, Stream, Name

LEMMA SpawnPlaces == PlaceInv /\ Spawn => PlaceInv'
<1> SUFFICES ASSUME PlaceInv, Spawn
             PROVE  PlaceInv'
  OBVIOUS
<1>0. /\ UNCHANGED <<run, ledger, tree, requests, pull, mem, cumulative, deaths>>
      /\ pc \in {"spawn", "spawnReview"} /\ pc' = "agent" /\ RoleOfPhase \in Roles
      /\ files' = [files EXCEPT ![<<RoleOfPhase, run.fix>>] = Len(streams')]
  BY SpawnWrites
<1>1. /\ streams' \in Seq(EventStreams) /\ Len(streams') = Len(streams) + 1 /\ Len(streams) \in Nat
      /\ Len(streams') \in DOMAIN streams' /\ Len(streams') \in Nat \ {0}
  BY SpawnWrites, LenProperties DEF PlaceInv, PhaseTypeOK
<1>2. <<RoleOfPhase, run.fix>> \in Roles \X Rounds /\ files \in [Roles \X Rounds -> Nat]
  BY <1>0, RoundIsARound DEF PlaceInv, PhaseTypeOK
<1>3. files' \in [Roles \X Rounds -> Nat] /\ files'[<<RoleOfPhase, run.fix>>] = Len(streams')
  BY <1>0, <1>1, <1>2
<1>4. PhaseTypeOK'
  BY <1>0, <1>1, <1>3 DEF PlaceInv, PhaseTypeOK, ControllerPlaces, AtWork
<1>5. PhaseOfPlace'
  BY <1>0 DEF PlaceInv, PhaseOfPlace, AtWork, AtReview, AtPublish, AtGate
<1>6. FilesAreOfRole'
  <2> SUFFICES ASSUME NEW x \in Roles \X Rounds, files'[x] # 0
               PROVE  files'[x] \in DOMAIN streams' /\ streams'[files'[x]].role = x[1]
    BY DEF FilesAreOfRole
  <2>1. CASE x = <<RoleOfPhase, run.fix>>
    BY <1>1, <1>3, <2>1, SpawnWrites
  <2>2. CASE x # <<RoleOfPhase, run.fix>>
    <3>1. files'[x] = files[x] /\ files[x] \in DOMAIN streams /\ streams[files[x]].role = x[1]
      BY <1>0, <1>2, <2>2 DEF PlaceInv, FilesAreOfRole
    <3> QED
      BY <3>1, SpawnWrites
  <2> QED
    BY <2>1, <2>2
<1>7. StreamInHand'
  <2>1. RoleOfPhase' = RoleOfPhase /\ Stream(RoleOfPhase)' = Len(streams')
    BY <1>0, <1>3 DEF RoleOfPhase, Stream, Name
  <2> QED
    BY <1>0, <1>1, <2>1, SpawnWrites DEF StreamInHand, RoleOfPhase, Stream, Name
<1> QED
  BY <1>4, <1>5, <1>6, <1>7 DEF PlaceInv

LEMMA AgentEndsPlaces == PlaceInv /\ AgentEnds => PlaceInv'
<1> SUFFICES ASSUME PlaceInv, AgentEnds
             PROVE  PlaceInv'
  OBVIOUS
<1>0. /\ pc = "agent" /\ pc' = "account" /\ TurnEnds(Len(streams))
      /\ mem' = [stream |-> Len(streams), by |-> "live"]
      /\ UNCHANGED <<run, ledger, files, requests, pull, cumulative, deaths>>
  BY DEF AgentEnds, Keep, Step, store
<1>1. Len(streams) \in Nat
  BY LenProperties DEF PlaceInv, PhaseTypeOK
<1>2. PhaseTypeOK'
  BY <1>0, <1>1, TurnEndsWrites DEF PlaceInv, PhaseTypeOK, ControllerPlaces, AtWork
<1>3. PhaseOfPlace'
  BY <1>0 DEF PlaceInv, PhaseOfPlace, AtWork, AtReview, AtPublish, AtGate
<1>4. FilesAreOfRole'
  BY <1>0, TurnKeepsFiles
<1>5. Len(streams) # 0 /\ Stream(RoleOfPhase)' = Len(streams)
  BY <1>0 DEF PlaceInv, StreamInHand, RoleOfPhase, Stream, Name
<1>6. StreamInHand'
  BY <1>0, <1>5, TurnEndsWrites DEF StreamInHand, Finished, RoleOfPhase, Stream, Name
<1> QED
  BY <1>2, <1>3, <1>4, <1>6 DEF PlaceInv

LEMMA AccountWrites ==
  ASSUME PlaceInv, Account
  PROVE  /\ pc = "account" /\ UNCHANGED <<run, tree, streams, files, requests, pull, mem, cumulative, deaths>>
         /\ mem.stream = Stream(RoleOfPhase) /\ Finished(mem.stream)
         /\ mem.stream \in DOMAIN streams /\ streams[mem.stream].role = RoleOfPhase
         /\ ledger' = ledger \cup {[inv |-> Invocation(RoleOfPhase), stream |-> mem.stream]}
         /\ pc' \in {"raise", IF RoleOfPhase = "worker" THEN "commit" ELSE "verdict"}
<1>1. /\ pc = "account" /\ UNCHANGED <<run, tree, streams, files, requests, pull, mem, cumulative, deaths>>
  BY DEF Account, Keep
<1>2. mem.stream = Stream(RoleOfPhase) /\ Finished(mem.stream) /\ RoleOfPhase \in Roles
  BY <1>1 DEF PlaceInv, StreamInHand, RoleOfPhase, Roles
<1>3. mem.stream \in DOMAIN streams /\ streams[mem.stream].role = RoleOfPhase
  BY <1>2, StreamOfRole DEF Finished
<1> QED
  BY <1>1, <1>2, <1>3 DEF Account, Step

LEMMA AccountPlaces == PlaceInv /\ Account => PlaceInv'
<1> SUFFICES ASSUME PlaceInv, Account
             PROVE  PlaceInv'
  OBVIOUS
<1>0. /\ pc = "account" /\ UNCHANGED <<run, tree, streams, files, requests, pull, mem, cumulative, deaths>>
      /\ mem.stream = Stream(RoleOfPhase) /\ Finished(mem.stream)
      /\ pc' \in {"raise", IF RoleOfPhase = "worker" THEN "commit" ELSE "verdict"}
  BY AccountWrites
<1>1. [inv |-> Invocation(RoleOfPhase), stream |-> mem.stream]
        \in [inv : (Roles \X Rounds) \X (0..MaxInvocations), stream : Nat]
  <2>1. RoleOfPhase \in Roles /\ run.fix \in Rounds /\ run.inv \in 0..MaxInvocations /\ mem.stream \in Nat
    BY RoundIsARound DEF RoleOfPhase, Roles, PlaceInv, PhaseTypeOK
  <2> QED
    BY <2>1 DEF Invocation, Name
<1>2. PhaseTypeOK'
  BY <1>0, <1>1, AccountWrites DEF PlaceInv, PhaseTypeOK, ControllerPlaces, AtWork, AtReview
<1>3. PhaseOfPlace'
  BY <1>0 DEF PlaceInv, PhaseOfPlace, AtWork, AtReview, AtPublish, AtGate, RoleOfPhase
<1>4. FilesAreOfRole' /\ StreamInHand'
  BY <1>0 DEF PlaceInv, FilesAreOfRole, StreamInHand, Finished, RoleOfPhase, Stream, Name
<1> QED
  BY <1>2, <1>3, <1>4 DEF PlaceInv

LEMMA DiesWrites ==
  ASSUME PlaceInv, Dies
  PROVE  /\ pc # "gone" /\ pc' = "gone" /\ deaths' = deaths + 1
         /\ UNCHANGED <<run, ledger, files, requests, pull, mem, cumulative>>
         /\ \/ UNCHANGED streams
            \/ pc = "agent" /\ TurnEnds(Len(streams))
         /\ tree' \in [head : Nat, dirty : BOOLEAN] /\ tree'.head = tree.head
<1>1. \/ UNCHANGED <<streams, tree>> \/ TurnCut(Len(streams))
      \/ pc = "agent" /\ TurnEnds(Len(streams))
  BY DEF Dies
<1>2. tree' \in [head : Nat, dirty : BOOLEAN] /\ tree'.head = tree.head
  BY <1>1, TurnEndsWrites, TurnCutWrites DEF PlaceInv, PhaseTypeOK
<1> QED
  BY <1>1, <1>2, TurnCutWrites DEF Dies, Step, store

LEMMA DiesPlaces == PlaceInv /\ Dies => PlaceInv'
<1> SUFFICES ASSUME PlaceInv, Dies
             PROVE  PlaceInv'
  OBVIOUS
<1>0. /\ pc' = "gone" /\ deaths' = deaths + 1
      /\ UNCHANGED <<run, ledger, files, requests, pull, mem, cumulative>>
      /\ tree' \in [head : Nat, dirty : BOOLEAN]
  BY DiesWrites
<1>1. streams' \in Seq(EventStreams) /\ FilesAreOfRole'
  <2>1. CASE UNCHANGED streams
    BY <1>0, <2>1 DEF PlaceInv, PhaseTypeOK, FilesAreOfRole
  <2>2. CASE pc = "agent" /\ TurnEnds(Len(streams))
    BY <1>0, <2>2, TurnEndsWrites, TurnKeepsFiles
  <2> QED
    BY <2>1, <2>2, DiesWrites
<1>2. PhaseTypeOK'
  BY <1>0, <1>1 DEF PlaceInv, PhaseTypeOK, ControllerPlaces
<1>3. PhaseOfPlace' /\ StreamInHand'
  BY <1>0 DEF PhaseOfPlace, StreamInHand, AtWork, AtReview, AtPublish, AtGate
<1> QED
  BY <1>1, <1>2, <1>3 DEF PlaceInv

\* A recovery takes up the finished stream of its round, or asks for another.
LEMMA RecoverWrites ==
  ASSUME PlaceInv, RecoverWorker
  PROVE  /\ pc = "loop" /\ run.phase = "WORKER_RUNNING" /\ run.parent # NoHead
         /\ UNCHANGED <<ledger, tree, streams, files, requests, pull, cumulative, deaths>>
         /\ \/ /\ Finished(Stream("worker")) /\ pc' = "account" /\ UNCHANGED run
               /\ mem' = [stream |-> Stream("worker"),
                          by |-> IF tree.head = run.parent THEN "found" ELSE "committed"]
            \/ /\ ~Finished(Stream("worker")) /\ tree.head = run.parent /\ pc' = "loop"
               /\ Reopen /\ UNCHANGED mem
  BY DEF RecoverWorker, In, TakeUp, Step, Keep, Reopen, store

LEMMA ReviewWrites ==
  ASSUME PlaceInv, Review
  PROVE  /\ pc = "loop" /\ run.phase = "REVIEW_RUNNING" /\ tree.head = run.head
         /\ UNCHANGED <<ledger, tree, streams, files, requests, pull, cumulative, deaths>>
         /\ \/ /\ run.begun = run.head /\ Finished(Stream("reviewer")) /\ pc' = "account"
               /\ UNCHANGED run /\ mem' = [stream |-> Stream("reviewer"), by |-> "found"]
            \/ /\ ~(run.begun = run.head /\ Finished(Stream("reviewer")))
               /\ pc' = "review" /\ UNCHANGED mem
               /\ run' \in RunRows /\ run'.phase = run.phase /\ KeepsHead /\ KeepsRound
               /\ run'.ci = run.ci /\ run'.reviewed = run.reviewed
<1> DEFINE b == IF run.begun = run.head THEN NoHead ELSE run.begun
<1>1. ASSUME Set([run EXCEPT !.begun = b])
      PROVE  /\ run' \in RunRows /\ run'.phase = run.phase /\ KeepsHead /\ KeepsRound
             /\ run'.ci = run.ci /\ run'.reviewed = run.reviewed
  <2>1. b \in Heads /\ run \in RunRows
    BY DEF PlaceInv, PhaseTypeOK, RunRows, Heads
  <2> HIDE DEF b
  <2> QED
    BY <1>1, <2>1, ColumnTypes DEF Set, RunRows, KeepsHead, KeepsRound
<1> QED
  BY <1>1 DEF Review, In, TakeUp, Step, Keep

LEMMA TakesUpPlaces ==
  ASSUME PlaceInv, NEW role \in Roles, role = RoleOfPhase,
         run.phase \in {"WORKER_RUNNING", "REVIEW_RUNNING"}, Finished(Stream(role)),
         NEW by \in {"found", "committed"}, mem' = [stream |-> Stream(role), by |-> by],
         pc' = "account",
         UNCHANGED <<run, ledger, tree, streams, files, requests, pull, cumulative, deaths>>
  PROVE  PlaceInv'
<1>1. Stream(role) \in Nat
  <2>1. <<role, run.fix>> \in Roles \X Rounds
    BY RoundIsARound DEF PlaceInv
  <2> QED
    BY <2>1 DEF Stream, Name, PlaceInv, PhaseTypeOK
<1>2. PhaseTypeOK'
  BY <1>1 DEF PlaceInv, PhaseTypeOK, ControllerPlaces, AtWork
<1>3. PhaseOfPlace'
  BY DEF PhaseOfPlace, AtWork, AtReview, AtPublish, AtGate
<1>4. FilesAreOfRole' /\ StreamInHand'
  BY DEF PlaceInv, FilesAreOfRole, StreamInHand, Finished, RoleOfPhase, Stream, Name
<1> QED
  BY <1>2, <1>3, <1>4 DEF PlaceInv

LEMMA RecoveryPlaces == PlaceInv /\ (RecoverWorker \/ Review) => PlaceInv'
<1>1. ASSUME PlaceInv, RecoverWorker
      PROVE  PlaceInv'
  <2>1. CASE pc' = "account"
    BY <1>1, <2>1, RecoverWrites, TakesUpPlaces DEF RoleOfPhase, Roles
  <2>2. CASE pc' = "loop"
    <3>1. Reopen /\ UNCHANGED <<ledger, tree, streams, files, requests, pull, mem, cumulative, deaths>>
      BY <1>1, <2>2, RecoverWrites
    <3>2. run' \in RunRows
      BY <1>1, <3>1, PhaseWriters DEF PlaceInv, PhaseTypeOK
    <3> QED
      BY <1>1, <2>2, <3>1, <3>2
      DEF PlaceInv, PhaseTypeOK, PhaseOfPlace, FilesAreOfRole, StreamInHand, ControllerPlaces,
          AtWork, AtReview, AtPublish, AtGate
  <2> QED
    BY <1>1, <2>1, <2>2, RecoverWrites
<1>2. ASSUME PlaceInv, Review
      PROVE  PlaceInv'
  <2>1. CASE pc' = "account"
    BY <1>2, <2>1, ReviewWrites, TakesUpPlaces DEF RoleOfPhase, Roles
  <2>2. CASE pc' = "review"
    BY <1>2, <2>2, ReviewWrites
    DEF PlaceInv, PhaseTypeOK, PhaseOfPlace, FilesAreOfRole, StreamInHand, ControllerPlaces,
        AtWork, AtReview, AtPublish, AtGate
  <2> QED
    BY <1>2, <2>1, <2>2, ReviewWrites
<1> QED
  BY <1>1, <1>2

\* The steps that write the worktree, the pull request or a fix request.
LEMMA OtherWrites ==
  ASSUME PlaceInv, Commit \/ Publish \/ CiFails \/ OwnerMerges
  PROVE  /\ UNCHANGED <<run, ledger, streams, files, mem, cumulative, deaths>>
         /\ PhaseTypeOK' /\ PhaseOfPlace'
         /\ pc' \in {"committed", "published", "requested"} \/ UNCHANGED pc
         /\ pc' = "requested" => CiFails
<1> USE DEF PlaceInv, PhaseTypeOK, PhaseOfPlace, ControllerPlaces, AtWork, AtReview, AtPublish,
            AtGate, Step, In, Keep, store
<1>1. CASE Commit
  BY <1>1 DEF Commit, Valid
<1>2. CASE Publish
  <2>1. run.head \in Heads
    BY DEF RunRows
  <2> QED
    BY <1>2, <2>1 DEF Publish
<1>3. CASE CiFails
  <2>1. run.head \in Heads
    BY DEF RunRows
  <2> QED
    BY <1>3, <2>1 DEF CiFails
<1>4. CASE OwnerMerges
  BY <1>4 DEF OwnerMerges
<1> QED
  BY <1>1, <1>2, <1>3, <1>4

LEMMA OtherPlaces == PlaceInv /\ (Commit \/ Publish \/ CiFails \/ OwnerMerges) => PlaceInv'
<1> SUFFICES ASSUME PlaceInv, Commit \/ Publish \/ CiFails \/ OwnerMerges
             PROVE  PlaceInv'
  OBVIOUS
<1>1. FilesAreOfRole' /\ StreamInHand'
  BY OtherWrites DEF PlaceInv, FilesAreOfRole, StreamInHand, Finished, RoleOfPhase, Stream, Name
<1> QED
  BY <1>1, OtherWrites DEF PlaceInv

LEMMA PlaceStep == PlaceInv /\ [PhaseNext]_phased => PlaceInv'
<1>1. CASE UNCHANGED phased
  BY <1>1 DEF PlaceInv, PhaseTypeOK, PhaseOfPlace, FilesAreOfRole, StreamInHand, Finished,
              RoleOfPhase, Stream, Name, phased, store
<1> QED
  BY <1>1, StepsOfPhaseNext, RowStepPlaces, SpawnPlaces, AgentEndsPlaces, AccountPlaces, DiesPlaces,
     RecoveryPlaces, OtherPlaces DEF PhaseSteps

-----------------------------------------------------------------------------
(* Invocations *)

InvocationsAreCounted ==
    IF pc \in {"marked", "spawn", "spawnReview"} THEN Len(streams) < run.inv
    ELSE Len(streams) <= run.inv

LEMMA InvocationStep ==
  PlaceInv /\ InvocationsAreCounted /\ [PhaseNext]_phased => InvocationsAreCounted'
<1> SUFFICES ASSUME PlaceInv, InvocationsAreCounted, [PhaseNext]_phased
             PROVE  InvocationsAreCounted'
  OBVIOUS
<1>0. Len(streams) \in Nat /\ run.inv \in Nat /\ PhaseTypeOK /\ run \in RunRows
  BY LenProperties, BudgetAssumption, RoundIsARound DEF PlaceInv, PhaseTypeOK
<1> USE <1>0 DEF InvocationsAreCounted, Step, ShiftsTo, KeepsRound
<1>1. CASE RowSteps
  <2>0. UNCHANGED streams
    BY <1>1, RowStepsWriteTheRow
  <2>1. CASE StartWorker \/ WorkerRuns \/ CreateWorktree
    BY <2>0, <2>1, ColumnWriters, PhaseWriters DEF StartWorker, WorkerRuns, CreateWorktree, In
  <2>2. CASE StartReview \/ Verdict \/ RequestChanges \/ Unbegin
    BY <2>0, <2>2, ColumnWriters DEF StartReview, Verdict, RequestChanges, Unbegin
  <2>3. CASE RecordHead \/ WorkerCompletes \/ Unmark
    BY <2>0, <2>3, ColumnWriters, PhaseWriters DEF RecordHead, WorkerCompletes, Unmark
  <2>4. CASE ForgetEvidence \/ AwaitCi \/ CiPasses \/ AwaitReview
    BY <2>0, <2>4, ColumnWriters, PhaseWriters DEF ForgetEvidence, AwaitCi, CiPasses, AwaitReview, In
  <2>5. CASE RecordCiFix
    BY <2>0, <2>5, ColumnWriters DEF RecordCiFix, PlaceInv, PhaseOfPlace
  <2>6. CASE CommitFails
    BY <2>0, <2>6, PhaseWriters DEF CommitFails, Reopen
  <2>7. CASE Decide \/ Reconcile \/ MainDelivery \/ Fails
    BY <2>0, <2>7, PhaseWriters DEF Decide, Reconcile, MainDelivery, Fails, Blocks, In
  <2>8. CASE CommitFound \/ TakesOver
    BY <2>0, <2>8 DEF CommitFound, TakesOver, Keep, store
  <2> QED
    BY <1>1, <2>1, <2>2, <2>3, <2>4, <2>5, <2>6, <2>7, <2>8 DEF RowSteps
<1>2. CASE Spawn
  BY <1>2, SpawnWrites
<1>3. CASE AgentEnds
  BY <1>3, TurnEndsWrites DEF AgentEnds, Keep, store
<1>4. CASE Account
  BY <1>4, AccountWrites
<1>5. CASE Dies
  BY <1>5, DiesWrites, TurnEndsWrites
<1>6. CASE RecoverWorker
  BY <1>6, RecoverWrites, PhaseWriters
<1>7. CASE Review
  BY <1>7, ReviewWrites
<1>8. CASE Commit \/ Publish \/ CiFails \/ OwnerMerges
  BY <1>8, OtherWrites
<1>9. CASE UNCHANGED phased
  BY <1>9 DEF phased, store
<1> QED
  BY <1>1, <1>2, <1>3, <1>4, <1>5, <1>6, <1>7, <1>8, <1>9, StepsOfPhaseNext DEF PhaseSteps

-----------------------------------------------------------------------------
(* Heads *)

\* An unfinished round is at its parent, or one commit after it; the parent is the HEAD of
\* the round before.
RoundIsAtParent ==
    /\ run.phase \in {"CREATED", "CLAIMED"} => run.fix = 0 /\ tree.head = Base
    /\ run.phase = "FIX_REQUESTED" => run.fix # 0 /\ run.head <= run.fix
    /\ pc = "marked" => run.parent = tree.head
    /\ run.phase = "WORKER_RUNNING" =>
          /\ run.parent \in 0..run.fix /\ (run.fix # 0 => run.parent # 0)
          /\ tree.head \in {run.parent, run.parent + 1}
          /\ tree.head = run.parent /\ run.fix # 0 => run.head = tree.head
          /\ pc \in {"spawn", "agent"} => tree.head = run.parent
          /\ pc \in {"account", "commit"} /\ mem.by # "committed" => tree.head = run.parent
          /\ pc \in {"committed", "recorded"} => tree.head = run.parent + 1
          /\ pc = "recorded" => run.head = tree.head
    /\ pc = "changes" => run.head <= run.fix

HeadInv == RoundIsAtParent /\ HeadIsRecorded

LEMMA HeadInit == PhaseInit => HeadInv
  BY DEF PhaseInit, HeadInv, RoundIsAtParent, HeadIsRecorded, Base

LEMMA RowStepHeads == PlaceInv /\ HeadInv /\ RowSteps => HeadInv'
<1> SUFFICES ASSUME PlaceInv, HeadInv, RowSteps
             PROVE  HeadInv'
  OBVIOUS
<1>0. /\ PhaseTypeOK /\ run \in RunRows /\ tree.head \in Nat
      /\ run.head \in Int /\ run.parent \in Int /\ run.fix \in Nat
  BY BudgetAssumption DEF PlaceInv, PhaseTypeOK, RunRows, Heads, NoHead, Rounds
<1>1. UNCHANGED <<tree, mem>> /\ PhaseOfPlace
  BY RowStepsWriteTheRow DEF PlaceInv
<1> USE <1>0, <1>1, PhaseWriters, ColumnWriters
        DEF HeadInv, RoundIsAtParent, HeadIsRecorded, Step, In, ShiftsTo, KeepsHead, KeepsRound
<1>2. CASE CreateWorktree
  BY <1>2 DEF CreateWorktree
<1>3. CASE StartWorker
  BY <1>3 DEF StartWorker
<1>4. CASE WorkerRuns
  BY <1>4 DEF WorkerRuns, PhaseOfPlace, Base
<1>5. CASE CommitFails
  <2>1. /\ pc = "commit" /\ mem.by # "committed" /\ run.phase = "WORKER_RUNNING" /\ Reopen /\ pc' = "loop"
    BY <1>5 DEF CommitFails, Reopen, PhaseOfPlace, AtWork, AtReview
  <2> QED
    BY <2>1 DEF Base
<1>6. CASE CommitFound
  BY <1>6 DEF CommitFound, Keep, store, PhaseOfPlace, AtWork, AtReview
<1>7. CASE RecordHead
  BY <1>7 DEF RecordHead, PhaseOfPlace, AtWork, AtReview
<1>8. CASE WorkerCompletes
  BY <1>8 DEF WorkerCompletes, PhaseOfPlace, AtWork, AtReview
<1>9. CASE Unmark
  BY <1>9 DEF Unmark, PhaseOfPlace, AtPublish
<1>10. CASE ForgetEvidence \/ AwaitCi
  BY <1>10 DEF ForgetEvidence, AwaitCi, PhaseOfPlace, AtPublish
<1>11. CASE CiPasses \/ AwaitReview
  BY <1>11 DEF CiPasses, AwaitReview, PhaseOfPlace, AtGate
<1>12. CASE RecordCiFix
  BY <1>12 DEF RecordCiFix, PhaseOfPlace, AtGate
<1>13. CASE StartReview \/ Verdict
  BY <1>13 DEF StartReview, Verdict, PhaseOfPlace, AtReview, AtWork
<1>14. CASE RequestChanges
  BY <1>14 DEF RequestChanges, PhaseOfPlace, AtReview, AtWork
<1>15. CASE Decide
  BY <1>15 DEF Decide, PlaceInv, StreamInHand, PhaseOfPlace, AtReview, AtWork
<1>16. CASE Unbegin
  BY <1>16 DEF Unbegin
<1>17. CASE Reconcile \/ MainDelivery
  BY <1>17 DEF Reconcile, MainDelivery
<1>18. CASE Fails
  BY <1>18 DEF Fails, Blocks
<1>19. CASE TakesOver
  BY <1>19 DEF TakesOver, Keep, store
<1> QED
  BY <1>2, <1>3, <1>4, <1>5, <1>6, <1>7, <1>8, <1>9, <1>10, <1>11, <1>12, <1>13, <1>14, <1>15,
     <1>16, <1>17, <1>18, <1>19 DEF RowSteps

LEMMA HeadStep == PlaceInv /\ HeadInv /\ [PhaseNext]_phased => HeadInv'
<1> SUFFICES ASSUME PlaceInv, HeadInv, [PhaseNext]_phased
             PROVE  HeadInv'
  OBVIOUS
<1>0. /\ PhaseTypeOK /\ run \in RunRows /\ tree.head \in Nat
      /\ run.head \in Int /\ run.parent \in Int /\ run.fix \in Nat
  BY BudgetAssumption DEF PlaceInv, PhaseTypeOK, RunRows, Heads, NoHead, Rounds
<1>1. PhaseOfPlace
  BY DEF PlaceInv
<1> USE <1>0, <1>1 DEF HeadInv, RoundIsAtParent, HeadIsRecorded
<1>2. CASE RowSteps
  BY <1>2, RowStepHeads
<1>3. CASE Spawn
  <2>1. UNCHANGED <<run, tree>> /\ pc \in {"spawn", "spawnReview"} /\ pc' = "agent"
    BY <1>3, SpawnWrites
  <2> QED
    BY <2>1 DEF PhaseOfPlace, AtWork, AtReview
<1>4. CASE AgentEnds
  <2>1. UNCHANGED run /\ tree'.head = tree.head /\ pc = "agent" /\ pc' = "account"
    BY <1>4, TurnEndsWrites DEF AgentEnds, Step, Keep, store
  <2> QED
    BY <2>1
<1>5. CASE Account
  <2>1. UNCHANGED <<run, tree, mem>> /\ pc = "account" /\ pc' \in {"raise", "commit", "verdict"}
    BY <1>5, AccountWrites
  <2> QED
    BY <2>1
<1>6. CASE Dies
  <2>1. UNCHANGED <<run, mem>> /\ tree'.head = tree.head /\ pc' = "gone"
    BY <1>6, DiesWrites
  <2> QED
    BY <2>1
<1>7. CASE RecoverWorker
  <2>1. CASE pc' = "account"
    <3>1. /\ UNCHANGED <<run, tree>> /\ run.phase = "WORKER_RUNNING"
          /\ mem'.by = IF tree.head = run.parent THEN "found" ELSE "committed"
      BY <1>7, <2>1, RecoverWrites
    <3> QED
      BY <2>1, <3>1
  <2>2. CASE pc' = "loop"
    <3>1. /\ Reopen /\ UNCHANGED tree /\ run.phase = "WORKER_RUNNING" /\ tree.head = run.parent
      BY <1>7, <2>2, RecoverWrites
    <3> QED
      BY <2>2, <3>1, PhaseWriters DEF ShiftsTo, KeepsHead, KeepsRound, Base
  <2> QED
    BY <1>7, <2>1, <2>2, RecoverWrites
<1>8. CASE Review
  <2>1. /\ UNCHANGED tree /\ pc' \in {"account", "review"} /\ run.phase = "REVIEW_RUNNING"
        /\ run'.phase = run.phase /\ KeepsHead /\ KeepsRound
    BY <1>8, ReviewWrites DEF KeepsHead, KeepsRound
  <2> QED
    BY <2>1 DEF KeepsHead, KeepsRound
<1>9. CASE Commit
  <2>1. /\ pc = "commit" /\ mem.by # "committed" /\ pc' = "committed" /\ UNCHANGED <<run, mem>>
        /\ tree'.head = tree.head + 1
    BY <1>9 DEF Commit, Step, Keep, store
  <2> QED
    BY <2>1 DEF PhaseOfPlace, AtWork, AtReview
<1>10. CASE Publish \/ CiFails \/ OwnerMerges
  <2>1. UNCHANGED <<run, tree, mem>> /\ (pc' \in {"published", "requested"} \/ UNCHANGED pc)
    BY <1>10, OtherWrites DEF Publish, CiFails, OwnerMerges, Step, Keep, store
  <2> QED
    BY <2>1
<1>11. CASE UNCHANGED phased
  BY <1>11 DEF phased, store
<1> QED
  BY <1>2, <1>3, <1>4, <1>5, <1>6, <1>7, <1>8, <1>9, <1>10, <1>11, StepsOfPhaseNext DEF PhaseSteps

-----------------------------------------------------------------------------
(* Reviews and fix requests *)

ReviewIsDue ==
    /\ run.phase \in {"REVIEW_RUNNING", "READY_FOR_OWNER", "OWNER_MERGED", "COMPLETED", "BLOCKED"}
    /\ pc # "changes"

\* No review of this round has been started before its phase, nor of a later round.
ReviewsComeLast ==
    \A n \in Rounds : files[<<"reviewer", n>>] # 0 =>
        n <= run.fix /\ (~ReviewIsDue => n < run.fix)

\* A review that was started, of the HEAD it was started for.
ReviewIsOfHead ==
    /\ run.phase = "REVIEW_RUNNING" /\ Stream("reviewer") # 0 =>
          streams[Stream("reviewer")].head = run.head
    /\ pc = "decide" => streams[mem.stream].names = run.head /\ run.reviewed = run.head
    /\ pc = "changes" => streams[mem.stream].names = run.head

\* A round that may be asked for again can be answered.
RoundIsAnswerable ==
    /\ pc = "requested" => requests[run.fix + 1] = run.head
    /\ run.phase = "FIX_REQUESTED" => Answerable
    /\ run.phase = "WORKER_RUNNING" /\ run.fix # 0 /\ tree.head = run.parent => Answerable

ReviewInv == ReviewsComeLast /\ ReviewIsOfHead /\ RoundIsAnswerable

LEMMA ReviewInit == PhaseInit => ReviewInv
  BY DEF PhaseInit, ReviewInv, ReviewsComeLast, ReviewIsOfHead, RoundIsAnswerable, Roles, Rounds

\* What is known of a row and the HEADs it names.
LEMMA RowTypes ==
  ASSUME PlaceInv
  PROVE  /\ PhaseTypeOK /\ PhaseOfPlace /\ run \in RunRows /\ tree.head \in Nat
         /\ run.head \in Int /\ run.parent \in Int /\ run.fix \in Rounds /\ run.fix \in Nat
         /\ run.inv \in Nat
  BY BudgetAssumption DEF PlaceInv, PhaseTypeOK, RunRows, Heads, NoHead, Rounds

LEMMA RowStepReviews == PlaceInv /\ ReviewsComeLast /\ RowSteps => ReviewsComeLast'
<1> SUFFICES ASSUME PlaceInv, ReviewsComeLast, RowSteps
             PROVE  ReviewsComeLast'
  OBVIOUS
<1>1. UNCHANGED <<files, streams>>
  BY RowStepsWriteTheRow
<1> USE RowTypes, PhaseWriters, ColumnWriters
        DEF ReviewIsDue, PhaseOfPlace, AtWork, AtReview, AtPublish, AtGate, Step, In, ShiftsTo, KeepsRound
<1>2. run'.fix \in Nat /\ run'.fix >= run.fix /\ (~ReviewIsDue' => ~ReviewIsDue \/ run'.fix > run.fix)
  <2>1. CASE CreateWorktree \/ StartWorker \/ WorkerRuns
    BY <2>1 DEF CreateWorktree, StartWorker, WorkerRuns
  <2>2. CASE CommitFails
    BY <2>2 DEF CommitFails, Reopen
  <2>3. CASE CommitFound
    BY <2>3 DEF CommitFound, Keep, store
  <2>4. CASE RecordHead \/ WorkerCompletes \/ Unmark
    BY <2>4 DEF RecordHead, WorkerCompletes, Unmark
  <2>5. CASE ForgetEvidence \/ AwaitCi \/ CiPasses \/ AwaitReview
    BY <2>5 DEF ForgetEvidence, AwaitCi, CiPasses, AwaitReview
  <2>6. CASE RecordCiFix
    BY <2>6 DEF RecordCiFix
  <2>7. CASE StartReview \/ Verdict \/ RequestChanges
    BY <2>7 DEF StartReview, Verdict, RequestChanges
  <2>8. CASE Decide
    BY <2>8 DEF Decide
  <2>9. CASE Unbegin
    BY <2>9 DEF Unbegin
  <2>10. CASE Reconcile \/ MainDelivery \/ Fails
    BY <2>10 DEF Reconcile, MainDelivery, Fails, Blocks
  <2>11. CASE TakesOver
    BY <2>11 DEF TakesOver, Keep, store
  <2> QED
    BY <2>1, <2>2, <2>3, <2>4, <2>5, <2>6, <2>7, <2>8, <2>9, <2>10, <2>11 DEF RowSteps
<1>3. Rounds \subseteq Nat
  BY DEF Rounds
<1> QED
  BY <1>1, <1>2, <1>3 DEF ReviewsComeLast

LEMMA RowStepReviewed ==
  PlaceInv /\ ReviewsComeLast /\ ReviewIsOfHead /\ RowSteps => ReviewIsOfHead'
<1> SUFFICES ASSUME PlaceInv, ReviewsComeLast, ReviewIsOfHead, RowSteps
             PROVE  ReviewIsOfHead'
  OBVIOUS
<1>0. UNCHANGED <<files, streams, mem>>
  BY RowStepsWriteTheRow
<1> USE RowTypes, PhaseWriters, ColumnWriters
        DEF ReviewIsDue, PhaseOfPlace, AtWork, AtReview, AtPublish, AtGate, Step, In, ShiftsTo,
            KeepsRound, KeepsHead, KeepsEvidence
<1>1. CASE run'.phase # "REVIEW_RUNNING"
  <2>1. pc' \notin {"decide", "changes"}
    BY <1>1, RowPlaces
  <2> QED
    BY <1>1, <2>1 DEF ReviewIsOfHead
<1>2. CASE AwaitReview
  <2>1. run'.fix = run.fix /\ run.phase = "CI_WAITING" /\ pc' = "loop"
    BY <1>2 DEF AwaitReview
  <2>2. files[<<"reviewer", run.fix>>] = 0
    BY <2>1 DEF ReviewsComeLast
  <2> QED
    BY <1>0, <2>1, <2>2 DEF ReviewIsOfHead, Stream, Name
<1>3. CASE RequestChanges
  <2>1. /\ run'.fix = run.fix + 1 /\ run'.fix \in Rounds /\ pc = "decide" /\ pc' = "changes"
        /\ run'.head = run.head
    <3>1. run' \in RunRows
      BY <1>3
    <3> QED
      BY <1>3, <3>1 DEF RequestChanges, RunRows
  <2>2. files[<<"reviewer", run'.fix>>] = 0
    BY <2>1 DEF ReviewsComeLast
  <2> QED
    BY <1>0, <2>1, <2>2 DEF ReviewIsOfHead, Stream, Name
<1>4. CASE Verdict
  <2>1. /\ UNCHANGED <<run.fix, run.head, run.phase>> /\ run'.reviewed = run.head /\ pc' = "decide"
        /\ streams[mem.stream].names = run.head
    BY <1>4 DEF Verdict
  <2> QED
    BY <1>0, <2>1 DEF ReviewIsOfHead, Stream, Name
<1>5. CASE StartReview \/ TakesOver
  <2>1. UNCHANGED <<run.fix, run.head, run.phase>> /\ pc' \in {"spawnReview", "loop"}
    BY <1>5 DEF StartReview, TakesOver, Keep, store
  <2> QED
    BY <1>0, <2>1 DEF ReviewIsOfHead, Stream, Name
<1>6. run'.phase = "REVIEW_RUNNING" =>
        AwaitReview \/ RequestChanges \/ Verdict \/ StartReview \/ TakesOver
  <2>1. CASE CreateWorktree \/ StartWorker \/ WorkerRuns
    BY <2>1 DEF CreateWorktree, StartWorker, WorkerRuns
  <2>2. CASE CommitFails
    BY <2>2 DEF CommitFails, Reopen
  <2>3. CASE CommitFound
    BY <2>3 DEF CommitFound, Keep, store
  <2>4. CASE RecordHead \/ WorkerCompletes \/ Unmark
    BY <2>4 DEF RecordHead, WorkerCompletes, Unmark
  <2>5. CASE ForgetEvidence \/ AwaitCi \/ CiPasses
    BY <2>5 DEF ForgetEvidence, AwaitCi, CiPasses
  <2>6. CASE RecordCiFix
    BY <2>6 DEF RecordCiFix
  <2>7. CASE Decide
    BY <2>7 DEF Decide
  <2>8. CASE Unbegin
    BY <2>8 DEF Unbegin
  <2>9. CASE Reconcile \/ MainDelivery \/ Fails
    BY <2>9 DEF Reconcile, MainDelivery, Fails, Blocks
  <2> QED
    BY <2>1, <2>2, <2>3, <2>4, <2>5, <2>6, <2>7, <2>8, <2>9 DEF RowSteps
<1> QED
  BY <1>1, <1>2, <1>3, <1>4, <1>5, <1>6

\* A row step that begins a round leaves it answerable.
LEMMA RowStepAnswers == PlaceInv /\ HeadInv /\ ReviewInv /\ RowSteps => RoundIsAnswerable'
<1> SUFFICES ASSUME PlaceInv, HeadInv, ReviewInv, RowSteps
             PROVE  RoundIsAnswerable'
  OBVIOUS
<1>0. UNCHANGED <<files, streams, mem, requests, tree>> /\ pc' # "requested"
  <2>1. pc' # "requested"
    BY DEF RowSteps, CreateWorktree, StartWorker, WorkerRuns, CommitFails, CommitFound, RecordHead,
         WorkerCompletes, Unmark, ForgetEvidence, AwaitCi, CiPasses, AwaitReview, RecordCiFix,
         StartReview, Verdict, RequestChanges, Decide, Unbegin, Reconcile, MainDelivery,
         TakesOver, Fails, Blocks, Reopen, Step
  <2> QED
    BY <2>1, RowStepsWriteTheRow
<1>1. UNCHANGED <<run.fix, run.head>> => Answerable' = Answerable
  BY <1>0 DEF Answerable, Finished
<1> USE <1>0, <1>1, RowTypes, PhaseWriters, ColumnWriters
        DEF PhaseOfPlace, AtWork, AtReview, AtPublish, AtGate, Step, In, ShiftsTo,
            KeepsRound, KeepsHead, HeadInv, RoundIsAtParent, ReviewInv, RoundIsAnswerable
<1>2. CASE CreateWorktree
  BY <1>2 DEF CreateWorktree
<1>3. CASE StartWorker \/ WorkerRuns
  BY <1>3 DEF StartWorker, WorkerRuns
<1>4. CASE CommitFails
  BY <1>4 DEF CommitFails, Reopen
<1>5. CASE CommitFound \/ TakesOver
  BY <1>5 DEF CommitFound, TakesOver, Keep, store
<1>6. CASE RecordHead
  BY <1>6 DEF RecordHead
<1>7. CASE WorkerCompletes \/ Unmark
  BY <1>7 DEF WorkerCompletes, Unmark
<1>8. CASE ForgetEvidence \/ AwaitCi \/ CiPasses \/ AwaitReview
  BY <1>8 DEF ForgetEvidence, AwaitCi, CiPasses, AwaitReview
<1>9. CASE RecordCiFix
  <2>1. /\ run'.fix = run.fix + 1 /\ run'.head = run.head /\ run'.phase = "FIX_REQUESTED"
        /\ run.phase = "CI_WAITING" /\ requests[run.fix + 1] = run.head /\ run.fix + 1 - 1 = run.fix
    BY <1>9 DEF RecordCiFix
  <2>2. files[<<"reviewer", run.fix>>] = 0
    BY <2>1 DEF ReviewsComeLast, ReviewIsDue
  <2> QED
    BY <2>1, <2>2 DEF Answerable, Finished
<1>10. CASE StartReview \/ Verdict \/ RequestChanges
  BY <1>10 DEF StartReview, Verdict, RequestChanges
<1>11. CASE Decide
  <2>1. CASE pc = "changes"
    <3>1. /\ mem.stream = files[<<"reviewer", run.fix - 1>>] /\ Finished(mem.stream)
          /\ streams[mem.stream].names = run.head
      BY <2>1 DEF PlaceInv, StreamInHand, ReviewIsOfHead
    <3>2. Answerable
      BY <3>1 DEF Answerable
    <3> QED
      BY <1>11, <2>1, <3>2 DEF Decide
  <2>2. CASE pc # "changes"
    BY <1>11, <2>2 DEF Decide
  <2> QED
    BY <2>1, <2>2
<1>12. CASE Unbegin
  BY <1>12 DEF Unbegin
<1>13. CASE Reconcile \/ MainDelivery \/ Fails
  BY <1>13 DEF Reconcile, MainDelivery, Fails, Blocks
<1> QED
  BY <1>2, <1>3, <1>4, <1>5, <1>6, <1>7, <1>8, <1>9, <1>10, <1>11, <1>12, <1>13 DEF RowSteps

\* A step that begins no round and no review keeps what is known of them.
LEMMA QuietStepReviews ==
  ASSUME PlaceInv, HeadInv, ReviewInv, UNCHANGED <<files, requests>>,
         UNCHANGED <<run.phase, run.fix, run.head, run.parent>>,
         tree'.head = tree.head \/ tree'.head # run.parent,
         \A i \in DOMAIN streams :
            /\ streams'[i].head = streams[i].head
            /\ run.phase # "REVIEW_RUNNING" /\ streams[i].role = "reviewer" =>
                  streams'[i] = streams[i],
         pc' \notin {"decide", "changes", "requested"}
  PROVE  ReviewInv'
<1>1. ReviewsComeLast'
  BY DEF ReviewInv, ReviewsComeLast, ReviewIsDue
<1>2. ReviewIsOfHead'
  <2>1. Stream("reviewer") # 0 => Stream("reviewer") \in DOMAIN streams
    BY StreamOfRole DEF Roles
  <2>2. Stream("reviewer")' = Stream("reviewer")
    BY DEF Stream, Name
  <2> QED
    BY <2>1, <2>2 DEF ReviewInv, ReviewIsOfHead
<1>3. ASSUME run.fix # 0, run.phase \in {"FIX_REQUESTED", "WORKER_RUNNING"}, Answerable
      PROVE  Answerable'
  <2> DEFINE r == files[<<"reviewer", run.fix - 1>>]
  <2>1. <<"reviewer", run.fix - 1>> \in Roles \X Rounds
    BY <1>3, RowTypes, BudgetAssumption DEF Roles, Rounds
  <2>2. r # 0 => r \in DOMAIN streams /\ streams[r].role = "reviewer"
    BY <2>1 DEF PlaceInv, FilesAreOfRole
  <2>3. r # 0 => streams'[r] = streams[r]
    BY <1>3, <2>2
  <2> QED
    BY <1>3, <2>3 DEF Answerable, Finished
<1> QED
  BY <1>1, <1>2, <1>3 DEF ReviewInv, RoundIsAnswerable, HeadInv, RoundIsAtParent

LEMMA SpawnReviews == PlaceInv /\ HeadInv /\ ReviewInv /\ Spawn => ReviewInv'
<1> SUFFICES ASSUME PlaceInv, HeadInv, ReviewInv, Spawn
             PROVE  ReviewInv'
  OBVIOUS
<1>0. /\ UNCHANGED <<run, tree, requests>> /\ pc \in {"spawn", "spawnReview"} /\ pc' = "agent"
      /\ files' = [files EXCEPT ![<<RoleOfPhase, run.fix>>] = Len(streams')]
      /\ \A i \in DOMAIN streams : streams'[i] = streams[i]
  BY SpawnWrites
<1>1. files \in [Roles \X Rounds -> Nat] /\ run.fix \in Rounds /\ run.fix \in Nat
  BY RowTypes DEF PlaceInv, PhaseTypeOK
<1>2. CASE run.phase = "WORKER_RUNNING"
  <2>1. RoleOfPhase = "worker"
    BY <1>2 DEF RoleOfPhase
  <2>2. \A n \in Rounds : files'[<<"reviewer", n>>] = files[<<"reviewer", n>>]
    BY <1>0, <1>1, <2>1 DEF Roles
  <2>3. ReviewsComeLast'
    BY <1>0, <1>2, <2>2 DEF ReviewInv, ReviewsComeLast, ReviewIsDue
  <2>4. ASSUME run.fix # 0, Answerable
        PROVE  Answerable'
    <3> DEFINE r == files[<<"reviewer", run.fix - 1>>]
    <3>1. run.fix - 1 \in Rounds
      BY <1>1, <2>4, BudgetAssumption DEF Rounds
    <3>2. files'[<<"reviewer", run.fix - 1>>] = r
      BY <2>2, <3>1
    <3>3. r # 0 => streams'[r] = streams[r]
      BY <1>0, <3>1 DEF PlaceInv, FilesAreOfRole, Roles
    <3> QED
      BY <1>0, <2>4, <3>2, <3>3 DEF Answerable, Finished
  <2> QED
    BY <1>0, <1>2, <2>3, <2>4 DEF ReviewInv, ReviewIsOfHead, RoundIsAnswerable
<1>3. CASE run.phase = "REVIEW_RUNNING"
  <2>1. RoleOfPhase = "reviewer"
    BY <1>3 DEF RoleOfPhase
  <2>2. \A n \in Rounds : n # run.fix => files'[<<"reviewer", n>>] = files[<<"reviewer", n>>]
    BY <1>0, <1>1, <2>1 DEF Roles
  <2>3. ReviewsComeLast'
    BY <1>0, <1>1, <1>3, <2>2 DEF ReviewInv, ReviewsComeLast, ReviewIsDue
  <2>4. Stream("reviewer")' = Len(streams')
    BY <1>0, <1>1, <2>1 DEF Stream, Name, Roles
  <2>5. streams'[Len(streams')].head = run.head
    BY <1>3, SpawnWrites DEF HeadInv, HeadIsRecorded
  <2> QED
    BY <1>0, <1>3, <2>3, <2>4, <2>5 DEF ReviewInv, ReviewIsOfHead, RoundIsAnswerable
<1> QED
  BY <1>0, <1>2, <1>3 DEF PlaceInv, PhaseOfPlace, AtWork, AtReview

LEMMA TurnKeepsReviews ==
  ASSUME PlaceInv, pc = "agent", TurnEnds(Len(streams)), NEW i \in DOMAIN streams
  PROVE  /\ streams'[i].head = streams[i].head
         /\ run.phase # "REVIEW_RUNNING" /\ streams[i].role = "reviewer" => streams'[i] = streams[i]
<1>1. run.phase \in {"WORKER_RUNNING", "REVIEW_RUNNING"} /\ RoleOfPhase \in Roles
  BY DEF PlaceInv, PhaseOfPlace, AtWork, AtReview, RoleOfPhase, Roles
<1>2. streams[Len(streams)].role = RoleOfPhase
  BY <1>1, StreamOfRole DEF PlaceInv, StreamInHand
<1> QED
  BY <1>1, <1>2, TurnEndsWrites DEF SameStream, RoleOfPhase

LEMMA ReviewStep == PlaceInv /\ HeadInv /\ ReviewInv /\ [PhaseNext]_phased => ReviewInv'
<1> SUFFICES ASSUME PlaceInv, HeadInv, ReviewInv, [PhaseNext]_phased
             PROVE  ReviewInv'
  OBVIOUS
<1>1. CASE RowSteps
  BY <1>1, RowStepReviews, RowStepReviewed, RowStepAnswers DEF ReviewInv
<1>2. CASE Spawn
  BY <1>2, SpawnReviews
<1>3. CASE AgentEnds
  <2>1. /\ UNCHANGED <<run, files, requests>> /\ pc = "agent" /\ pc' = "account"
        /\ TurnEnds(Len(streams))
    BY <1>3 DEF AgentEnds, Step, Keep, store
  <2> QED
    BY <2>1, TurnEndsWrites, TurnKeepsReviews, QuietStepReviews
<1>4. CASE Account
  BY <1>4, AccountWrites, QuietStepReviews
<1>5. CASE Dies
  <2>1. UNCHANGED <<run, files, requests>> /\ pc' = "gone" /\ tree'.head = tree.head
    BY <1>5, DiesWrites
  <2>2. CASE UNCHANGED streams
    BY <2>1, <2>2, QuietStepReviews
  <2>3. CASE pc = "agent" /\ TurnEnds(Len(streams))
    BY <2>1, <2>3, TurnKeepsReviews, QuietStepReviews
  <2> QED
    BY <1>5, <2>2, <2>3, DiesWrites
<1>6. CASE RecoverWorker
  <2>1. CASE pc' = "account"
    <3>1. UNCHANGED <<run, tree, files, requests, streams>>
      BY <1>6, <2>1, RecoverWrites
    <3> QED
      BY <2>1, <3>1, QuietStepReviews
  <2>2. CASE pc' = "loop"
    <3>1. /\ UNCHANGED <<tree, streams, files, requests, mem>> /\ Reopen /\ run.phase = "WORKER_RUNNING"
          /\ tree.head = run.parent /\ pc = "loop"
      BY <1>6, <2>2, RecoverWrites
    <3>2. /\ UNCHANGED <<run.fix, run.head>>
          /\ run'.phase = IF run.fix = 0 THEN "CLAIMED" ELSE "FIX_REQUESTED"
      BY <3>1, PhaseWriters, RowTypes DEF ShiftsTo, KeepsHead, KeepsRound
    <3>3. ReviewsComeLast' /\ ReviewIsOfHead'
      BY <2>2, <3>1, <3>2 DEF ReviewInv, ReviewsComeLast, ReviewIsDue, ReviewIsOfHead
    <3>4. Answerable' = Answerable
      BY <3>1, <3>2 DEF Answerable, Finished
    <3> QED
      BY <2>2, <3>1, <3>2, <3>3, <3>4 DEF ReviewInv, RoundIsAnswerable
  <2> QED
    BY <1>6, <2>1, <2>2, RecoverWrites
<1>7. CASE Review
  <2>1. /\ UNCHANGED <<tree, streams, files, requests>> /\ pc' \in {"account", "review"}
        /\ UNCHANGED <<run.phase, run.fix, run.head, run.parent>>
    BY <1>7, ReviewWrites DEF KeepsHead, KeepsRound
  <2> QED
    BY <2>1, QuietStepReviews
<1>8. CASE Commit
  <2>1. /\ UNCHANGED <<run, streams, files, requests>> /\ pc' = "committed"
        /\ tree'.head = tree.head + 1 /\ tree.head = run.parent
    BY <1>8 DEF Commit, Valid, Step, Keep, store
  <2> QED
    BY <2>1, RowTypes, QuietStepReviews
<1>9. CASE Publish \/ OwnerMerges
  <2>1. /\ UNCHANGED <<run, tree, streams, files, requests>>
        /\ pc' \notin {"decide", "changes", "requested"}
    BY <1>9 DEF Publish, OwnerMerges, Step, Keep, store, PlaceInv, PhaseOfPlace, AtWork, AtReview, AtGate
  <2> QED
    BY <2>1, QuietStepReviews
<1>10. CASE CiFails
  <2>1. /\ UNCHANGED <<run, tree, streams, files, mem>> /\ pc = "loop" /\ pc' = "requested"
        /\ run.phase = "CI_WAITING" /\ run.fix < MaxFixRounds
        /\ requests' = [requests EXCEPT ![run.fix + 1] = run.head]
    BY <1>10 DEF CiFails, In, Step, Keep, store
  <2>2. requests'[run.fix + 1] = run.head
    BY <2>1, RowTypes, BudgetAssumption DEF PlaceInv, PhaseTypeOK, Rounds
  <2> QED
    BY <2>1, <2>2 DEF ReviewInv, ReviewsComeLast, ReviewIsDue, ReviewIsOfHead, RoundIsAnswerable
<1>11. CASE UNCHANGED phased
  BY <1>11 DEF phased, store, ReviewInv, ReviewsComeLast, ReviewIsDue, ReviewIsOfHead,
               RoundIsAnswerable, Answerable, Finished, Stream, Name
<1> QED
  BY <1>1, <1>2, <1>3, <1>4, <1>5, <1>6, <1>7, <1>8, <1>9, <1>10, <1>11, StepsOfPhaseNext DEF PhaseSteps

-----------------------------------------------------------------------------
(* Evidence *)

EvidenceIsOfHead ==
    /\ pc = "passed" \/ run.phase = "REVIEW_RUNNING" => run.ci = run.head
    /\ pc \in {"published", "forgotten"} \/ run.phase \in {"CI_WAITING", "REVIEW_RUNNING"} =>
          pull.head = run.head

EvidenceInv == EvidenceIsOfHead /\ ReadyIsProven

Proven == {"READY_FOR_OWNER", "OWNER_MERGED", "COMPLETED"}

LEMMA EvidenceInit == PhaseInit => EvidenceInv
  BY DEF PhaseInit, EvidenceInv, EvidenceIsOfHead, ReadyIsProven

\* A passed review that is decided on is one of the HEAD that passed CI.
LEMMA DecideProves ==
  ASSUME PlaceInv, HeadInv, ReviewInv, EvidenceInv, Decide, pc = "decide"
  PROVE  EvidenceInv'
<1>1. /\ run.phase = "REVIEW_RUNNING" /\ pc' = "unbegin" /\ streams[mem.stream].res = "pass"
      /\ UNCHANGED <<tree, streams, pull>>
      /\ run'.phase = "READY_FOR_OWNER" /\ KeepsHead /\ KeepsEvidence
  BY RowTypes, PhaseWriters
  DEF Decide, Keep, Step, ShiftsTo, PhaseOfPlace, AtReview, AtWork
<1>2. /\ mem.stream = Stream("reviewer") /\ mem.stream # 0 /\ run.reviewed = run.head
      /\ streams[mem.stream].head = run.head
  BY <1>1 DEF PlaceInv, StreamInHand, RoleOfPhase, Finished, ReviewInv, ReviewIsOfHead
<1>3. mem.stream \in DOMAIN streams /\ streams[mem.stream].role = "reviewer"
  BY <1>2, StreamOfRole DEF Roles
<1>4. run.head = tree.head /\ run.ci = run.head /\ pull.head = run.head
  BY <1>1 DEF HeadInv, HeadIsRecorded, EvidenceInv, EvidenceIsOfHead
<1> QED
  BY <1>1, <1>2, <1>3, <1>4 DEF EvidenceInv, EvidenceIsOfHead, ReadyIsProven, KeepsHead, KeepsEvidence

LEMMA RowStepEvidence == PlaceInv /\ HeadInv /\ ReviewInv /\ EvidenceInv /\ RowSteps => EvidenceInv'
<1> SUFFICES ASSUME PlaceInv, HeadInv, ReviewInv, EvidenceInv, RowSteps
             PROVE  EvidenceInv'
  OBVIOUS
<1>0. UNCHANGED <<tree, streams, pull>>
  BY RowStepsWriteTheRow
<1> USE <1>0, RowTypes, PhaseWriters, ColumnWriters
        DEF PhaseOfPlace, AtWork, AtReview, AtPublish, AtGate, Step, In, ShiftsTo,
            KeepsRound, KeepsHead, KeepsEvidence, EvidenceInv, EvidenceIsOfHead, ReadyIsProven
<1>1. CASE CreateWorktree \/ StartWorker \/ WorkerRuns
  BY <1>1 DEF CreateWorktree, StartWorker, WorkerRuns
<1>2. CASE CommitFails
  BY <1>2 DEF CommitFails, Reopen
<1>3. CASE CommitFound \/ TakesOver
  BY <1>3 DEF CommitFound, TakesOver, Keep, store
<1>4. CASE RecordHead \/ WorkerCompletes \/ Unmark
  BY <1>4 DEF RecordHead, WorkerCompletes, Unmark
<1>5. CASE ForgetEvidence \/ AwaitCi
  BY <1>5 DEF ForgetEvidence, AwaitCi
<1>6. CASE CiPasses \/ AwaitReview
  BY <1>6 DEF CiPasses, AwaitReview
<1>7. CASE RecordCiFix
  BY <1>7 DEF RecordCiFix
<1>8. CASE StartReview \/ Verdict \/ RequestChanges
  BY <1>8 DEF StartReview, Verdict, RequestChanges
<1>9. CASE Decide
  <2>1. CASE pc = "changes"
    BY <1>9, <2>1 DEF Decide
  <2> QED
    BY <1>9, <2>1, DecideProves DEF Decide
<1>10. CASE Unbegin
  BY <1>10 DEF Unbegin
<1>11. CASE Reconcile \/ MainDelivery
  BY <1>11 DEF Reconcile, MainDelivery
<1>12. CASE Fails
  BY <1>12 DEF Fails, Blocks
<1> QED
  BY <1>1, <1>2, <1>3, <1>4, <1>5, <1>6, <1>7, <1>8, <1>9, <1>10, <1>11, <1>12 DEF RowSteps

LEMMA EvidenceStep ==
  PlaceInv /\ HeadInv /\ ReviewInv /\ EvidenceInv /\ [PhaseNext]_phased => EvidenceInv'
<1> SUFFICES ASSUME PlaceInv, HeadInv, ReviewInv, EvidenceInv, [PhaseNext]_phased
             PROVE  EvidenceInv'
  OBVIOUS
<1> USE RowTypes DEF EvidenceInv, EvidenceIsOfHead, ReadyIsProven
<1>1. CASE RowSteps
  BY <1>1, RowStepEvidence
<1>2. CASE Spawn
  <2>1. /\ UNCHANGED <<run, pull>> /\ pc \in {"spawn", "spawnReview"} /\ pc' = "agent"
    BY <1>2, SpawnWrites
  <2>2. run.phase \notin Proven
    BY <2>1 DEF PhaseOfPlace, AtWork, AtReview, Proven
  <2> QED
    BY <2>1, <2>2 DEF Proven
<1>3. CASE AgentEnds
  <2>1. UNCHANGED <<run, pull>> /\ pc = "agent" /\ pc' = "account"
    BY <1>3 DEF AgentEnds, Step, Keep, store
  <2>2. run.phase \notin Proven
    BY <2>1 DEF PhaseOfPlace, AtWork, AtReview, Proven
  <2> QED
    BY <2>1, <2>2 DEF Proven
<1>4. CASE Account
  BY <1>4, AccountWrites
<1>5. CASE Dies
  <2>1. UNCHANGED <<run, pull>> /\ tree'.head = tree.head /\ pc' = "gone"
    BY <1>5, DiesWrites
  <2>2. CASE UNCHANGED streams
    BY <2>1, <2>2
  <2>3. CASE pc = "agent"
    <3>1. run.phase \notin Proven
      BY <2>3 DEF PhaseOfPlace, AtWork, AtReview, Proven
    <3> QED
      BY <2>1, <3>1 DEF Proven
  <2> QED
    BY <1>5, <2>2, <2>3, DiesWrites
<1>6. CASE RecoverWorker
  <2>1. run'.phase \in {"WORKER_RUNNING", "CLAIMED", "FIX_REQUESTED"} /\ pc' \in {"account", "loop"}
    BY <1>6, RecoverWrites, PhaseWriters DEF ShiftsTo
  <2> QED
    BY <2>1
<1>7. CASE Review
  BY <1>7, ReviewWrites DEF KeepsHead
<1>8. CASE Commit
  <2>1. UNCHANGED run /\ pc' = "committed" /\ run.phase = "WORKER_RUNNING"
    BY <1>8 DEF Commit, Step, Keep, store, PhaseOfPlace, AtWork, AtReview
  <2> QED
    BY <2>1
<1>9. CASE Publish
  <2>1. UNCHANGED run /\ pc' = "published" /\ run.phase = "WORKER_COMPLETE" /\ pull'.head = run.head
    BY <1>9 DEF Publish, In, Step, Keep, store, PlaceInv, PhaseTypeOK
  <2> QED
    BY <2>1
<1>10. CASE CiFails
  BY <1>10 DEF CiFails, In, Step, Keep, store
<1>11. CASE OwnerMerges
  <2>1. UNCHANGED <<run, tree, streams, pc>> /\ pull'.head = pull.head
    BY <1>11 DEF OwnerMerges, Keep, store, PlaceInv, PhaseTypeOK
  <2> QED
    BY <2>1
<1>12. CASE UNCHANGED phased
  BY <1>12 DEF phased, store
<1> QED
  BY <1>1, <1>2, <1>3, <1>4, <1>5, <1>6, <1>7, <1>8, <1>9, <1>10, <1>11, <1>12, StepsOfPhaseNext
  DEF PhaseSteps

-----------------------------------------------------------------------------
(* Tokens *)

Unrecorded == {i \in DOMAIN streams : streams[i].done /\ \A e \in ledger : e.stream # i}

\* The only turn that ended and is not in the ledger is that of the agent in hand.
UnrecordedIsInHand ==
    /\ run.phase = "WORKER_RUNNING" => Unrecorded \subseteq {Stream("worker")}
    /\ run.phase = "REVIEW_RUNNING" =>
          Unrecorded \subseteq {Stream("reviewer")} /\ (Unrecorded # {} => run.begun = run.head)
    /\ pc = "spawnReview" \/ (pc = "agent" /\ run.phase = "REVIEW_RUNNING") => run.begun = run.head
    /\ run.phase \notin {"WORKER_RUNNING", "REVIEW_RUNNING", "BLOCKED"} \/ pc \notin {"loop", "gone", "account"} =>
          Unrecorded = {}

LEMMA UnrecordedInit == PhaseInit => UnrecordedIsInHand
  BY DEF PhaseInit, UnrecordedIsInHand, Unrecorded

\* Whatever a controller does with its row, but for a block or a handover, it does when
\* all is recorded.
LEMMA RowStepRecorded ==
  ASSUME PlaceInv, UnrecordedIsInHand, RowSteps
  PROVE  Fails \/ TakesOver \/ Unrecorded = {}
<1> USE DEF In, UnrecordedIsInHand
<1>1. CASE CreateWorktree \/ StartWorker \/ WorkerRuns
  BY <1>1 DEF CreateWorktree, StartWorker, WorkerRuns
<1>2. CASE CommitFails \/ CommitFound \/ RecordHead \/ WorkerCompletes \/ Unmark
  BY <1>2 DEF CommitFails, CommitFound, RecordHead, WorkerCompletes, Unmark
<1>3. CASE ForgetEvidence \/ AwaitCi \/ CiPasses \/ AwaitReview \/ RecordCiFix
  BY <1>3 DEF ForgetEvidence, AwaitCi, CiPasses, AwaitReview, RecordCiFix
<1>4. CASE StartReview \/ Verdict \/ RequestChanges \/ Decide \/ Unbegin
  BY <1>4 DEF StartReview, Verdict, RequestChanges, Decide, Unbegin
<1>5. CASE Reconcile \/ MainDelivery
  BY <1>5 DEF Reconcile, MainDelivery
<1> QED
  BY <1>1, <1>2, <1>3, <1>4, <1>5 DEF RowSteps

LEMMA RowStepUnrecorded == PlaceInv /\ UnrecordedIsInHand /\ RowSteps => UnrecordedIsInHand'
<1> SUFFICES ASSUME PlaceInv, UnrecordedIsInHand, RowSteps
             PROVE  UnrecordedIsInHand'
  OBVIOUS
<1>0. Unrecorded' = Unrecorded
  BY RowStepsWriteTheRow DEF Unrecorded
<1>1. pc' = "spawnReview" => run'.begun = run'.head
  <2>1. pc' = "spawnReview" => StartReview
    BY DEF RowSteps, CreateWorktree, StartWorker, WorkerRuns, CommitFails, CommitFound, RecordHead,
         WorkerCompletes, Unmark, ForgetEvidence, AwaitCi, CiPasses, AwaitReview, RecordCiFix,
         Verdict, RequestChanges, Decide, Unbegin, Reconcile, MainDelivery,
         TakesOver, Fails, Blocks, Reopen, Step
  <2> QED
    BY <2>1, RowTypes, ColumnWriters DEF KeepsHead
<1>2. pc' # "agent"
  BY RowPlaces
<1>3. CASE Unrecorded = {}
  BY <1>0, <1>1, <1>2, <1>3 DEF UnrecordedIsInHand
<1>4. CASE Fails
  BY <1>4, <1>1, <1>2, RowTypes, PhaseWriters DEF UnrecordedIsInHand, Fails, Blocks, Step, ShiftsTo
<1>5. CASE TakesOver
  BY <1>0, <1>1, <1>2, <1>5, RowStepsWriteTheRow
  DEF UnrecordedIsInHand, TakesOver, Step, Keep, store, Stream, Name
<1> QED
  BY <1>3, <1>4, <1>5, RowStepRecorded

\* A turn that ends leaves one stream to record, that of the agent.
LEMMA TurnUnrecorded ==
  ASSUME PlaceInv, UnrecordedIsInHand, pc = "agent", TurnEnds(Len(streams)),
         UNCHANGED <<run, ledger, files>>, pc' \in {"account", "gone"}
  PROVE  UnrecordedIsInHand'
<1>1. DOMAIN streams' = DOMAIN streams
  BY TurnKeepsFiles
<1>2. Unrecorded = {}
  BY DEF UnrecordedIsInHand
<1>3. Unrecorded' \subseteq {Len(streams)}
  BY <1>1, <1>2, TurnEndsWrites DEF Unrecorded
<1>4. Stream(RoleOfPhase)' = Len(streams)
  BY DEF PlaceInv, StreamInHand, RoleOfPhase, Stream, Name
<1>5. run.phase \in {"WORKER_RUNNING", "REVIEW_RUNNING"}
  BY DEF PlaceInv, PhaseOfPlace, AtWork, AtReview
<1> QED
  BY <1>3, <1>4, <1>5 DEF UnrecordedIsInHand, RoleOfPhase

LEMMA UnrecordedStep ==
  PlaceInv /\ UnrecordedIsInHand /\ [PhaseNext]_phased => UnrecordedIsInHand'
<1> SUFFICES ASSUME PlaceInv, UnrecordedIsInHand, [PhaseNext]_phased
             PROVE  UnrecordedIsInHand'
  OBVIOUS
<1>1. CASE RowSteps
  BY <1>1, RowStepUnrecorded
<1>2. CASE Spawn
  <2>1. /\ pc \in {"spawn", "spawnReview"} /\ pc' = "agent" /\ UNCHANGED <<run, ledger>>
        /\ streams' \in Seq(EventStreams) /\ Len(streams') = Len(streams) + 1
        /\ \A i \in DOMAIN streams : streams'[i] = streams[i]
        /\ ~streams'[Len(streams')].done
    BY <1>2, SpawnWrites
  <2>2. \A i \in DOMAIN streams' : i = Len(streams') \/ i \in DOMAIN streams
    BY <2>1, LenProperties DEF PlaceInv, PhaseTypeOK
  <2>3. Unrecorded = {}
    BY <2>1 DEF UnrecordedIsInHand
  <2>4. Unrecorded' = {}
    BY <2>1, <2>2, <2>3 DEF Unrecorded
  <2>5. run.phase = "REVIEW_RUNNING" => pc = "spawnReview"
    BY <2>1 DEF PlaceInv, PhaseOfPlace, AtWork, AtReview
  <2> QED
    BY <2>1, <2>4, <2>5 DEF UnrecordedIsInHand
<1>3. CASE AgentEnds
  BY <1>3, TurnUnrecorded DEF AgentEnds, Step, Keep, store
<1>4. CASE Account
  <2>1. /\ pc = "account" /\ UNCHANGED <<run, streams>> /\ pc' \in {"raise", "commit", "verdict"}
        /\ ledger' = ledger \cup {[inv |-> Invocation(RoleOfPhase), stream |-> mem.stream]}
        /\ mem.stream = Stream(RoleOfPhase)
    BY <1>4, AccountWrites
  <2>2. Unrecorded \subseteq {mem.stream}
    BY <2>1 DEF UnrecordedIsInHand, RoleOfPhase, PlaceInv, PhaseOfPlace, AtWork, AtReview
  <2>3. Unrecorded' = {}
    <3> DEFINE entry == [inv |-> Invocation(RoleOfPhase), stream |-> mem.stream]
    <3>1. entry.stream = mem.stream /\ ledger' = ledger \cup {entry}
      BY <2>1
    <3> HIDE DEF entry
    <3> QED
      BY <2>1, <2>2, <3>1 DEF Unrecorded
  <2> QED
    BY <2>1, <2>3 DEF UnrecordedIsInHand
<1>5. CASE Dies
  <2>1. CASE UNCHANGED streams
    BY <1>5, <2>1, DiesWrites DEF UnrecordedIsInHand, Unrecorded, Stream, Name
  <2> QED
    BY <1>5, <2>1, DiesWrites, TurnUnrecorded
<1>6. CASE RecoverWorker \/ Review
  <2>0. DOMAIN streams = 1..Len(streams) /\ 0 \notin DOMAIN streams /\ UNCHANGED <<ledger, streams, files>>
    BY <1>6, RecoverWrites, ReviewWrites, LenProperties DEF PlaceInv, PhaseTypeOK
  <2>1. Unrecorded' = Unrecorded
    BY <2>0 DEF Unrecorded
  <2>2. CASE pc' = "account"
    BY <1>6, <2>0, <2>1, <2>2, RecoverWrites, ReviewWrites DEF UnrecordedIsInHand, Stream, Name
  <2>3. CASE RecoverWorker /\ pc' = "loop"
    <3>1. run.phase = "WORKER_RUNNING" /\ ~Finished(Stream("worker"))
      BY <2>3, RecoverWrites
    <3>2. Unrecorded = {}
      BY <2>0, <3>1 DEF UnrecordedIsInHand, Unrecorded, Finished
    <3> QED
      BY <2>1, <2>3, <3>2 DEF UnrecordedIsInHand
  <2>4. CASE Review /\ pc' = "review"
    <3>1. /\ run.phase = "REVIEW_RUNNING"
          /\ ~(run.begun = run.head /\ Finished(Stream("reviewer")))
      BY <2>4, ReviewWrites
    <3>2. Unrecorded = {}
      BY <2>0, <3>1 DEF UnrecordedIsInHand, Unrecorded, Finished
    <3> QED
      BY <2>1, <2>4, <3>2 DEF UnrecordedIsInHand
  <2> QED
    BY <1>6, <2>2, <2>3, <2>4, RecoverWrites, ReviewWrites
<1>7. CASE Commit \/ Publish \/ CiFails \/ OwnerMerges
  <2>1. Unrecorded' = Unrecorded
    BY <1>7, OtherWrites DEF Unrecorded
  <2>2. CASE OwnerMerges
    BY <2>1, <2>2 DEF OwnerMerges, Keep, store, UnrecordedIsInHand, Stream, Name
  <2>3. CASE Commit \/ Publish \/ CiFails
    <3>1. Unrecorded = {}
      BY <2>3 DEF Commit, Publish, CiFails, In, UnrecordedIsInHand
    <3> QED
      BY <2>1, <2>3, <3>1 DEF Commit, Publish, CiFails, Step, UnrecordedIsInHand
  <2> QED
    BY <1>7, <2>2, <2>3
<1>8. CASE UNCHANGED phased
  BY <1>8 DEF phased, store, UnrecordedIsInHand, Unrecorded, Stream, Name
<1> QED
  BY <1>1, <1>2, <1>3, <1>4, <1>5, <1>6, <1>7, <1>8, StepsOfPhaseNext DEF PhaseSteps

-----------------------------------------------------------------------------
(* The theorems *)

PhaseInv == /\ PlaceInv /\ InvocationsAreCounted /\ HeadInv /\ ReviewInv /\ EvidenceInv
            /\ UnrecordedIsInHand

LEMMA PhaseInvariant == PhaseSpec => []PhaseInv
<1>1. PhaseInit => PhaseInv
  <2>1. PhaseInit => InvocationsAreCounted
    <3> SUFFICES ASSUME PhaseInit PROVE InvocationsAreCounted
      OBVIOUS
    <3>1. Len(streams) = 0
      BY EmptySeq DEF PhaseInit
    <3> QED
      BY <3>1 DEF PhaseInit, InvocationsAreCounted
  <2> QED
    BY <2>1, PlaceInit, HeadInit, ReviewInit, EvidenceInit, UnrecordedInit DEF PhaseInv
<1>2. PhaseInv /\ [PhaseNext]_phased => PhaseInv'
  BY PlaceStep, InvocationStep, HeadStep, ReviewStep, EvidenceStep, UnrecordedStep DEF PhaseInv
<1> QED
  BY <1>1, <1>2, PTL DEF PhaseSpec

\* The row, the files and the ledger of a run stay what they are, whatever the controller
\* is in the middle of.
THEOREM PhasesAreTyped == PhaseSpec => []PhaseTypeOK
<1>1. PhaseInv => PhaseTypeOK
  BY DEF PhaseInv, PlaceInv
<1> QED
  BY <1>1, PhaseInvariant, PTL

\* A run that has left the worker's turn knows the commit it made, wherever controllers died.
THEOREM HeadsAreRecorded == PhaseSpec => []HeadIsRecorded
<1>1. PhaseInv => HeadIsRecorded
  BY DEF PhaseInv, HeadInv
<1> QED
  BY <1>1, PhaseInvariant, PTL

\* What reaches the owner is the HEAD that passed CI and that a reviewer passed.
THEOREM ReadyRunsAreProven == PhaseSpec => []ReadyIsProven
<1>1. PhaseInv => ReadyIsProven
  BY DEF PhaseInv, EvidenceInv
<1> QED
  BY <1>1, PhaseInvariant, PTL

\* A fix round has the findings or the CI failure of the HEAD it starts from.
THEOREM FixRoundsAreAnswerable == PhaseSpec => []FixIsAnswerable
<1>1. PhaseInv => FixIsAnswerable
  BY DEF PhaseInv, HeadInv, HeadIsRecorded, ReviewInv, RoundIsAnswerable, FixIsAnswerable
<1> QED
  BY <1>1, PhaseInvariant, PTL

\* Once a run moves on, every turn that ended is in the ledger.
THEOREM TokensAreKept == PhaseSpec => []NoTokensErased
<1>1. PhaseInv => NoTokensErased
  BY DEF PhaseInv, UnrecordedIsInHand, Unrecorded, NoTokensErased
<1> QED
  BY <1>1, PhaseInvariant, PTL

\* No more agents run than the budget has invocations, however many controllers die.
THEOREM AgentsStayInBudget == PhaseSpec => []AgentsAreBounded
<1>1. PhaseInv => AgentsAreBounded
  <2> SUFFICES ASSUME PhaseInv PROVE AgentsAreBounded
    OBVIOUS
  <2>1. Len(streams) \in Nat /\ run.inv \in 0..MaxInvocations /\ Len(streams) <= run.inv
    BY RowTypes, RoundIsARound, LenProperties
    DEF PhaseInv, InvocationsAreCounted, PlaceInv, PhaseTypeOK
  <2> QED
    BY <2>1, BudgetAssumption DEF AgentsAreBounded
<1> QED
  BY <1>1, PhaseInvariant, PTL

\* The two halves of the orchestrator leave each other alone: what is proved of either
\* holds of the whole.
LEMMA HalvesAreIndependent == OrchestratorSpec => Spec /\ PhaseSpec
<1>1. OrchestratorInit => Init /\ PhaseInit
  BY DEF OrchestratorInit
<1>2. [OrchestratorNext]_<<half, vars, phased>> => [Next]_vars /\ [PhaseNext]_phased
  BY DEF OrchestratorNext, ControlStep, PhaseStep
<1> QED
  BY <1>1, <1>2, PTL DEF OrchestratorSpec, Spec, PhaseSpec

=============================================================================

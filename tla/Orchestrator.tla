----------------------------- MODULE Orchestrator ------------------------------
(***************************************************************************)
(* The two halves of the orchestrator.  RunControl has the processes of    *)
(* many runs and takes what a controller does with its run as one kind of  *)
(* step; RunPhases has that work for one run, and of the other half only   *)
(* that controllers die and that one takes over when none is left.  The    *)
(* columns of a run they write are disjoint but for the phase, of which    *)
(* RunControl has a coarser view: a behaviour here is one of either half.  *)
(***************************************************************************)
EXTENDS RunControl, RunPhases

VARIABLE half

ControlStep == half = "control" /\ Next /\ UNCHANGED <<half, phased>>
PhaseStep   == half = "phases" /\ PhaseNext /\ UNCHANGED <<half, vars>>

OrchestratorInit == Init /\ PhaseInit /\ half \in {"control", "phases"}

OrchestratorNext == ControlStep \/ PhaseStep

OrchestratorSpec == OrchestratorInit /\ [][OrchestratorNext]_<<half, vars, phased>>

=============================================================================

---------------------------- MODULE MCOrchestrator -----------------------------
(* Runs of two tasks under RunControl, one run under RunPhases. *)
EXTENDS Orchestrator, MCRunControl

AtWork == {p \in Commands : at[p] # "free"}
Born   == {c \in Controllers : at[c] # "unborn"}

\* Two shells and two controllers with a run of the second task, which starts while the
\* others wait, or one of each with all runs; and what RunPhases chooses at the start is
\* chosen once for the other half.
FewAtOnce ==
    /\ \/ /\ \A r \in Runs \ {run3} : phase[r] = IF ciError[r] THEN "BLOCKED" ELSE None
          /\ \A p \in AtWork : RunOf(p) = run3
       \/ Cardinality(AtWork) <= 1 /\ Cardinality(Born) <= 1
    /\ half = "control" => ~cumulative
=============================================================================

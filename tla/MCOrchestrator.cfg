\* Without models: two shells and two controllers with one run, or one of each with three
\* runs of two tasks; an older release left one of the runs blocked on CI.  Next to it one
\* run with two fix rounds, five agents and two controllers that die.
SPECIFICATION OrchestratorSpec
CONSTANTS
    run1 = run1  run2 = run2  run3 = run3  first = first  second = second
    Runs = {run1, run2, run3}
    TaskOf <- Tasks
    Legacies = {{run1}}
    MaxWorkers = 2
    Controllers = {c1, c2}
    Launchers = {}
    Commands = {shell1, shell2}
    QuickResume = FALSE
    None = None
    MaxFixRounds = 2
    MaxInvocations = 5
    MaxTokens = 3
    MaxDeaths = 2
SYMMETRY Interchangeable
CONSTRAINT FewAtOnce
\* A run that is over is left alone.
CHECK_DEADLOCK FALSE
INVARIANTS ControllerHoldsLease StoppedHoldsNoClaim ClaimsAreLimited
    ReadyIsProven HeadIsRecorded NoTokensErased FixIsAnswerable

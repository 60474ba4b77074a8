\* Three runs of two tasks, one of them blocked on CI by an older release, without models;
\* one run with two fix rounds, five agents and two controllers that die.
SPECIFICATION OrchestratorSpec
CONSTANTS
    run1 = run1  run2 = run2  run3 = run3  first = first  second = second
    Runs = {run1, run2, run3}
    TaskOf <- Tasks
    Legacies = {{run1}}
    MaxWorkers = 2
    Controllers = {c1}
    Launchers = {}
    Commands = {shell}
    QuickResume = FALSE
    None = None
    MaxFixRounds = 2
    MaxInvocations = 5
    MaxTokens = 3
    MaxDeaths = 2
\* A run that is over is left alone.
CHECK_DEADLOCK FALSE
INVARIANT CompletedReviewIsNotRepeated

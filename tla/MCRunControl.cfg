\* One run and one operator; crashes and aborted commands anywhere. No symmetry: it checks
\* liveness.
SPECIFICATION FairSpec
CONSTANTS
    run1 = run1  run2 = run2  run3 = run3  first = first  second = second
    Runs = {run1}
    TaskOf <- Tasks
    Legacies = {{}, {run1}}
    MaxWorkers = 1
    Controllers = {c1, c2}
    Launchers = {l1, l2}
    Commands = {shell}
    QuickResume = FALSE
    None = None
INVARIANTS WriterIsRegistered ControllersReleaseIdle
PROPERTY ControlReachesTheModel
CHECK_DEADLOCK FALSE

\* A controller may start while the launcher of a dead one waits at its barrier.
SPECIFICATION Spec
CONSTANTS
    run1 = run1  run2 = run2  run3 = run3  first = first  second = second
    Runs = {run1}
    TaskOf <- Tasks
    Legacies = {{}}
    MaxWorkers = 1
    Controllers = {c1, c2}
    Launchers = {l1, l2}
    Commands = {shell}
    QuickResume = TRUE
    None = None
SYMMETRY Interchangeable
INVARIANT WriterIsRegistered
CHECK_DEADLOCK FALSE

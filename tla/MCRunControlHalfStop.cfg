\* One operator, whose commands may be cut off.
SPECIFICATION Spec
CONSTANTS
    run1 = run1  run2 = run2  run3 = run3  first = first  second = second
    Runs = {run1}
    TaskOf <- Tasks
    Legacies = {{}}
    MaxWorkers = 1
    Controllers = {c1, c2}
    Launchers = {l1, l2}
    Commands = {shell}
    QuickResume = FALSE
    None = None
SYMMETRY Interchangeable
INVARIANT WriterHoldsClaim
CHECK_DEADLOCK FALSE

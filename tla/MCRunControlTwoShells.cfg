\* Two operators, or one with two shells, who work on one run.
SPECIFICATION Spec
CONSTANTS
    run1 = run1  run2 = run2  run3 = run3  first = first  second = second
    Runs = {run1}
    TaskOf <- Tasks
    Legacies = {{}}
    MaxWorkers = 1
    Controllers = {c1, c2}
    Launchers = {l1, l2}
    Commands = {shell1, shell2}
    QuickResume = FALSE
    None = None
SYMMETRY Interchangeable
PROPERTY ClaimIsReleasedIdle
CHECK_DEADLOCK FALSE

\* The gate with two executors, two tests, three attempts; the journal with two callers
\* and two operations, the second of which is also recovered while its dispatcher waits.
SPECIFICATION WritesSpec
CONSTANTS
    t1 = t1  t2 = t2  k1 = k1  k2 = k2
    wallet = wallet  ann = ann  bob = bob
    p1 = p1  p2 = p2  b1 = b1  b2 = b2
    Executors = {e1, e2}
    Tests = {t1, t2}
    Intents <- ConflictingTests
    Operators = {ann, bob}
    Nonces = {n1, n2, n3}
    Stamps = {s1, s2}
    Totals = {1, 3}
    MaxTime = 1
    None = None
    Callers = {e1, e2}
    Requests <- ConflictingRequests
    RequestNonces = {n1, n2, n3}
    Delays = {0, 1}
    MaxClock = 1
    LiveRecovery = {p2}
    Nil = Nil
SYMMETRY Interchangeable
\* A journal whose operations are settled has nothing left to do.
CHECK_DEADLOCK FALSE
INVARIANTS OneUnresolvedTest OneDispatchPerArming
    SucceededIsWithinCap OwedIsAccountedFor InProgressWaitIsHonoured
    NonceIsSentOnce CompletedIsOwed RefusedAtOnceIsNotOwed InProgressDeadlineIsHonoured
PROPERTY FrozenStaysFrozen

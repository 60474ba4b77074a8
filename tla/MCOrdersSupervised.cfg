\* Three calls on one order, recovery only of orders no live call dispatches.
SPECIFICATION Spec
CONSTANTS
    c1 = c1  c2 = c2  c3 = c3
    fake = fake  other = other  alice = alice
    Calls = {c1, c2, c3}
    Keys = {k1}
    Requests <- TwoRequests
    Offers <- TwoOffers
    Port <- TwoPorts
    Capable = {fake, other}
    Reconciles = {fake}
    References = {ref1, ref2}
    FailureCodes = {outOfStock}
    None = None
    LiveRecovery = FALSE
INVARIANTS PurchaseIsTheCallersRequest FailedSafeIsNotOwed
PROPERTY KeepsPromise

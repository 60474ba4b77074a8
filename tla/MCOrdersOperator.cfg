\* Recovery of an order another process is still dispatching.
SPECIFICATION Spec
CONSTANTS
    c1 = c1  c2 = c2  c3 = c3
    fake = fake  other = other  alice = alice
    Calls = {c1, c2}
    Keys = {k1}
    Requests <- OneRequest
    Offers <- OneOffer
    Port <- OnePort
    Capable = {fake, other}
    Reconciles = {fake}
    References = {ref}
    FailureCodes = {outOfStock}
    None = None
    LiveRecovery = TRUE
INVARIANT FailedSafeIsNotOwed

\* Two calls that persist with one order, and a courier with two attempts to deliver it.
SPECIFICATION FairDeliverySpec
CONSTANTS
    c1 = c1  c2 = c2
    fake = fake  alice = alice
    Calls = {c1, c2}
    Keys = {k1}
    Requests <- OneRequest
    Offers <- OneOffer
    Port <- OnePort
    Capable = {fake}
    Reconciles = {fake}
    References = {ref}
    FailureCodes = {outOfStock}
    None = None
    LiveRecovery = TRUE
    Couriers = {d1}
    MaxDeliveries = 2
INVARIANTS AtMostOnePurchase SucceededIsOwed DeliveryKeyIsSentOnce
PROPERTIES AmbiguousSettles PreparedResumes

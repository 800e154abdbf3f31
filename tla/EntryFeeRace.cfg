\* Overlapping payments, retries, webhooks and other saves, with crashes.
SPECIFICATION FairSpec
CONSTANTS
    Users = {u1}
    Payments = {p1, p2}
    Handlers = {1, 2, 3}
    Kinds = {"start", "retry", "hook", "other"}
    MaxInFlight = 3
    OnFile = {p1}
    CrashAllowed = TRUE
    Null = Null
INVARIANTS PaidIsPaid ConfirmationIsTrue OneOpenPayment PaidIsUnderway
PROPERTIES PaidIsRecorded ImplementsBook
CHECK_DEADLOCK FALSE

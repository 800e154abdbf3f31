\* A failed first payment, a paid second one, and their webhooks.
SPECIFICATION FairSpec
CONSTANTS
    Users = {u1}
    Payments = {p1, p2}
    Handlers = {1, 2, 3, 4}
    Kinds = {"start", "retry", "hook"}
    MaxInFlight = 1
    OnFile = {p1}
    CrashAllowed = FALSE
    Null = Null
INVARIANTS EntryFeeStatusTrue
CHECK_DEADLOCK FALSE

\* Three requests on two accounts, all of them overlapping.
SPECIFICATION Spec
CONSTANTS
    Users = {u1, u2}
    Events = {e1}
    Submits = {s1, s2}
    Batches = {b1}
    Seeds = {}
    MaxInFlight = 3
    StartScores = {2}
    AdminOps = {}
    Entered = {}
    CrashAllowed = TRUE
    Null = Null
SYMMETRY Symmetry
INVARIANTS ScoreBounded AbsenceJustified
PROPERTIES AbsentSinceStable AtomicUnlessRaced ImplementsLedger
CHECK_DEADLOCK FALSE

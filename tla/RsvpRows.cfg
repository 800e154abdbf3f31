\* The rsvp table under overlapping answers, the weekly job, coordinators and crashes.
SPECIFICATION Spec
CONSTANTS
    Users = {u1}
    Events = {e1}
    Submits = {s1, s2}
    Batches = {}
    Seeds = {w1, w2}
    MaxInFlight = 3
    StartScores = {}
    AdminOps = {"mark", "edit", "create", "delete"}
    Entered = {"yes"}
    CrashAllowed = TRUE
    Null = Null
SYMMETRY Symmetry
INVARIANTS OneRsvpPerPair
PROPERTIES AttendanceKept AnswerIsStored
CHECK_DEADLOCK FALSE

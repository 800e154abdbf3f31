\* A slot of one Saturday, generated by two calls at once, proposed twice, edited and added to.
SPECIFICATION Spec
CONSTANTS
    Teams = {t1, t2}
    Slots = {morning}
    Day <- OneDay
    OffDay = OffDay
    Makers = {m1, m2}
    MadeAtStart = {}
    Plans = {p1, p2}
    MaxEdits = 1
    CrashAllowed = TRUE
    Null = Null
SYMMETRY Symmetry
INVARIANTS SlotOnce OnceADayKept
PROPERTIES SaveOnlyAssigns FailureIsLocal
CHECK_DEADLOCK FALSE

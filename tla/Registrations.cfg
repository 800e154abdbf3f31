\* Three submissions of two leads, two of them at once, with everything else.
SPECIFICATION Spec
CONSTANTS
    e1 = e1
    e2 = e2
    f1 = f1
    Leads = {l1, l2}
    Teams = {a, b}
    Events = {e1, e2, f1}
    Year <- TwoYears
    Submissions = {s1, s2, s3}
    MaxWishes = 2
    MaxInFlight = 2
    Edits = {"move", "crash"}
    Doomed = {e2}
    NoTeam = NoTeam
SYMMETRY Symmetry
INVARIANTS RanksDistinct
PROPERTIES SubmissionIsExact OnlyOwnReplaced
CHECK_DEADLOCK FALSE

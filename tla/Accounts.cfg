\* Three requests of any kind on two accounts, with an administrator and restarts.
SPECIFICATION Spec
CONSTANTS
    Members = {u1, u2}
    Leads = {u1}
    StartTeams = {t1}
    NewAddress = a3
    Requests = {r1, r2, r3}
    Teams = {t1, t2}
    Kinds = {"login", "refresh", "logout", "link", "change", "profile", "team-member", "confirm", "form", "create"}
    Given = {"low", Null}
    MaxEdits = 1
    CrashAllowed = TRUE
    Null = Null
SYMMETRY Symmetry
INVARIANTS LinkUsedOnce CapacityKnown
PROPERTIES OwnColumnsOnly LeadsOwnTeam
CHECK_DEADLOCK FALSE

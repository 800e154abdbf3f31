\* A slot as the scheduler makes it, at midnight.
SPECIFICATION Spec
CONSTANTS
    m1 = m1
    team = team
    Members = {m1}
    Teams = {team}
    Events = {e1}
    Starts <- Slot
    Horizon = 47
    SmallTeam = 0
    Edits = {}
    MaxEdits = 0
    MayFail = FALSE
    NoTeam = NoTeam
INVARIANTS FirstReminderSent
CHECK_DEADLOCK FALSE

\* Two market days five weeks apart, with edits, answers and a failing process.
SPECIFICATION Spec
CONSTANTS
    m1 = m1
    team = team
    Members = {m1}
    Teams = {team}
    Events = {e1, e2}
    Starts <- Afternoons
    Horizon = 30
    SmallTeam = 0
    Edits = {"schedule", "date", "member", "row"}
    MaxEdits = 1
    MayFail = TRUE
    NoTeam = NoTeam
INVARIANTS NoSecondMail AfternoonReminded
PROPERTIES ReminderIsCurrent
CHECK_DEADLOCK FALSE

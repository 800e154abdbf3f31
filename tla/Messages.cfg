\* A message to two members, with edits, and mails that fail, time out or stall.
SPECIFICATION FairSpec
CONSTANTS
    u1 = u1
    u2 = u2
    e1 = e1
    t1 = t1
    Users = {u1, u2}
    Teams = {t1}
    Events = {e1}
    Requests = {r1}
    Kinds = {"event", "staff"}
    Staff = {u1, u2}
    Senders = {u1}
    StartTeams <- TeamsOf
    StartRows <- Tables
    NewRows <- Answers
    Mails <- Positions
    Attempts = 2
    MaxStalls = 1
    MaxFaults = 3
    MaxEdits = 1
    Null = Null
INVARIANTS CopiesBounded MailedOnce MailIsUnderway
PROPERTIES MessageArrives
CHECK_DEADLOCK FALSE

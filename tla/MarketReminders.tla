--------------------------- MODULE MarketReminders ---------------------------
(***************************************************************************)
(* What happens by itself around a market day: the Saturday job that       *)
(* hands out unknown rsvps (rsvp.service.ts) and the three Sunday jobs     *)
(* that send reminders (notification.service.ts), with members who answer, *)
(* coordinators who edit market days, members and rows, and a process      *)
(* that may be down.                                                       *)
(*                                                                         *)
(* Time goes in three ticks a day: midnight, half past eleven, afternoon.  *)
(* Tick 0 is a Saturday.  A job runs just after its tick, so a window from *)
(* `now' excludes an event that starts on the tick itself.  A job is a     *)
(* chain of calls, each an action; jobs of one tick interleave with each   *)
(* other and with everything else, and are over before the next tick.      *)
(***************************************************************************)
EXTENDS Integers, FiniteSets

CONSTANTS
    Members, Teams, Events,
    Starts,         \* ticks at which an event may start
    Horizon,        \* last tick of the run (bound)
    SmallTeam,      \* going at which the leads are warned; 9 in the code
    Edits,          \* what coordinators edit: subset of {"schedule", "date", "member", "row"}
    MaxEdits,       \* how often (bound)
    MayFail,        \* whether the process may go down by itself
    NoTeam

ASSUME NoTeamAssumption == NoTeam \notin Teams
ASSUME ClockAssumption  == Horizon \in Nat /\ Starts \subseteq Nat
ASSUME EditsAssumption  == MaxEdits \in Nat

PerDay == 3
Weekday(t) == (t \div PerDay) % 7       \* 0 is Saturday
OnSaturday(t) == Weekday(t) = 0 /\ t % PerDay = 0
OnSunday(t)   == Weekday(t) = 1 /\ t % PerDay = 1

Jobs == {"weekly", "postEvent", "rsvpReminder", "preEvent"}
Fired(t) == (IF OnSaturday(t) THEN {"weekly"} ELSE {})
            \union (IF OnSunday(t) THEN {"postEvent", "rsvpReminder", "preEvent"} ELSE {})

Responses == {"unknown", "yes", "no"}

VARIABLES
    now,
    up,         \* the process runs
    due,        \* jobs of this tick that have not begun yet
    calls,      \* calls that jobs in progress are about to make
    user,       \* table user: teamId, hasMarketDuty, the role market-lead
    event,      \* table event: start, isActive, teamId
    rsvp,       \* table rsvp: how many rows of member and event have a response
    reminded,   \* mails "laat even weten of je erbij bent" per member and event
    warned,     \* mails "te klein team" per lead and event
    edits,      \* number of edits by coordinators
    moved,      \* history: events whose start was changed
    unsteady,   \* history: events that were not on the schedule all along, or
                \* missed a job because the process was down
    lately,     \* history: <<member, event>> whose member was edited, or whose row
                \* was deleted, on the Sunday of the reminder or after it
    overtaken   \* history: <<member, event>> that changed between the query that found
                \* the member silent and the mail

tables == <<user, event, rsvp>>
mails == <<reminded, warned>>
history == <<moved, unsteady, lately, overtaken>>
vars == <<now, up, due, calls, tables, mails, edits, history>>

TeamIds == Teams \union {NoTeam}
User  == [teamId : TeamIds, hasMarketDuty : BOOLEAN, isLead : BOOLEAN]
Event == [start : Starts, isActive : BOOLEAN, teamId : TeamIds]
Scheduled(e) == event[e].isActive /\ event[e].teamId # NoTeam
HasRow(m, e) == \E r \in Responses : rsvp[m][e][r] > 0

Call ==
    [call : {"twoWeeks", "today"}, users : [Members -> TeamIds]]
    \union [call : {"next"}, users : [Members -> TeamIds], via : Events, team : Teams]
    \union [call : {"findRsvp", "makeRsvp"}, member : Members, event : Events,
            via : Events \union {"twoWeeks"}]
    \union [call : {"reminder", "warning"}, member : Members, event : Events]

Init ==
    /\ now = 0
    /\ up = TRUE
    /\ due = Fired(0)
    /\ calls = {}
    /\ user \in [Members -> User]
    /\ event \in [Events -> Event]
    /\ rsvp = [m \in Members |-> [e \in Events |-> [r \in Responses |-> 0]]]
    /\ reminded = [m \in Members |-> [e \in Events |-> 0]]
    /\ warned = reminded
    /\ edits = 0
    /\ moved = {}
    /\ unsteady = {e \in Events : ~Scheduled(e)}
    /\ lately = {}
    /\ overtaken = {}

-----------------------------------------------------------------------------
\* Events that start in the window that a call made now computes, in days.
Between(lower, upper) ==
    {e \in Events : /\ event[e].start > now + PerDay * lower
                    /\ event[e].start <= now + PerDay * upper}

Begins(job, next) ==
    /\ job \in due
    /\ due' = due \ {job}
    /\ calls' = calls \union next
    /\ UNCHANGED <<now, up, tables, mails, edits, history>>

\* A call of a job that reads: what it leads to takes its place.
Continues(c, next) ==
    /\ calls' = (calls \ {c}) \union next
    /\ UNCHANGED <<now, up, due, tables, mails, edits, history>>

-----------------------------------------------------------------------------
(* addWeeklyRsvps.                                                         *)

AddWeeklyRsvps ==
    LET users == [m \in Members |-> user[m].teamId]
    IN  Begins("weekly", [call : {"twoWeeks", "today"}, users : {users}])

\* addRsvpsToEvents: a look-up for each member who was in the team of the event.
AddRsvps(events, users, via) ==
    {c \in [call : {"findRsvp"}, member : Members, event : events, via : {via}] :
        Scheduled(c.event) /\ users[c.member] = event[c.event].teamId}

\* setDate moves `now' itself: the window starts and ends two weeks ahead.
AddNextTwoWeeks(c) ==
    /\ c.call = "twoWeeks"
    /\ Continues(c, AddRsvps(Between(14, 14), c.users, "twoWeeks"))

\* One chain for each event, also when two of them have the same team.
GetTodayTeams(c) ==
    /\ c.call = "today"
    /\ Continues(c, {[call |-> "next", users |-> c.users, via |-> e, team |-> event[e].teamId] :
                    e \in {f \in Between(-1, 1) : event[f].teamId # NoTeam}})

Upcoming(t) == {e \in Events : event[e].teamId = t /\ event[e].start > now}

\* findNextForTeam orders by nothing: any event to come may be "the next".
UpdateNextTeamEvent(c) ==
    /\ c.call = "next"
    /\ \/ \E e \in Upcoming(c.team) : Continues(c, AddRsvps({e}, c.users, c.via))
       \/ Upcoming(c.team) = {} /\ Continues(c, {})

FindRsvp(c) ==
    /\ c.call = "findRsvp"
    /\ Continues(c, IF HasRow(c.member, c.event) THEN {} ELSE {[c EXCEPT !.call = "makeRsvp"]})

\* The reminders on their way that are about one of these <<member, event>> pairs.
Overtakes(pairs) ==
    overtaken' = overtaken \union
        {p \in pairs : [call |-> "reminder", member |-> p[1], event |-> p[2]] \in calls}

MakeUnknownRsvp(c) ==
    /\ c.call = "makeRsvp"
    /\ calls' = calls \ {c}
    /\ rsvp' = [rsvp EXCEPT ![c.member][c.event]["unknown"] = @ + 1]
    /\ Overtakes({<<c.member, c.event>>})
    /\ UNCHANGED <<now, up, due, user, event, mails, edits, moved, unsteady, lately>>

-----------------------------------------------------------------------------
(* The jobs of Sunday, 11:30.                                              *)

\* Mutant: a window of a week and a half.
UpcomingWide ==
    {e \in Between(27, 37) : Scheduled(e)}

\* getUpcomingEvents(27, 32).
UpcomingEvents == {e \in Between(27, 32) : Scheduled(e)}

OnDuty(e) == {m \in Members : user[m].hasMarketDuty /\ user[m].teamId = event[e].teamId}

\* Mutants: a refusal counts as silence; only an unknown row does.
NotRespondedNo(e) ==
    {m \in OnDuty(e) : rsvp[m][e]["yes"] = 0}
NotRespondedUnknown(e) ==
    {m \in OnDuty(e) : rsvp[m][e]["unknown"] > 0}

\* The notResponded of event.entity.ts: any row is a response.
NotResponded(e) ==
    {m \in OnDuty(e) : ~HasRow(m, e)}

SendRsvpReminders ==
    Begins("rsvpReminder",
           {c \in [call : {"reminder"}, member : Members, event : UpcomingEvents] :
               c.member \in NotResponded(c.event)})

\* Rows are counted, not members.
Going(e) == Cardinality(UNION {{m} \X (1 .. rsvp[m][e]["yes"]) : m \in Members})

LeadsToWarn(e) ==
    {m \in Members : /\ Going(e) <= SmallTeam
                     /\ user[m].isLead /\ user[m].teamId = event[e].teamId}

PreEventReminders ==
    Begins("preEvent",
           {c \in [call : {"warning"}, member : Members, event : UpcomingEvents] :
               c.member \in LeadsToWarn(c.event)})

\* addToQueue, for one mail.
Remind(c) ==
    /\ c.call = "reminder"
    /\ calls' = calls \ {c}
    /\ reminded' = [reminded EXCEPT ![c.member][c.event] = @ + 1]
    /\ overtaken' = overtaken \ {<<c.member, c.event>>}
    /\ UNCHANGED <<now, up, due, tables, warned, edits, moved, unsteady, lately>>

Warn(c) ==
    /\ c.call = "warning"
    /\ calls' = calls \ {c}
    /\ warned' = [warned EXCEPT ![c.member][c.event] = @ + 1]
    /\ UNCHANGED <<now, up, due, tables, reminded, edits, history>>

\* What the process leaves when it dies: no job runs any more.
Die ==
    /\ up' = FALSE
    /\ due' = {}
    /\ calls' = {}
    /\ unsteady' = Events
    /\ UNCHANGED <<now, tables, mails, edits, moved, lately, overtaken>>

\* findBetweenDates loads no team: event.team.users throws in a promise nobody
\* handles, which ends the process.
PostEventReminders ==
    LET throws == \E e \in Between(-1, 0) : event[e].teamId # NoTeam
    IN  \/ "postEvent" \in due /\ throws /\ Die
        \/ ~throws /\ Begins("postEvent", {})

-----------------------------------------------------------------------------
(* Members, coordinators, the process and the clock.                       *)

\* A row of member and event gets a response; findOne takes any of several.
Responds(m, e, response) ==
    \/ /\ ~HasRow(m, e)
       /\ rsvp' = [rsvp EXCEPT ![m][e][response] = 1]
    \/ \E r \in Responses \ {response} :
         /\ rsvp[m][e][r] > 0
         /\ rsvp' = [rsvp EXCEPT ![m][e][r] = @ - 1, ![m][e][response] = @ + 1]

\* submitRsvp: for an event to come, whatever team it has.
Answer(m, e, response) ==
    /\ up
    /\ event[e].start > now
    /\ Responds(m, e, response)
    /\ Overtakes({<<m, e>>})
    /\ UNCHANGED <<now, up, due, calls, user, event, mails, edits, moved, unsteady, lately>>

Edit(kind) ==
    /\ kind \in Edits
    /\ up
    /\ edits < MaxEdits
    /\ edits' = edits + 1
    /\ UNCHANGED <<now, up, due, calls, mails>>

Schedule(e, active, team) ==
    /\ Edit("schedule")
    /\ event' = [event EXCEPT ![e].isActive = active, ![e].teamId = team]
    /\ unsteady' = unsteady \union {e}
    /\ Overtakes(Members \X {e})
    /\ UNCHANGED <<user, rsvp, moved, lately>>

Move(e, start) ==
    /\ Edit("date")
    /\ event' = [event EXCEPT ![e].start = start]
    /\ moved' = moved \union {e}
    /\ Overtakes(Members \X {e})
    /\ UNCHANGED <<user, rsvp, unsteady, lately>>

\* The Sunday from whose window an afternoon event of a Saturday starts has come.
SundayHasCome(e) == now >= event[e].start - (PerDay * 27 + 1)

EditMember(m, record) ==
    /\ Edit("member")
    /\ user' = [user EXCEPT ![m] = record]
    /\ lately' = lately \union ({m} \X {e \in Events : SundayHasCome(e)})
    /\ Overtakes({m} \X Events)
    /\ UNCHANGED <<event, rsvp, moved, unsteady>>

CreateRsvp(m, e, response) ==
    /\ Edit("row")
    /\ rsvp' = [rsvp EXCEPT ![m][e][response] = @ + 1]
    /\ Overtakes({<<m, e>>})
    /\ UNCHANGED <<user, event, moved, unsteady, lately>>

DeleteRsvp(m, e, response) ==
    /\ Edit("row")
    /\ rsvp[m][e][response] > 0
    /\ rsvp' = [rsvp EXCEPT ![m][e][response] = @ - 1]
    /\ lately' = lately \union {p \in {<<m, e>>} : SundayHasCome(e)}
    /\ Overtakes({<<m, e>>})
    /\ UNCHANGED <<user, event, moved, unsteady>>

Fail == MayFail /\ up /\ Die

\* systemd starts the process again; jobs that were due do not come back.
Restart ==
    /\ ~up
    /\ up' = TRUE
    /\ UNCHANGED <<now, due, calls, tables, mails, edits, history>>

Tick ==
    /\ due = {} /\ calls = {}
    /\ now < Horizon
    /\ now' = now + 1
    /\ due' = IF up THEN Fired(now + 1) ELSE {}
    /\ overtaken' = {}
    /\ UNCHANGED <<up, calls, tables, mails, edits, moved, unsteady, lately>>

JobStep ==
    \/ AddWeeklyRsvps \/ SendRsvpReminders \/ PreEventReminders \/ PostEventReminders
    \/ \E c \in calls :
         \/ AddNextTwoWeeks(c) \/ GetTodayTeams(c) \/ UpdateNextTeamEvent(c)
         \/ FindRsvp(c) \/ MakeUnknownRsvp(c)
         \/ Remind(c) \/ Warn(c)

PeopleStep ==
    \/ \E m \in Members, e \in Events, r \in {"yes", "no"} : Answer(m, e, r)
    \/ \E e \in Events, a \in BOOLEAN, t \in TeamIds : Schedule(e, a, t)
    \/ \E e \in Events, s \in Starts : Move(e, s)
    \/ \E m \in Members, u \in User : EditMember(m, u)
    \/ \E m \in Members, e \in Events, r \in Responses :
         CreateRsvp(m, e, r) \/ DeleteRsvp(m, e, r)

Next == JobStep \/ PeopleStep \/ Fail \/ Restart \/ Tick

Spec == Init /\ [][Next]_vars

-----------------------------------------------------------------------------
(* Properties.                                                             *)

\* Types of the tables, of the calls in progress, of the mail counts and of the clock.
TypeOK ==
    /\ now \in 0 .. Horizon
    /\ up \in BOOLEAN
    /\ due \subseteq Jobs
    /\ calls \subseteq Call
    /\ user \in [Members -> User]
    /\ event \in [Events -> Event]
    /\ rsvp \in [Members -> [Events -> [Responses -> Nat]]]
    /\ reminded \in [Members -> [Events -> Nat]]
    /\ warned \in [Members -> [Events -> Nat]]
    /\ edits \in 0 .. MaxEdits
    /\ moved \subseteq Events /\ unsteady \subseteq Events
    /\ lately \subseteq Members \X Events /\ overtaken \subseteq Members \X Events

\* Nobody gets the same reminder or warning twice for one market day, as long as
\* its date is not changed: the Sundays' windows do not overlap, and a job that was
\* cut short by the end of the process is not run again.
NoSecondMail ==
    \A m \in Members, e \in Events \ moved : reminded[m][e] <= 1 /\ warned[m][e] <= 1

\* On duty, in the team of the event and without a row for it.
Silent(m, e) ==
    /\ user[m].hasMarketDuty
    /\ user[m].teamId = event[e].teamId
    /\ ~HasRow(m, e)

\* A member on duty of the team of a steady event who has no row for it has been
\* reminded by the time its Sunday window has gone by, if the event starts in the
\* afternoon (a start at midnight falls between two windows), unless the member came to
\* the team or to duty, or lost a row, only when that Sunday had come: nobody is reminded
\* afterwards.
AfternoonReminded ==
    \A e \in Events \ (unsteady \union moved), m \in Members :
        /\ Silent(m, e)
        /\ event[e].start % PerDay = 2 /\ Weekday(event[e].start) = 0
        /\ event[e].start > PerDay * 33
        /\ now > event[e].start - PerDay * 27
        /\ <<m, e>> \notin lately
        => reminded[m][e] = 1

\* A reminder goes to a member who is still silent about an event that is still on the
\* schedule, but for what changed between the query of the job and the mail: the query is
\* awaited, and the mail is queued without looking again.
ReminderIsCurrent ==
    [][\A m \in Members, e \in Events :
          reminded'[m][e] # reminded[m][e] =>
              (Silent(m, e) /\ Scheduled(e)) \/ <<m, e>> \in overtaken]_vars

\* preEventMessage: "Teamleden die nog niet hebben aangegeven of ze er bij kunnen
\* zijn ontvangen 30 en 15 dagen van tevoren een reminder".
Steady == {e \in Events \ (unsteady \union moved) :
             event[e].start > PerDay * 34 /\ Weekday(event[e].start) = 0}
FirstReminderSent ==
    \A e \in Steady : now >= event[e].start - PerDay * 20 =>
        \A m \in Members : Silent(m, e) => reminded[m][e] >= 1
=============================================================================

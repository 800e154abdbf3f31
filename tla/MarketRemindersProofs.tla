----------------------- MODULE MarketRemindersProofs -----------------------
(***************************************************************************)
(* Proofs about MarketReminders: nobody gets a mail twice, whoever is      *)
(* silent when the Sunday comes gets it once, and a mail that is no longer *)
(* called for was overtaken.  The argument is arithmetic on the clock: two *)
(* Sundays are 21 ticks apart, a window of the reminders is 15 wide, and   *)
(* an afternoon of a Saturday is 82 ticks after the Sunday whose window it *)
(* is in.                                                                  *)
(***************************************************************************)
EXTENDS MarketReminders, TLAPS

-----------------------------------------------------------------------------
(* Types.                                                                  *)

\* A due job is one of this tick, and a process that went down spoils all events.
TypeInv ==
    /\ TypeOK
    /\ due \subseteq Fired(now)
    /\ ~up => unsteady = Events

LEMMA FiredAreJobs == \A t : Fired(t) \subseteq Jobs
  BY DEF Fired, Jobs

LEMMA InitType == Init => TypeInv
<1> SUFFICES ASSUME Init PROVE TypeInv
  OBVIOUS
<1>1. now \in 0 .. Horizon
  BY ClockAssumption DEF Init
<1>2. reminded \in [Members -> [Events -> Nat]] /\ warned = reminded
  BY DEF Init
<1>3. rsvp \in [Members -> [Events -> [Responses -> Nat]]]
  BY DEF Init
<1>4. edits \in 0 .. MaxEdits
  BY EditsAssumption DEF Init
<1> QED  BY <1>1, <1>2, <1>3, <1>4, FiredAreJobs DEF Init, TypeInv, TypeOK

\* A count of a pair that goes up is still a count.
LEMMA CountUp ==
    ASSUME NEW count \in [Members -> [Events -> Nat]], NEW m \in Members, NEW e \in Events
    PROVE  [count EXCEPT ![m][e] = @ + 1] \in [Members -> [Events -> Nat]]
  OBVIOUS

\* One row more or less of a response.
LEMMA RowsType ==
    ASSUME TypeOK, NEW m \in Members, NEW e \in Events, NEW r \in Responses, NEW n \in Nat
    PROVE  [rsvp EXCEPT ![m][e][r] = n] \in [Members -> [Events -> [Responses -> Nat]]]
  BY DEF TypeOK

LEMMA RespondsType ==
    ASSUME TypeOK, NEW m \in Members, NEW e \in Events, NEW r \in Responses, Responds(m, e, r)
    PROVE  rsvp' \in [Members -> [Events -> [Responses -> Nat]]]
<1>1. CASE rsvp' = [rsvp EXCEPT ![m][e][r] = 1]
  BY <1>1, RowsType
<1>2. ASSUME NEW q \in Responses \ {r}, rsvp[m][e][q] > 0,
             rsvp' = [rsvp EXCEPT ![m][e][q] = @ - 1, ![m][e][r] = @ + 1]
      PROVE  rsvp' \in [Members -> [Events -> [Responses -> Nat]]]
  <2>1. rsvp[m][e][q] - 1 \in Nat
    BY <1>2 DEF TypeOK
  <2>2. [rsvp EXCEPT ![m][e][q] = @ - 1] \in [Members -> [Events -> [Responses -> Nat]]]
    BY <2>1, RowsType
  <2> QED  BY <1>2, <2>2
<1> QED  BY <1>1, <1>2 DEF Responds

LEMMA OvertakesType ==
    ASSUME overtaken \subseteq Members \X Events, NEW pairs \in SUBSET (Members \X Events),
           Overtakes(pairs)
    PROVE  overtaken' \subseteq Members \X Events
  BY DEF Overtakes

LEMMA OvertakesPair ==
    ASSUME overtaken \subseteq Members \X Events, NEW m \in Members, NEW e \in Events,
           Overtakes({<<m, e>>})
    PROVE  overtaken' \subseteq Members \X Events
<1>1. {<<m, e>>} \in SUBSET (Members \X Events)
  OBVIOUS
<1> QED  BY <1>1, OvertakesType

\* The calls a job begins with or goes on to are calls.
LEMMA AddRsvpsType ==
    ASSUME NEW events \in SUBSET Events, NEW users, NEW via \in Events \union {"twoWeeks"}
    PROVE  /\ AddRsvps(events, users, via) \subseteq Call
           /\ \A x \in AddRsvps(events, users, via) : x.call = "findRsvp"
<1>1. AddRsvps(events, users, via) \subseteq
        [call : {"findRsvp"}, member : Members, event : events, via : {via}]
  BY DEF AddRsvps
<1> QED  BY <1>1 DEF Call

\* What a job that is under way may go on to: calls that are not about mails.
LEMMA ReadsType ==
    ASSUME TypeInv, NEW c \in calls,
           \/ AddNextTwoWeeks(c) \/ GetTodayTeams(c) \/ UpdateNextTeamEvent(c) \/ FindRsvp(c)
    PROVE  \E next \in SUBSET Call :
              /\ \A x \in next : x.call \notin {"reminder", "warning"}
              /\ c.call \notin {"reminder", "warning"}
              /\ Continues(c, next)
<1> USE DEF TypeInv, TypeOK
<1>0. c \in Call
  OBVIOUS
<1>1. CASE AddNextTwoWeeks(c)
  <2>1. Between(14, 14) \in SUBSET Events
    BY DEF Between
  <2> QED  BY <1>1, <2>1, AddRsvpsType DEF AddNextTwoWeeks
<1>2. CASE GetTodayTeams(c)
  <2> DEFINE next == {[call |-> "next", users |-> c.users, via |-> e, team |-> event[e].teamId] :
                        e \in {f \in Between(-1, 1) : event[f].teamId # NoTeam}}
  <2>1. c.call = "today" /\ Continues(c, next)
    BY <1>2 DEF GetTodayTeams
  <2>2. c.users \in [Members -> TeamIds]
    BY <1>0, <2>1 DEF Call
  <2>3. ASSUME NEW e \in Between(-1, 1), event[e].teamId # NoTeam
        PROVE  [call |-> "next", users |-> c.users, via |-> e, team |-> event[e].teamId] \in Call
    <3>1. e \in Events /\ event[e].teamId \in Teams
      BY <2>3 DEF Between, Event, TeamIds
    <3> QED  BY <2>2, <3>1 DEF Call
  <2>4. next \in SUBSET Call /\ \A x \in next : x.call = "next"
    BY <2>3
  <2> QED  BY <2>1, <2>4
<1>3. CASE UpdateNextTeamEvent(c)
  <2>1. c.call = "next" /\ c.via \in Events
    BY <1>0, <1>3 DEF UpdateNextTeamEvent, Call
  <2>2. CASE Continues(c, {})
    BY <2>1, <2>2
  <2>3. ASSUME NEW e \in Upcoming(c.team), Continues(c, AddRsvps({e}, c.users, c.via))
        PROVE  \E next \in SUBSET Call :
                  /\ \A x \in next : x.call \notin {"reminder", "warning"}
                  /\ c.call \notin {"reminder", "warning"}
                  /\ Continues(c, next)
    <3>1. {e} \in SUBSET Events
      BY <2>3 DEF Upcoming
    <3> QED  BY <2>1, <2>3, <3>1, AddRsvpsType
  <2> QED  BY <1>3, <2>2, <2>3 DEF UpdateNextTeamEvent
<1>4. CASE FindRsvp(c)
  <2>1. c.call = "findRsvp"
    BY <1>4 DEF FindRsvp
  <2>2. c \in [call : {"findRsvp", "makeRsvp"}, member : Members, event : Events,
               via : Events \union {"twoWeeks"}]
    BY <1>0, <2>1 DEF Call
  <2>3. [c EXCEPT !.call = "makeRsvp"] \in Call /\ [c EXCEPT !.call = "makeRsvp"].call = "makeRsvp"
    BY <2>2 DEF Call
  <2> DEFINE next == IF HasRow(c.member, c.event) THEN {} ELSE {[c EXCEPT !.call = "makeRsvp"]}
  <2>4. Continues(c, next)
    BY <1>4 DEF FindRsvp
  <2>5. next \in SUBSET Call /\ \A x \in next : x.call = "makeRsvp"
    BY <2>3
  <2> QED  BY <2>1, <2>4, <2>5
<1> QED  BY <1>1, <1>2, <1>3, <1>4

\* The steps a job begins with.
LEMMA BeginsType ==
    ASSUME TypeInv,
           AddWeeklyRsvps \/ SendRsvpReminders \/ PreEventReminders
    PROVE  calls' \subseteq Call
<1> USE DEF TypeInv, TypeOK
<1>1. CASE AddWeeklyRsvps
  <2>1. [m \in Members |-> user[m].teamId] \in [Members -> TeamIds]
    BY DEF User
  <2> QED  BY <1>1, <2>1 DEF AddWeeklyRsvps, Begins, Call
<1>2. CASE SendRsvpReminders
  BY <1>2 DEF SendRsvpReminders, Begins, Call, UpcomingEvents, Between
<1>3. CASE PreEventReminders
  BY <1>3 DEF PreEventReminders, Begins, Call, UpcomingEvents, Between
<1> QED  BY <1>1, <1>2, <1>3

LEMMA JobType == TypeInv /\ JobStep => TypeInv'
<1> SUFFICES ASSUME TypeInv, JobStep PROVE TypeInv'
  OBVIOUS
<1> USE DEF TypeInv, TypeOK
<1>1. CASE AddWeeklyRsvps \/ SendRsvpReminders \/ PreEventReminders
  <2>1. calls' \subseteq Call
    BY <1>1, BeginsType
  <2>2. PICK job, next : Begins(job, next)
    BY <1>1 DEF AddWeeklyRsvps, SendRsvpReminders, PreEventReminders
  <2> QED  BY <2>1, <2>2 DEF Begins, tables, mails, history, Fired
<1>2. CASE PostEventReminders
  BY <1>2 DEF PostEventReminders, Begins, Die, tables, mails, history, Fired
<1>3. ASSUME NEW c \in calls,
             AddNextTwoWeeks(c) \/ GetTodayTeams(c) \/ UpdateNextTeamEvent(c) \/ FindRsvp(c)
      PROVE  TypeInv'
  <2>1. PICK next \in SUBSET Call : Continues(c, next)
    BY <1>3, ReadsType
  <2> QED  BY <2>1 DEF Continues, tables, mails, history, Fired
<1>4. ASSUME NEW c \in calls, MakeUnknownRsvp(c)
      PROVE  TypeInv'
  <2>1. c \in Call /\ c.call = "makeRsvp"
    BY <1>4 DEF MakeUnknownRsvp
  <2>2. c.member \in Members /\ c.event \in Events
    BY <2>1 DEF Call
  <2>3. rsvp[c.member][c.event]["unknown"] + 1 \in Nat
    BY <2>2 DEF Responses
  <2>4. rsvp' \in [Members -> [Events -> [Responses -> Nat]]]
    BY <1>4, <2>2, <2>3, RowsType DEF MakeUnknownRsvp, Responses
  <2>5. overtaken' \subseteq Members \X Events
    BY <1>4, <2>2, OvertakesPair DEF MakeUnknownRsvp
  <2> QED  BY <1>4, <2>4, <2>5 DEF MakeUnknownRsvp, mails, Fired
<1>5. ASSUME NEW c \in calls, Remind(c) \/ Warn(c)
      PROVE  TypeInv'
  <2>1. c \in Call /\ c.call \in {"reminder", "warning"}
    BY <1>5 DEF Remind, Warn
  <2>2. c.member \in Members /\ c.event \in Events
    BY <2>1 DEF Call
  <2>3. CASE Remind(c)
    <3>1. reminded' \in [Members -> [Events -> Nat]]
      BY <2>2, <2>3, CountUp DEF Remind
    <3> QED  BY <2>3, <3>1 DEF Remind, tables, Fired
  <2>4. CASE Warn(c)
    <3>1. warned' \in [Members -> [Events -> Nat]]
      BY <2>2, <2>4, CountUp DEF Warn
    <3> QED  BY <2>4, <3>1 DEF Warn, tables, history, Fired
  <2> QED  BY <1>5, <2>3, <2>4
<1> QED  BY <1>1, <1>2, <1>3, <1>4, <1>5 DEF JobStep

LEMMA PeopleType == TypeInv /\ PeopleStep => TypeInv'
<1> SUFFICES ASSUME TypeInv, PeopleStep PROVE TypeInv'
  OBVIOUS
<1> USE DEF TypeInv, TypeOK
<1>1. ASSUME NEW m \in Members, NEW e \in Events, NEW r \in {"yes", "no"}, Answer(m, e, r)
      PROVE  TypeInv'
  <2>1. rsvp' \in [Members -> [Events -> [Responses -> Nat]]]
    BY <1>1, RespondsType DEF Answer, Responses
  <2>2. overtaken' \subseteq Members \X Events
    BY <1>1, OvertakesPair DEF Answer
  <2> QED  BY <1>1, <2>1, <2>2 DEF Answer, mails, Fired
<1>2. ASSUME NEW kind, Edit(kind)
      PROVE  /\ edits' \in 0 .. MaxEdits
             /\ now' = now /\ up' = up /\ due' = due /\ calls' = calls /\ up
             /\ reminded' = reminded /\ warned' = warned
  BY <1>2, EditsAssumption DEF Edit, mails
<1>3. ASSUME NEW e \in Events, NEW a \in BOOLEAN, NEW t \in TeamIds, Schedule(e, a, t)
      PROVE  TypeInv'
  <2>1. event' \in [Events -> Event]
    BY <1>3 DEF Schedule, Event
  <2>2. overtaken' \subseteq Members \X Events
    BY <1>3, OvertakesType DEF Schedule
  <2> QED  BY <1>2, <1>3, <2>1, <2>2 DEF Schedule, Fired
<1>4. ASSUME NEW e \in Events, NEW s \in Starts, Move(e, s)
      PROVE  TypeInv'
  <2>1. event' \in [Events -> Event]
    BY <1>4 DEF Move, Event
  <2>2. overtaken' \subseteq Members \X Events
    BY <1>4, OvertakesType DEF Move
  <2> QED  BY <1>2, <1>4, <2>1, <2>2 DEF Move, Fired
<1>5. ASSUME NEW m \in Members, NEW u \in User, EditMember(m, u)
      PROVE  TypeInv'
  <2>1. overtaken' \subseteq Members \X Events
    BY <1>5, OvertakesType DEF EditMember
  <2> QED  BY <1>2, <1>5, <2>1 DEF EditMember, Fired
<1>6. ASSUME NEW m \in Members, NEW e \in Events, NEW r \in Responses,
             CreateRsvp(m, e, r) \/ DeleteRsvp(m, e, r)
      PROVE  TypeInv'
  <2>1. rsvp[m][e][r] \in Nat
    OBVIOUS
  <2>2. rsvp' \in [Members -> [Events -> [Responses -> Nat]]]
    <3>1. CASE CreateRsvp(m, e, r)
      <4>1. rsvp[m][e][r] + 1 \in Nat
        BY <2>1
      <4> QED  BY <3>1, <4>1, RowsType DEF CreateRsvp
    <3>2. CASE DeleteRsvp(m, e, r)
      <4>1. rsvp[m][e][r] - 1 \in Nat
        BY <2>1, <3>2 DEF DeleteRsvp
      <4> QED  BY <3>2, <4>1, RowsType DEF DeleteRsvp
    <3> QED  BY <1>6, <3>1, <3>2
  <2>3. overtaken' \subseteq Members \X Events
    BY <1>6, OvertakesPair DEF CreateRsvp, DeleteRsvp
  <2>4. CASE CreateRsvp(m, e, r)
    BY <1>2, <2>2, <2>3, <2>4 DEF CreateRsvp, Fired
  <2>5. CASE DeleteRsvp(m, e, r)
    <3>1. lately' \subseteq Members \X Events
      BY <2>5 DEF DeleteRsvp
    <3> QED  BY <1>2, <2>2, <2>3, <2>5, <3>1 DEF DeleteRsvp, Fired
  <2> QED  BY <1>6, <2>4, <2>5
<1> QED  BY <1>1, <1>3, <1>4, <1>5, <1>6 DEF PeopleStep

LEMMA NextType == TypeInv /\ [Next]_vars => TypeInv'
<1> SUFFICES ASSUME TypeInv, [Next]_vars PROVE TypeInv'
  OBVIOUS
<1> USE DEF TypeInv
<1>1. CASE Fail
  BY <1>1 DEF Fail, Die, tables, mails, TypeOK
<1>2. CASE Restart
  BY <1>2 DEF Restart, tables, mails, history, TypeOK, Fired
<1>3. CASE Tick
  <2>1. now' \in 0 .. Horizon
    BY <1>3, ClockAssumption DEF Tick, TypeOK
  <2>2. due' \subseteq Fired(now') /\ due' \subseteq Jobs
    BY <1>3, FiredAreJobs DEF Tick
  <2> QED  BY <1>3, <2>1, <2>2 DEF Tick, tables, mails, TypeOK
<1>4. CASE UNCHANGED vars
  BY <1>4 DEF vars, tables, mails, history, TypeOK, Fired
<1> QED  BY <1>1, <1>2, <1>3, <1>4, JobType, PeopleType DEF Next

\* Clock, tables, calls in progress and counts of mails are well typed in every reachable state.
THEOREM RemindersTypeCorrect == Spec => []TypeOK
<1>1. TypeInv => TypeOK
  BY DEF TypeInv
<1> QED  BY <1>1, InitType, NextType, PTL DEF Spec

LEMMA TypeAlways == Spec => []TypeInv
  BY InitType, NextType, PTL DEF Spec

-----------------------------------------------------------------------------
(* Mails on their way.                                                     *)

Kinds == {"reminder", "warning"}
Mail(kind, m, e) == [call |-> kind, member |-> m, event |-> e]
Pending(kind, m, e) == Mail(kind, m, e) \in calls
Count(kind) == IF kind = "reminder" THEN reminded ELSE warned
JobOf(kind) == IF kind = "reminder" THEN "rsvpReminder" ELSE "preEvent"

\* What a step may do to one mail: nothing, lose it, decide on it, send it.
Same(kind, m, e) ==
    /\ Count(kind)'[m][e] = Count(kind)[m][e]
    /\ Pending(kind, m, e)' = Pending(kind, m, e)
Lost(kind, m, e) ==
    /\ Count(kind)'[m][e] = Count(kind)[m][e]
    /\ ~Pending(kind, m, e)'
    /\ unsteady' = Events
Decided(kind, m, e) ==
    /\ Count(kind)'[m][e] = Count(kind)[m][e]
    /\ Pending(kind, m, e)'
    /\ JobOf(kind) \in due /\ JobOf(kind) \notin due' /\ now' = now
    /\ e \in UpcomingEvents
    /\ UNCHANGED tables
    /\ kind = "reminder" => m \in NotResponded(e)
Sent(kind, m, e) ==
    /\ Count(kind)'[m][e] = Count(kind)[m][e] + 1
    /\ Pending(kind, m, e)
    /\ ~Pending(kind, m, e)'

LEMMA MailFields ==
    ASSUME NEW kind, NEW m, NEW e
    PROVE  Mail(kind, m, e).call = kind /\ Mail(kind, m, e).member = m /\ Mail(kind, m, e).event = e
  BY DEF Mail

LEMMA MailStep ==
    ASSUME TypeInv, [Next]_vars, NEW kind \in Kinds, NEW m \in Members, NEW e \in Events
    PROVE  Same(kind, m, e) \/ Lost(kind, m, e) \/ Decided(kind, m, e) \/ Sent(kind, m, e)
<1> DEFINE goal == Same(kind, m, e) \/ Lost(kind, m, e) \/ Decided(kind, m, e) \/ Sent(kind, m, e)
<1>0. reminded \in [Members -> [Events -> Nat]] /\ warned \in [Members -> [Events -> Nat]]
      /\ calls \subseteq Call
  BY DEF TypeInv, TypeOK
<1>1. ASSUME reminded' = reminded, warned' = warned, calls' = calls PROVE goal
  BY <1>1 DEF Same, Count, Pending, Mail
<1>2. ASSUME Die PROVE goal
  BY <1>2 DEF Die, mails, Lost, Count, Pending
<1>3. ASSUME NEW job, NEW next, Begins(job, next), Mail(kind, m, e) \notin next PROVE goal
  BY <1>3 DEF Begins, mails, Same, Count, Pending
<1>4. CASE AddWeeklyRsvps
  <2> DEFINE users == [n \in Members |-> user[n].teamId]
             next == [call : {"twoWeeks", "today"}, users : {users}]
  <2>1. Begins("weekly", next) /\ \A x \in next : x.call \in {"twoWeeks", "today"}
    BY <1>4 DEF AddWeeklyRsvps
  <2> HIDE DEF next
  <2>2. Mail(kind, m, e) \notin next
    BY <2>1, MailFields DEF Kinds
  <2> QED  BY <1>3, <2>1, <2>2
<1>5. CASE SendRsvpReminders
  <2> DEFINE next == {c \in [call : {"reminder"}, member : Members, event : UpcomingEvents] :
                        c.member \in NotResponded(c.event)}
  <2>1. Begins("rsvpReminder", next)
    BY <1>5 DEF SendRsvpReminders
  <2>2. CASE Mail(kind, m, e) \in next
    <3>1. kind = "reminder" /\ e \in UpcomingEvents /\ m \in NotResponded(e)
      BY <2>2, MailFields
    <3> HIDE DEF next
    <3>2. Mail(kind, m, e) \in calls'
      BY <2>1, <2>2 DEF Begins
    <3> QED  BY <2>1, <3>1, <3>2 DEF Begins, mails, Decided, Count, Pending, JobOf
  <2> HIDE DEF next
  <2> QED  BY <1>3, <2>1, <2>2
<1>6. CASE PreEventReminders
  <2> DEFINE next == {c \in [call : {"warning"}, member : Members, event : UpcomingEvents] :
                        c.member \in LeadsToWarn(c.event)}
  <2>1. Begins("preEvent", next)
    BY <1>6 DEF PreEventReminders
  <2>2. CASE Mail(kind, m, e) \in next
    <3>1. kind = "warning" /\ e \in UpcomingEvents
      BY <2>2, MailFields
    <3> HIDE DEF next
    <3>2. Mail(kind, m, e) \in calls'
      BY <2>1, <2>2 DEF Begins
    <3> QED  BY <2>1, <3>1, <3>2 DEF Begins, mails, Decided, Count, Pending, JobOf
  <2> HIDE DEF next
  <2> QED  BY <1>3, <2>1, <2>2
<1>7. CASE PostEventReminders
  BY <1>2, <1>3, <1>7 DEF PostEventReminders
<1>8. ASSUME NEW c \in calls,
             AddNextTwoWeeks(c) \/ GetTodayTeams(c) \/ UpdateNextTeamEvent(c) \/ FindRsvp(c)
      PROVE  goal
  <2>1. PICK next \in SUBSET Call :
              /\ \A x \in next : x.call \notin {"reminder", "warning"}
              /\ c.call \notin {"reminder", "warning"}
              /\ Continues(c, next)
    BY <1>8, ReadsType
  <2>2. Mail(kind, m, e) \notin next /\ Mail(kind, m, e) # c
    BY <2>1, MailFields DEF Kinds
  <2> QED  BY <2>1, <2>2 DEF Continues, mails, Same, Count, Pending
<1>9. ASSUME NEW c \in calls, MakeUnknownRsvp(c) PROVE goal
  <2>1. Mail(kind, m, e) # c
    BY <1>9, MailFields DEF MakeUnknownRsvp, Kinds
  <2> QED  BY <1>9, <2>1 DEF MakeUnknownRsvp, mails, Same, Count, Pending
<1>10. ASSUME NEW c \in calls, Remind(c) \/ Warn(c) PROVE goal
  <2>1. /\ c.call \in Kinds /\ c.member \in Members /\ c.event \in Events
        /\ c = Mail(c.call, c.member, c.event)
    BY <1>0, <1>10 DEF Remind, Warn, Call, Kinds, Mail
  <2>2. Count(c.call)' = [Count(c.call) EXCEPT ![c.member][c.event] = @ + 1]
        /\ calls' = calls \ {c}
    BY <1>10 DEF Remind, Warn, Count
  <2>3. \A k \in Kinds \ {c.call} : Count(k)' = Count(k)
    BY <1>10 DEF Remind, Warn, Count, Kinds
  <2>4. Count(kind) \in [Members -> [Events -> Nat]]
    BY <1>0 DEF Count
  <2>5. CASE kind = c.call /\ m = c.member /\ e = c.event
    BY <1>10, <2>1, <2>2, <2>4, <2>5 DEF Sent, Pending
  <2>6. CASE ~(kind = c.call /\ m = c.member /\ e = c.event)
    <3>1. Mail(kind, m, e) # c
      BY <2>6, MailFields
    <3>2. Count(kind)'[m][e] = Count(kind)[m][e]
      <4>1. CASE kind = c.call
        BY <2>1, <2>2, <2>4, <2>6, <4>1
      <4>2. CASE kind # c.call
        BY <2>3, <4>2
      <4> QED  BY <4>1, <4>2
    <3> QED  BY <2>2, <3>1, <3>2 DEF Same, Pending
  <2> QED  BY <2>5, <2>6
<1>11. CASE PeopleStep
  <2>1. reminded' = reminded /\ warned' = warned /\ calls' = calls
    BY <1>11 DEF PeopleStep, Answer, Schedule, Move, EditMember, CreateRsvp, DeleteRsvp, Edit, mails
  <2> QED  BY <1>1, <2>1
<1>12. CASE Fail
  BY <1>2, <1>12 DEF Fail
<1>13. CASE Restart \/ Tick \/ UNCHANGED vars
  BY <1>1, <1>13 DEF Restart, Tick, vars, mails
<1> QED
  BY <1>4, <1>5, <1>6, <1>7, <1>8, <1>9, <1>10, <1>11, <1>12, <1>13 DEF Next, JobStep

-----------------------------------------------------------------------------
(* One mail, not two.                                                      *)

\* Two Sundays are a week apart.
LEMMA SundaysApart ==
    ASSUME NEW s \in Nat, NEW t \in Nat, OnSunday(s), OnSunday(t), s < t
    PROVE  t >= s + 21
  BY DEF OnSunday, Weekday, PerDay

LEMMA OnlyOnSunday ==
    ASSUME NEW t, NEW job \in Fired(t), job \in {"rsvpReminder", "preEvent"}
    PROVE  OnSunday(t)
  BY DEF Fired

\* A step of a job, of the process or of people: the clock waits.
LEMMA StepKeeps ==
    ASSUME TypeInv, [Next]_vars
    PROVE  /\ \A e \in Events \ moved' : e \notin moved /\ event'[e].start = event[e].start
           /\ \/ now' = now /\ due' \subseteq due
              \/ Tick
<1> USE DEF TypeInv, TypeOK
<1>1. CASE JobStep
  BY <1>1 DEF JobStep, AddWeeklyRsvps, SendRsvpReminders, PreEventReminders, PostEventReminders,
              Begins, Die, AddNextTwoWeeks, GetTodayTeams, UpdateNextTeamEvent, FindRsvp,
              Continues, MakeUnknownRsvp, Remind, Warn, tables, history
<1>2. CASE \E e \in Events, s \in Starts : Move(e, s)
  <2>1. PICK e \in Events, s \in Starts : Move(e, s)
    BY <1>2
  <2>2. \A f \in Events \ {e} : event'[f] = event[f]
    BY <2>1 DEF Move
  <2> QED  BY <2>1, <2>2 DEF Move, Edit
<1>3. CASE \E e \in Events, a \in BOOLEAN, t \in TeamIds : Schedule(e, a, t)
  <2>1. PICK e \in Events, a \in BOOLEAN, t \in TeamIds : Schedule(e, a, t)
    BY <1>3
  <2>2. \A f \in Events : event'[f].start = event[f].start
    BY <2>1 DEF Schedule, Event
  <2> QED  BY <2>1, <2>2 DEF Schedule, Edit
<1>4. CASE \/ \E m \in Members, e \in Events, r \in {"yes", "no"} : Answer(m, e, r)
           \/ \E m \in Members, u \in User : EditMember(m, u)
           \/ \E m \in Members, e \in Events, r \in Responses :
                CreateRsvp(m, e, r) \/ DeleteRsvp(m, e, r)
  <2>1. event' = event /\ moved' = moved /\ now' = now /\ due' = due
    BY <1>4 DEF Answer, EditMember, CreateRsvp, DeleteRsvp, Edit
  <2> QED  BY <2>1
<1>5. CASE Fail \/ Restart \/ UNCHANGED vars
  BY <1>5 DEF Fail, Die, Restart, vars, tables, history
<1>6. CASE Tick
  BY <1>6 DEF Tick, tables
<1> QED  BY <1>1, <1>2, <1>3, <1>4, <1>5, <1>6 DEF Next, PeopleStep

LEMMA TypedClock ==
    ASSUME TypeInv
    PROVE  /\ now \in Nat
           /\ \A e \in Events : event[e].start \in Nat
<1>1. now \in Nat
  BY ClockAssumption DEF TypeInv, TypeOK
<1>2. \A e \in Events : event[e].start \in Starts
  BY DEF TypeInv, TypeOK, Event
<1>3. \A t \in Starts : t \in Nat
  BY ClockAssumption
<1> QED  BY <1>1, <1>2, <1>3

\* A Sunday s gone by whose window reached e, and whose job does not begin any more.
SundayGone(job, e, s) ==
    /\ OnSunday(s) /\ s <= now
    /\ event[e].start <= s + 96
    /\ s = now => job \notin due

\* A mail about e that is on its way or was sent is the only one, of such a Sunday; it is on
\* its way only on that Sunday.
SentOnce(kind) ==
    \A m \in Members, e \in Events \ moved :
        \/ Count(kind)[m][e] = 0 /\ ~Pending(kind, m, e)
        \/ /\ Count(kind)[m][e] = (IF Pending(kind, m, e) THEN 0 ELSE 1)
           /\ \E s \in Nat : SundayGone(JobOf(kind), e, s)
           /\ Pending(kind, m, e) => event[e].start > now + 81

MailInv == \A kind \in Kinds : SentOnce(kind)

\* What was gone stays gone.
LEMMA StillGone ==
    ASSUME TypeInv, [Next]_vars, NEW job, NEW e \in Events \ moved', NEW s \in Nat,
           SundayGone(job, e, s)
    PROVE  SundayGone(job, e, s)'
<1>1. CASE now' = now /\ due' \subseteq due
  BY <1>1, StepKeeps DEF SundayGone, OnSunday, Weekday
<1>2. CASE Tick
  BY <1>2, StepKeeps, TypedClock DEF SundayGone, OnSunday, Weekday, Tick
<1> QED  BY <1>1, <1>2, StepKeeps

\* A job that finds e in its window on this Sunday has not found it before.
LEMMA FirstTime ==
    ASSUME TypeInv, NEW job \in due, job \in {"rsvpReminder", "preEvent"},
           NEW e \in UpcomingEvents, NEW s \in Nat, SundayGone(job, e, s)
    PROVE  FALSE
<1>1. OnSunday(now) /\ s < now
  BY OnlyOnSunday, TypedClock DEF TypeInv, SundayGone
<1>2. now >= s + 21
  BY <1>1, SundaysApart, TypedClock DEF SundayGone
<1>3. event[e].start > now + 81
  BY DEF UpcomingEvents, Between, PerDay
<1>4. event[e].start \in Nat
  BY TypedClock DEF UpcomingEvents, Between
<1> QED  BY <1>2, <1>3, <1>4, TypedClock DEF SundayGone

LEMMA InitMail == Init => MailInv
  BY DEF Init, MailInv, SentOnce, Count, Pending, Kinds

LEMMA NextSent ==
    ASSUME TypeInv, [Next]_vars, NEW kind \in Kinds, SentOnce(kind)
    PROVE  SentOnce(kind)'
<1> SUFFICES ASSUME NEW m \in Members, NEW e \in Events \ moved'
             PROVE  \/ Count(kind)'[m][e] = 0 /\ ~Pending(kind, m, e)'
                    \/ /\ Count(kind)'[m][e] = (IF Pending(kind, m, e)' THEN 0 ELSE 1)
                       /\ \E s \in Nat : SundayGone(JobOf(kind), e, s)'
                       /\ Pending(kind, m, e)' => event'[e].start > now' + 81
  BY DEF SentOnce, JobOf
<1>1. e \notin moved /\ event'[e].start = event[e].start
  BY StepKeeps
<1>2. \/ Count(kind)[m][e] = 0 /\ ~Pending(kind, m, e)
      \/ /\ Count(kind)[m][e] = (IF Pending(kind, m, e) THEN 0 ELSE 1)
         /\ \E s \in Nat : SundayGone(JobOf(kind), e, s)
         /\ Pending(kind, m, e) => event[e].start > now + 81
  BY <1>1 DEF SentOnce
<1>3. CASE Same(kind, m, e)
  <2>1. Pending(kind, m, e)' => now' = now
    BY <1>3, StepKeeps DEF Tick, Same, Pending
  <2> QED  BY <1>1, <1>2, <1>3, <2>1, StillGone DEF Same
<1>4. CASE Lost(kind, m, e)
  <2>1. CASE Count(kind)[m][e] = 0
    BY <1>4, <2>1 DEF Lost
  <2>2. CASE Count(kind)[m][e] # 0
    BY <1>2, <1>4, <2>2, StillGone DEF Lost
  <2> QED  BY <2>1, <2>2
<1>5. CASE Decided(kind, m, e)
  <2>1. JobOf(kind) \in {"rsvpReminder", "preEvent"} /\ JobOf(kind) \in due
        /\ e \in UpcomingEvents
    BY <1>5 DEF JobOf, Decided
  <2>2. Count(kind)[m][e] = 0
    BY <1>2, <2>1, FirstTime
  <2>3. OnSunday(now)
    BY <2>1, OnlyOnSunday DEF TypeInv
  <2>4. event[e].start > now + 81 /\ event[e].start <= now + 96
    BY <2>1 DEF UpcomingEvents, Between, PerDay
  <2>5. SundayGone(JobOf(kind), e, now)'
    BY <1>1, <1>5, <2>3, <2>4, TypedClock DEF SundayGone, Decided, JobOf, OnSunday, Weekday
  <2>6. now \in Nat /\ now' = now
    BY <1>5, TypedClock DEF Decided
  <2> QED  BY <1>1, <1>5, <2>2, <2>4, <2>5, <2>6 DEF Decided, SundayGone, JobOf
<1>6. CASE Sent(kind, m, e)
  BY <1>2, <1>6, StillGone DEF Sent
<1> QED  BY <1>3, <1>4, <1>5, <1>6, MailStep

LEMMA NextMail == TypeInv /\ MailInv /\ [Next]_vars => MailInv'
  BY NextSent DEF MailInv

LEMMA MailAlways == Spec => [](TypeInv /\ MailInv)
<1>1. Init => TypeInv /\ MailInv
  BY InitType, InitMail
<1>2. (TypeInv /\ MailInv) /\ [Next]_vars => (TypeInv /\ MailInv)'
  BY NextType, NextMail
<1> QED  BY <1>1, <1>2, PTL DEF Spec

LEMMA OnceMeansOnce == MailInv => NoSecondMail
<1> SUFFICES ASSUME MailInv, NEW m \in Members, NEW e \in Events \ moved
             PROVE  reminded[m][e] <= 1 /\ warned[m][e] <= 1
  BY DEF NoSecondMail
<1>1. \A kind \in Kinds : Count(kind)[m][e] = 0 \/ Count(kind)[m][e] = 1
  BY DEF MailInv, SentOnce
<1> QED  BY <1>1 DEF Kinds, Count

\* No member gets a reminder, and no lead a warning, twice for one market day whose
\* date is kept (notification.service.ts:91-130).
THEOREM NobodyIsMailedTwice == Spec => []NoSecondMail
  BY MailAlways, OnceMeansOnce, PTL

-----------------------------------------------------------------------------
(* One mail, not none.                                                     *)

\* The event starts in the afternoon of a Saturday, far enough ahead.
Afternoon(e) ==
    /\ event[e].start % PerDay = 2 /\ Weekday(event[e].start) = 0
    /\ event[e].start > PerDay * 33

\* The Sunday in whose window such an event is.
LEMMA TheSunday ==
    ASSUME NEW t \in Nat, t % PerDay = 2, Weekday(t) = 0, t > 99
    PROVE  t - 82 \in Nat /\ OnSunday(t - 82)
  BY DEF OnSunday, Weekday, PerDay

Waiting(m, e) ==
    /\ e \notin unsteady /\ e \notin moved
    /\ Silent(m, e)
    /\ Afternoon(e)
    /\ <<m, e>> \notin lately

\* That Sunday's job has begun.
TurnGone(e) ==
    \/ now > event[e].start - 82
    \/ now = event[e].start - 82 /\ "rsvpReminder" \notin due

SilentInv ==
    /\ \A e \in Events \ unsteady : Scheduled(e)
    /\ \A m \in Members, e \in Events :
         Waiting(m, e) /\ TurnGone(e) =>
            reminded[m][e] = 1 \/ Pending("reminder", m, e)

LEMMA InitSilent == Init => SilentInv
<1> SUFFICES ASSUME Init PROVE SilentInv
  OBVIOUS
<1>1. \A e \in Events : Afternoon(e) => ~TurnGone(e)
  <2> SUFFICES ASSUME NEW e \in Events, Afternoon(e) PROVE ~TurnGone(e)
    OBVIOUS
  <2>1. event[e].start \in Nat
    BY InitType, TypedClock
  <2> QED  BY <2>1 DEF Init, Afternoon, TurnGone, PerDay
<1>2. \A e \in Events \ unsteady : Scheduled(e)
  BY DEF Init
<1> QED  BY <1>1, <1>2 DEF SilentInv, Waiting

\* An event that is still on the schedule all along keeps its team; if it was not moved
\* either it is the event it was.
LEMMA SteadyStep ==
    ASSUME TypeInv, [Next]_vars, NEW e \in Events \ unsteady'
    PROVE  /\ e \notin unsteady /\ up /\ up'
           /\ event'[e].isActive = event[e].isActive /\ event'[e].teamId = event[e].teamId
           /\ e \notin moved' => event'[e] = event[e]
<1> USE DEF TypeInv, TypeOK
<1>1. CASE JobStep
  BY <1>1 DEF JobStep, AddWeeklyRsvps, SendRsvpReminders, PreEventReminders, PostEventReminders,
              Begins, Die, AddNextTwoWeeks, GetTodayTeams, UpdateNextTeamEvent, FindRsvp,
              Continues, MakeUnknownRsvp, Remind, Warn, tables, history
<1>2. CASE \E f \in Events, s \in Starts : Move(f, s)
  <2>1. PICK f \in Events, s \in Starts : Move(f, s)
    BY <1>2
  <2>2. up /\ up' /\ unsteady' = unsteady /\ moved' = moved \union {f}
    BY <2>1 DEF Move, Edit
  <2>3. e # f => event'[e] = event[e]
    BY <2>1 DEF Move
  <2>4. event'[e].isActive = event[e].isActive /\ event'[e].teamId = event[e].teamId
    BY <2>1 DEF Move, Event
  <2> QED  BY <2>2, <2>3, <2>4
<1>3. CASE \E f \in Events, a \in BOOLEAN, t \in TeamIds : Schedule(f, a, t)
  <2>1. PICK f \in Events, a \in BOOLEAN, t \in TeamIds : Schedule(f, a, t)
    BY <1>3
  <2>2. up /\ up' /\ unsteady' = unsteady \union {f}
    BY <2>1 DEF Schedule, Edit
  <2>3. event'[e] = event[e]
    BY <2>1, <2>2 DEF Schedule
  <2> QED  BY <2>2, <2>3
<1>4. CASE \/ \E m \in Members, f \in Events, r \in {"yes", "no"} : Answer(m, f, r)
           \/ \E m \in Members, u \in User : EditMember(m, u)
           \/ \E m \in Members, f \in Events, r \in Responses :
                CreateRsvp(m, f, r) \/ DeleteRsvp(m, f, r)
  <2>1. event' = event /\ unsteady' = unsteady /\ up /\ up'
    BY <1>4 DEF Answer, EditMember, CreateRsvp, DeleteRsvp, Edit
  <2> QED  BY <2>1
<1>5. CASE Fail \/ Restart \/ UNCHANGED vars
  BY <1>5 DEF Fail, Die, Restart, vars, tables, history
<1>6. CASE Tick
  BY <1>6 DEF Tick, tables
<1> QED  BY <1>1, <1>2, <1>3, <1>4, <1>5, <1>6 DEF Next, PeopleStep

\* Only an edit, on the Sunday or after it, makes a member silent then.
LEMMA WaitStep ==
    ASSUME TypeInv, [Next]_vars, NEW m \in Members, NEW e \in Events,
           Waiting(m, e)', SundayHasCome(e)'
    PROVE  Waiting(m, e)
<1> USE DEF TypeInv, TypeOK
<1>1. e \notin unsteady /\ event'[e] = event[e]
  BY SteadyStep DEF Waiting
<1>2. e \notin moved
  BY StepKeeps DEF Waiting
<1>3. SUFFICES user'[m] = user[m] /\ (HasRow(m, e) => HasRow(m, e)')
               /\ (<<m, e>> \in lately => <<m, e>> \in lately')
  BY <1>1, <1>2, <1>3 DEF Waiting, Silent, Afternoon, Weekday, PerDay, HasRow
<1>4. now' = now => SundayHasCome(e)
  BY <1>1 DEF SundayHasCome, PerDay
<1>5. ASSUME user' = user, rsvp' = rsvp, lately' = lately
      PROVE  user'[m] = user[m] /\ (HasRow(m, e) => HasRow(m, e)')
             /\ (<<m, e>> \in lately => <<m, e>> \in lately')
  BY <1>5 DEF HasRow
\* Rows that do not get fewer do not vanish.
<1>0. ASSUME \A r \in Responses : rsvp'[m][e][r] >= rsvp[m][e][r]
      PROVE  HasRow(m, e) => HasRow(m, e)'
  <2>1. rsvp' \in [Members -> [Events -> [Responses -> Nat]]]
    BY NextType
  <2>2. \A r \in Responses : rsvp[m][e][r] \in Nat /\ rsvp'[m][e][r] \in Nat
    BY <2>1
  <2>3. \A r \in Responses : rsvp[m][e][r] > 0 => rsvp'[m][e][r] > 0
    BY <1>0, <2>2
  <2> QED  BY <2>3 DEF HasRow
<1>6. ASSUME NEW c \in calls, MakeUnknownRsvp(c)
      PROVE  user'[m] = user[m] /\ (HasRow(m, e) => HasRow(m, e)')
             /\ (<<m, e>> \in lately => <<m, e>> \in lately')
  <2>1. c \in Call /\ c.call = "makeRsvp"
    BY <1>6 DEF MakeUnknownRsvp
  <2>2. c.member \in Members /\ c.event \in Events
    BY <2>1 DEF Call
  <2>3. \A r \in Responses : rsvp'[m][e][r] >= rsvp[m][e][r]
    BY <1>6, <2>2 DEF MakeUnknownRsvp, Responses
  <2> QED  BY <1>0, <1>6, <2>3 DEF MakeUnknownRsvp
<1>7. CASE JobStep
  <2>1. CASE \E c \in calls : MakeUnknownRsvp(c)
    BY <1>6, <2>1
  <2>2. CASE ~ \E c \in calls : MakeUnknownRsvp(c)
    <3>1. user' = user /\ rsvp' = rsvp /\ lately' = lately
      BY <1>7, <2>2 DEF JobStep, AddWeeklyRsvps, SendRsvpReminders, PreEventReminders,
              PostEventReminders, Begins, Die, AddNextTwoWeeks, GetTodayTeams,
              UpdateNextTeamEvent, FindRsvp, Continues, Remind, Warn, tables, history
    <3> QED  BY <1>5, <3>1
  <2> QED  BY <2>1, <2>2
<1>8. CASE \E n \in Members, f \in Events, r \in {"yes", "no"} : Answer(n, f, r)
  <2>1. PICK n \in Members, f \in Events, r \in {"yes", "no"} : Answer(n, f, r)
    BY <1>8
  <2>2. HasRow(m, e) => HasRow(m, e)'
    <3>1. CASE n = m /\ f = e
      <4>1. r \in Responses
        BY DEF Responses
      <4>2. rsvp'[m][e][r] > 0
        <5>1. CASE rsvp' = [rsvp EXCEPT ![n][f][r] = 1]
          BY <3>1, <4>1, <5>1
        <5>2. ASSUME NEW q \in Responses \ {r},
                     rsvp' = [rsvp EXCEPT ![n][f][q] = @ - 1, ![n][f][r] = @ + 1]
              PROVE  rsvp'[m][e][r] > 0
          <6>1. rsvp[m][e][r] \in Nat
            BY <4>1
          <6>2. rsvp'[m][e][r] = rsvp[m][e][r] + 1
            BY <3>1, <4>1, <5>2
          <6> QED  BY <6>1, <6>2
        <5> QED  BY <2>1, <5>1, <5>2 DEF Answer, Responds
      <4> QED  BY <4>1, <4>2 DEF HasRow
    <3>2. CASE ~(n = m /\ f = e)
      <4>1. \A q \in Responses : [rsvp EXCEPT ![n][f][q] = @ - 1, ![n][f][r] = @ + 1][m][e] = rsvp[m][e]
        BY <3>2
      <4>2. [rsvp EXCEPT ![n][f][r] = 1][m][e] = rsvp[m][e]
        BY <3>2
      <4>3. rsvp'[m][e] = rsvp[m][e]
        BY <2>1, <4>1, <4>2 DEF Answer, Responds
      <4> QED  BY <4>3 DEF HasRow
    <3> QED  BY <3>1, <3>2
  <2> QED  BY <2>1, <2>2 DEF Answer
<1>9. CASE \E n \in Members, u \in User : EditMember(n, u)
  <2>1. PICK n \in Members, u \in User : EditMember(n, u)
    BY <1>9
  <2>2. n # m
    <3>1. now' = now
      BY <2>1 DEF EditMember, Edit
    <3>2. <<m, e>> \notin lately'
      BY DEF Waiting
    <3> QED  BY <1>4, <2>1, <3>1, <3>2 DEF EditMember
  <2> QED  BY <2>1, <2>2 DEF EditMember, HasRow
<1>10. CASE \E n \in Members, f \in Events, r \in Responses : CreateRsvp(n, f, r)
  <2>1. PICK n \in Members, f \in Events, r \in Responses : CreateRsvp(n, f, r)
    BY <1>10
  <2>2. \A q \in Responses : rsvp'[m][e][q] >= rsvp[m][e][q]
    BY <2>1 DEF CreateRsvp
  <2> QED  BY <1>0, <2>1, <2>2 DEF CreateRsvp
<1>11. CASE \E n \in Members, f \in Events, r \in Responses : DeleteRsvp(n, f, r)
  <2>1. PICK n \in Members, f \in Events, r \in Responses : DeleteRsvp(n, f, r)
    BY <1>11
  <2>2. ~(n = m /\ f = e)
    <3>1. now' = now
      BY <2>1 DEF DeleteRsvp, Edit
    <3>2. <<m, e>> \notin lately'
      BY DEF Waiting
    <3> QED  BY <1>4, <2>1, <3>1, <3>2 DEF DeleteRsvp
  <2>3. rsvp'[m][e] = rsvp[m][e]
    BY <2>1, <2>2 DEF DeleteRsvp
  <2> QED  BY <2>1, <2>3 DEF DeleteRsvp, HasRow
<1>12. CASE \/ \E f \in Events, a \in BOOLEAN, t \in TeamIds : Schedule(f, a, t)
            \/ \E f \in Events, s \in Starts : Move(f, s)
            \/ Fail \/ Restart \/ Tick \/ UNCHANGED vars
  BY <1>5, <1>12 DEF Schedule, Move, Fail, Die, Restart, Tick, vars, tables, history
<1> QED  BY <1>7, <1>8, <1>9, <1>10, <1>11, <1>12 DEF Next, PeopleStep

\* A job leaves the list of this tick only by beginning.
LEMMA TurnTaken ==
    ASSUME TypeInv, [Next]_vars, unsteady' # Events, "rsvpReminder" \in due
    PROVE  SendRsvpReminders \/ ("rsvpReminder" \in due' /\ now' = now)
<1>1. CASE JobStep
  BY <1>1 DEF JobStep, AddWeeklyRsvps, SendRsvpReminders, PreEventReminders, PostEventReminders,
              Begins, Die, AddNextTwoWeeks, GetTodayTeams, UpdateNextTeamEvent, FindRsvp,
              Continues, MakeUnknownRsvp, Remind, Warn
<1>2. CASE PeopleStep
  BY <1>2 DEF PeopleStep, Answer, Schedule, Move, EditMember, CreateRsvp, DeleteRsvp, Edit
<1>3. CASE Fail \/ Restart \/ Tick \/ UNCHANGED vars
  BY <1>3 DEF Fail, Die, Restart, Tick, vars
<1> QED  BY <1>1, <1>2, <1>3 DEF Next

LEMMA NextSilent == TypeInv /\ MailInv /\ SilentInv /\ [Next]_vars => SilentInv'
<1> SUFFICES ASSUME TypeInv, MailInv, SilentInv, [Next]_vars PROVE SilentInv'
  OBVIOUS
<1>1. (\A e \in Events \ unsteady : Scheduled(e))'
  BY SteadyStep DEF SilentInv, Scheduled
<1>2. ASSUME NEW m \in Members, NEW e \in Events, Waiting(m, e)', TurnGone(e)'
      PROVE  reminded'[m][e] = 1 \/ Pending("reminder", m, e)'
  <2>0. e \in Events \ unsteady' /\ e \notin moved'
    BY <1>2 DEF Waiting
  <2>1. e \notin unsteady /\ e \notin moved' /\ event'[e] = event[e] /\ unsteady' # Events /\ up
    BY <2>0, SteadyStep
  <2>2. event[e].start \in Nat /\ now \in Nat /\ (now' = now \/ Tick)
    BY StepKeeps, TypedClock
  <2>3. SundayHasCome(e)'
    <3>1. now' \in Nat
      BY <2>2 DEF Tick
    <3>2. event'[e].start \in Nat
      BY <2>1, <2>2
    <3> QED  BY <1>2, <3>1, <3>2 DEF TurnGone, SundayHasCome, PerDay
  <2>4. Waiting(m, e)
    BY <1>2, <2>3, WaitStep
  <2>5. OnSunday(event[e].start - 82)
    BY <2>2, <2>4, TheSunday DEF Waiting, Afternoon, PerDay
  <2>6. SentOnce("reminder")' /\ SentOnce("reminder")
    BY NextMail DEF MailInv, Kinds
  <2>7. reminded'[m][e] = 0 \/ reminded'[m][e] = 1
    BY <2>1, <2>6 DEF SentOnce, Count
  <2>8. CASE TurnGone(e)
    <3>1. reminded[m][e] = 1 \/ Pending("reminder", m, e)
      BY <2>4, <2>8 DEF SilentInv
    <3>2. CASE Same("reminder", m, e)
      BY <3>1, <3>2 DEF Same, Count
    <3>3. CASE Decided("reminder", m, e)
      BY <3>3 DEF Decided
    <3>4. CASE Sent("reminder", m, e)
      <4>1. reminded[m][e] \in Nat
        BY DEF TypeInv, TypeOK
      <4> QED  BY <2>7, <3>4, <4>1 DEF Sent, Count
    <3> QED  BY <2>1, <3>2, <3>3, <3>4, MailStep DEF Kinds, Lost
  <2>9. CASE ~TurnGone(e)
    <3>1. now = event[e].start - 82 /\ "rsvpReminder" \in due
      <4>1. CASE now' = now /\ due' \subseteq due
        BY <1>2, <2>1, <2>2, <2>9, <4>1 DEF TurnGone
      <4>2. CASE Tick
        <5>1. now' = event[e].start - 82
          BY <1>2, <2>1, <2>2, <2>9, <4>2 DEF TurnGone, Tick
        <5>2. due = {} /\ due' = Fired(now')
          BY <2>1, <4>2 DEF Tick
        <5>3. "rsvpReminder" \in due'
          BY <2>5, <5>1, <5>2 DEF Fired
        <5> QED  BY <1>2, <2>1, <2>2, <5>1, <5>3 DEF TurnGone
      <4> QED  BY <4>1, <4>2, StepKeeps
    <3>2. SendRsvpReminders
      <4>1. ~("rsvpReminder" \in due' /\ now' = now)
        BY <1>2, <2>1, <2>2, <3>1 DEF TurnGone
      <4> QED  BY <2>1, <3>1, <4>1, TurnTaken
    <3>3. e \in UpcomingEvents
      BY <2>1, <2>2, <3>1 DEF UpcomingEvents, Between, PerDay, SilentInv
    <3>4. m \in NotResponded(e)
      BY <2>4 DEF Waiting, Silent, NotResponded, OnDuty
    <3>5. Mail("reminder", m, e) \in calls'
      BY <3>2, <3>3, <3>4 DEF SendRsvpReminders, Begins, Mail
    <3> QED  BY <3>5 DEF Pending
  <2> QED  BY <2>8, <2>9
<1> QED  BY <1>1, <1>2 DEF SilentInv

LEMMA SilentAlways == Spec => [](TypeInv /\ MailInv /\ SilentInv)
<1>1. Init => TypeInv /\ MailInv /\ SilentInv
  BY InitType, InitMail, InitSilent
<1>2. (TypeInv /\ MailInv /\ SilentInv) /\ [Next]_vars => (TypeInv /\ MailInv /\ SilentInv)'
  BY NextType, NextMail, NextSilent
<1> QED  BY <1>1, <1>2, PTL DEF Spec

LEMMA SilentMeansReminded == TypeInv /\ MailInv /\ SilentInv => AfternoonReminded
<1> SUFFICES ASSUME TypeInv, MailInv, SilentInv,
                    NEW e \in Events \ (unsteady \union moved), NEW m \in Members,
                    Silent(m, e), Afternoon(e), now > event[e].start - PerDay * 27,
                    <<m, e>> \notin lately
             PROVE  reminded[m][e] = 1
  BY DEF AfternoonReminded, Afternoon
<1>1. Waiting(m, e) /\ TurnGone(e)
  BY TypedClock DEF Waiting, TurnGone, PerDay
<1>2. ~Pending("reminder", m, e)
  BY TypedClock DEF MailInv, SentOnce, Kinds, PerDay
<1> QED  BY <1>1, <1>2 DEF SilentInv

\* Whoever is silent about a market day of the team that was on the schedule all along was
\* reminded of it, if it starts in the afternoon, whoever answers, joins, leaves or has rows
\* made and deleted meanwhile: only who came, or lost a row, too late for its Sunday was not
\* (notification.service.ts:90-109).
THEOREM TheSilentAreReminded == Spec => []AfternoonReminded
  BY SilentAlways, SilentMeansReminded, PTL

-----------------------------------------------------------------------------
(* Read, awaited, sent.                                                    *)

\* A reminder on its way is called for, or what it is about was changed since.
Called(m, e) == (Silent(m, e) /\ Scheduled(e)) \/ <<m, e>> \in overtaken
CalledInv == \A m \in Members, e \in Events : Pending("reminder", m, e) => Called(m, e)

\* A mail that stays on its way while its pair changes is overtaken.
LEMMA OvertakesPending ==
    ASSUME NEW pairs, Overtakes(pairs), NEW m, NEW e, Pending("reminder", m, e),
           <<m, e>> \in pairs
    PROVE  Called(m, e)'
  BY DEF Overtakes, Pending, Mail, Called

LEMMA StaysCalled ==
    ASSUME TypeInv, [Next]_vars, NEW m \in Members, NEW e \in Events, Called(m, e),
           Pending("reminder", m, e), Pending("reminder", m, e)'
    PROVE  Called(m, e)'
<1> USE DEF TypeInv, TypeOK
<1>1. ASSUME user' = user, event' = event, rsvp' = rsvp, overtaken' = overtaken
      PROVE  Called(m, e)'
  BY <1>1 DEF Called, Silent, Scheduled, HasRow
<1>2. ASSUME NEW c \in calls, MakeUnknownRsvp(c)
      PROVE  Called(m, e)'
  <2>1. c \in Call /\ c.call = "makeRsvp"
    BY <1>2 DEF MakeUnknownRsvp
  <2>2. c.member \in Members /\ c.event \in Events
    BY <2>1 DEF Call
  <2>3. CASE c.member = m /\ c.event = e
    BY <1>2, <2>3, OvertakesPending DEF MakeUnknownRsvp
  <2>4. CASE ~(c.member = m /\ c.event = e)
    <3>1. rsvp'[m][e] = rsvp[m][e]
      BY <1>2, <2>2, <2>4 DEF MakeUnknownRsvp
    <3> QED  BY <1>2, <3>1 DEF MakeUnknownRsvp, Called, Silent, Scheduled, HasRow, Overtakes
  <2> QED  BY <2>3, <2>4
<1>3. ASSUME NEW c \in calls, Remind(c)
      PROVE  Called(m, e)'
  <2>1. <<m, e>> # <<c.member, c.event>>
    <3>1. c \in Call /\ c.call = "reminder" /\ c \notin calls'
      BY <1>3 DEF Remind
    <3>2. c = Mail("reminder", c.member, c.event)
      BY <3>1 DEF Call, Mail
    <3> QED  BY <3>1, <3>2 DEF Pending
  <2> QED  BY <1>3, <2>1 DEF Remind, tables, Called, Silent, Scheduled, HasRow
<1>4. CASE JobStep
  <2>1. CASE \E c \in calls : MakeUnknownRsvp(c) \/ Remind(c)
    BY <1>2, <1>3, <2>1
  <2>2. CASE ~ \E c \in calls : MakeUnknownRsvp(c) \/ Remind(c)
    <3>1. user' = user /\ event' = event /\ rsvp' = rsvp /\ overtaken' = overtaken
      BY <1>4, <2>2 DEF JobStep, AddWeeklyRsvps, SendRsvpReminders, PreEventReminders,
              PostEventReminders, Begins, Die, AddNextTwoWeeks, GetTodayTeams,
              UpdateNextTeamEvent, FindRsvp, Continues, Warn, tables, history
    <3> QED  BY <1>1, <3>1
  <2> QED  BY <2>1, <2>2
<1>5. ASSUME NEW n \in Members, NEW f \in Events, Overtakes({<<n, f>>}), user' = user, event' = event,
             ~(n = m /\ f = e) => rsvp'[m][e] = rsvp[m][e]
      PROVE  Called(m, e)'
  <2>1. CASE n = m /\ f = e
    BY <1>5, <2>1, OvertakesPending
  <2>2. CASE ~(n = m /\ f = e)
    BY <1>5, <2>2 DEF Called, Silent, Scheduled, HasRow, Overtakes
  <2> QED  BY <2>1, <2>2
<1>6. CASE \E n \in Members, f \in Events, r \in {"yes", "no"} : Answer(n, f, r)
  <2>1. PICK n \in Members, f \in Events, r \in {"yes", "no"} : Answer(n, f, r)
    BY <1>6
  <2>2. ~(n = m /\ f = e) => rsvp'[m][e] = rsvp[m][e]
    <3> SUFFICES ASSUME ~(n = m /\ f = e) PROVE rsvp'[m][e] = rsvp[m][e]
      OBVIOUS
    <3>1. \A q \in Responses : [rsvp EXCEPT ![n][f][q] = @ - 1, ![n][f][r] = @ + 1][m][e] = rsvp[m][e]
      OBVIOUS
    <3>2. [rsvp EXCEPT ![n][f][r] = 1][m][e] = rsvp[m][e]
      OBVIOUS
    <3> QED  BY <2>1, <3>1, <3>2 DEF Answer, Responds
  <2>3. Overtakes({<<n, f>>}) /\ user' = user /\ event' = event
    BY <2>1 DEF Answer
  <2> QED  BY <1>5, <2>2, <2>3
<1>7. CASE \E n \in Members, f \in Events, r \in Responses :
             CreateRsvp(n, f, r) \/ DeleteRsvp(n, f, r)
  <2>1. PICK n \in Members, f \in Events, r \in Responses :
             CreateRsvp(n, f, r) \/ DeleteRsvp(n, f, r)
    BY <1>7
  <2>2. ~(n = m /\ f = e) => rsvp'[m][e] = rsvp[m][e]
    BY <2>1 DEF CreateRsvp, DeleteRsvp
  <2>3. Overtakes({<<n, f>>}) /\ user' = user /\ event' = event
    BY <2>1 DEF CreateRsvp, DeleteRsvp
  <2> QED  BY <1>5, <2>2, <2>3
<1>8. ASSUME NEW f \in Events, Overtakes(Members \X {f}), user' = user, rsvp' = rsvp,
             e # f => event'[e] = event[e]
      PROVE  Called(m, e)'
  <2>1. CASE f = e
    <3>1. <<m, e>> \in Members \X {f}
      BY <2>1
    <3> QED  BY <1>8, <3>1, OvertakesPending
  <2>2. CASE f # e
    BY <1>8, <2>2 DEF Called, Silent, Scheduled, HasRow, Overtakes
  <2> QED  BY <2>1, <2>2
<1>9. CASE \/ \E f \in Events, a \in BOOLEAN, t \in TeamIds : Schedule(f, a, t)
           \/ \E f \in Events, s \in Starts : Move(f, s)
  <2>1. PICK f \in Events : (\E a \in BOOLEAN, t \in TeamIds : Schedule(f, a, t))
                            \/ \E s \in Starts : Move(f, s)
    BY <1>9
  <2>2. Overtakes(Members \X {f}) /\ user' = user /\ rsvp' = rsvp
        /\ (e # f => event'[e] = event[e])
    BY <2>1 DEF Schedule, Move
  <2> QED  BY <1>8, <2>2
<1>10. CASE \E n \in Members, u \in User : EditMember(n, u)
  <2>1. PICK n \in Members, u \in User : EditMember(n, u)
    BY <1>10
  <2>2. CASE n = m
    <3>1. Overtakes({m} \X Events)
      BY <2>1, <2>2 DEF EditMember
    <3>2. <<m, e>> \in {m} \X Events
      OBVIOUS
    <3> QED  BY <3>1, <3>2, OvertakesPending
  <2>3. CASE n # m
    <3>1. user'[m] = user[m]
      BY <2>1, <2>3 DEF EditMember
    <3> QED  BY <2>1, <3>1 DEF EditMember, Called, Silent, Scheduled, HasRow, Overtakes
  <2> QED  BY <2>2, <2>3
<1>11. CASE Fail \/ Restart \/ UNCHANGED vars
  BY <1>1, <1>11 DEF Fail, Die, Restart, vars, tables, history
<1>12. CASE Tick
  BY <1>12 DEF Tick, Pending
<1> QED  BY <1>4, <1>6, <1>7, <1>9, <1>10, <1>11, <1>12 DEF Next, PeopleStep

LEMMA InitCalled == Init => CalledInv
  BY DEF Init, CalledInv, Pending

LEMMA NextCalled == TypeInv /\ CalledInv /\ [Next]_vars => CalledInv'
<1> SUFFICES ASSUME TypeInv, CalledInv, [Next]_vars, NEW m \in Members, NEW e \in Events,
                    Pending("reminder", m, e)'
             PROVE  Called(m, e)'
  BY DEF CalledInv
<1>1. CASE Pending("reminder", m, e)
  BY <1>1, StaysCalled DEF CalledInv
<1>2. CASE ~Pending("reminder", m, e)
  <2>1. Decided("reminder", m, e)
    BY <1>2, MailStep DEF Kinds, Same, Lost, Sent
  <2>2. Silent(m, e) /\ Scheduled(e)
    BY <2>1 DEF Decided, NotResponded, OnDuty, UpcomingEvents, Silent
  <2> QED  BY <2>1, <2>2 DEF Decided, tables, Called, Silent, Scheduled, HasRow
<1> QED  BY <1>1, <1>2

\* A reminder that is queued is still called for, unless an answer, an edit or the Saturday
\* job came between the query and the mail (notification.service.ts:92-107).
THEOREM RemindersAreCurrent == Spec => ReminderIsCurrent
<1>1. Init => TypeInv /\ CalledInv
  BY InitType, InitCalled
<1>2. (TypeInv /\ CalledInv) /\ [Next]_vars => (TypeInv /\ CalledInv)'
  BY NextType, NextCalled
<1>3. TypeInv /\ CalledInv /\ [Next]_vars =>
        [\A m \in Members, e \in Events :
            reminded'[m][e] # reminded[m][e] =>
                (Silent(m, e) /\ Scheduled(e)) \/ <<m, e>> \in overtaken]_vars
  <2> SUFFICES ASSUME TypeInv, CalledInv, [Next]_vars, NEW m \in Members, NEW e \in Events,
                      reminded'[m][e] # reminded[m][e]
               PROVE  Called(m, e)
    BY DEF Called
  <2>1. Pending("reminder", m, e)
    BY MailStep DEF Kinds, Same, Lost, Decided, Sent, Count
  <2> QED  BY <2>1 DEF CalledInv
<1> QED  BY <1>1, <1>2, <1>3, PTL DEF Spec, ReminderIsCurrent

-----------------------------------------------------------------------------
(* Midnight.  What AfternoonReminded leaves out is not left out by chance. *)

\* Neither reminder nor warning for a slot as generateSaturdaySlots makes it.
SlotsUnseen ==
    \A m \in Members, e \in Events \ moved :
        OnSaturday(event[e].start) => reminded[m][e] = 0 /\ warned[m][e] = 0

SlotsUndecided ==
    \A kind \in Kinds, m \in Members, e \in Events \ moved :
        OnSaturday(event[e].start) => Count(kind)[m][e] = 0 /\ ~Pending(kind, m, e)

\* No Sunday's window, 27 to 32 days ahead, holds a midnight on which a Saturday begins.
LEMMA NoWindow ==
    ASSUME TypeInv, NEW job \in due, job \in {"rsvpReminder", "preEvent"}, NEW e \in UpcomingEvents
    PROVE  ~OnSaturday(event[e].start)
<1>1. OnSunday(now)
  BY OnlyOnSunday DEF TypeInv
<1>2. now \in Nat /\ event[e].start \in Nat
  BY TypedClock DEF UpcomingEvents, Between
<1>3. event[e].start > now + 81 /\ event[e].start <= now + 96
  BY <1>2 DEF UpcomingEvents, Between, PerDay
<1> QED  BY <1>1, <1>2, <1>3 DEF OnSunday, OnSaturday, Weekday, PerDay

LEMMA SlotsStep == TypeInv /\ SlotsUndecided /\ [Next]_vars => SlotsUndecided'
<1> SUFFICES ASSUME TypeInv, SlotsUndecided, [Next]_vars,
                    NEW kind \in Kinds, NEW m \in Members, NEW e \in Events \ moved',
                    OnSaturday(event'[e].start)
             PROVE  Count(kind)'[m][e] = 0 /\ ~Pending(kind, m, e)'
  BY DEF SlotsUndecided, OnSaturday, Weekday, PerDay
<1>1. e \notin moved /\ OnSaturday(event[e].start)
  BY StepKeeps
<1>2. Count(kind)[m][e] = 0 /\ ~Pending(kind, m, e)
  BY <1>1 DEF SlotsUndecided
<1>3. ~Decided(kind, m, e)
  BY <1>1, NoWindow DEF Decided, JobOf
<1> QED  BY <1>2, <1>3, MailStep DEF Same, Lost, Sent

\* A slot that starts when a Saturday begins, as every slot the scheduler makes does
\* (scheduler.service.ts:90), is in no window of getUpcomingEvents: nobody is reminded or
\* warned of it, whatever the schedule, the members and the process do, unless it is moved.
THEOREM SlotsAreNeverAnnounced == Spec => []SlotsUnseen
<1>1. Init => TypeInv /\ SlotsUndecided
  BY InitType DEF Init, SlotsUndecided, Count, Pending
<1>2. (TypeInv /\ SlotsUndecided) /\ [Next]_vars => (TypeInv /\ SlotsUndecided)'
  BY NextType, SlotsStep
<1>3. SlotsUndecided => SlotsUnseen
  BY DEF SlotsUndecided, SlotsUnseen, Kinds, Count
<1> QED  BY <1>1, <1>2, <1>3, PTL DEF Spec
===============================================================================

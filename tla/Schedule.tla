------------------------------- MODULE Schedule -------------------------------
(***************************************************************************)
(* The schedule of a year (scheduler.service.ts): its slots are generated, *)
(* a proposal gives them to teams, and the planner who asked for it saves  *)
(* it, perhaps much later, while others edit the same market days by the   *)
(* CRUD routes or save a proposal of their own.                            *)
(*                                                                         *)
(* What a proposal is, is said here by what module Proposal shows of it:   *)
(* no team gets an event on a day on which it has one, and a slot may be   *)
(* left.  Saving is one save per event, independent of the others: the     *)
(* row is selected, compared, and the columns that differ are written.     *)
(* The first that fails answers the request; the others go on.             *)
(*                                                                         *)
(* Rows are named after the call that inserts them and the start they were *)
(* made for: a generation, or the planners' edit of that number.           *)
(***************************************************************************)
EXTENDS Naturals, FiniteSets

CONSTANTS
    Teams,
    Slots,          \* start and daypart of every Saturday slot of the year
    Day,            \* the day of each slot
    OffDay,         \* a start that is none of them
    Makers,         \* generateSaturdaySlots calls the run may make (bound)
    MadeAtStart,    \* those of them that have run before (bound)
    Plans,          \* proposals the run may ask for (bound)
    MaxEdits,       \* edits by others (bound)
    CrashAllowed,
    Null

ASSUME ScheduleSlots == DOMAIN Day = Slots /\ OffDay \notin Slots
ASSUME ScheduleBounds ==
    MadeAtStart \subseteq Makers /\ MaxEdits \in Nat /\ \A m, n \in MadeAtStart : m = n
ASSUME ScheduleNull == Null \notin Teams \union Slots \union {OffDay}

Hands == 1 .. MaxEdits
ASSUME ScheduleHands == Makers \cap Hands = {}

Starts == Slots \union {OffDay}
Ids == (Makers \X Slots) \union (Hands \X Starts)
Row == [at : Starts, isActive : BOOLEAN, team : Teams \union {Null}]
NoRow == [at |-> Null, isActive |-> FALSE, team |-> Null]
Columns == {"at", "isActive", "team"}

Empty(s) == [at |-> s, isActive |-> TRUE, team |-> Null]

Maker == [pc : {"idle", "save", "done", "lost"}, missing : SUBSET Slots]
NoMaker == [pc |-> "idle", missing |-> {}]

\* A proposal: the events as they were read, with the teams it gives them, and where
\* the save of each of them is; the request may be answered before all saves are over.
TaskPcs == {"none", "load", "update", "insert", "done", "failed"}
Plan == [pc : {"idle", "teams", "held", "saving", "over", "lost"},
         answer : {"none", "created", "error"},
         event : [Ids -> Row \union {NoRow}],
         task : [Ids -> TaskPcs], cols : [Ids -> SUBSET Columns]]
NoPlan == [pc |-> "idle", answer |-> "none", event |-> [i \in Ids |-> NoRow],
           task |-> [i \in Ids |-> "none"], cols |-> [i \in Ids |-> {}]]

VARIABLES
    event,      \* table event
    teams,      \* table team
    maker, plan,
    edits,
    crossed,    \* history: slots that were made, moved to or brought back when they
                \* were there or were being made
    late,       \* history: (proposal, event): changed by others while the proposal held it
    stirred     \* history: days with such an event, edited by others, or that got new
                \* slots while a proposal held the day

vars == <<event, teams, maker, plan, edits, crossed, late, stirred>>
ghosts == <<crossed, late, stirred>>

Init ==
    /\ \E given \in [Slots -> Teams \union {Null}] :
         event = [i \in Ids |-> IF i[1] \in MadeAtStart
                                THEN [Empty(i[2]) EXCEPT !.team = given[i[2]]] ELSE NoRow]
    /\ \A i, j \in Ids : i # j /\ event[i].team # Null /\ event[i].team = event[j].team
         => Day[event[i].at] # Day[event[j].at]
    /\ maker = [m \in Makers |-> IF m \in MadeAtStart THEN [NoMaker EXCEPT !.pc = "done"]
                                 ELSE NoMaker]
    /\ teams = Teams
    /\ plan = [p \in Plans |-> NoPlan]
    /\ edits = 0
    /\ crossed = {} /\ late = {} /\ stirred = {}

-----------------------------------------------------------------------------
Exists(i) == event[i] # NoRow
DayOf(at) == IF at \in Slots THEN Day[at] ELSE at
Occupied(at) == (\E i \in Ids : event[i].at = at) \/ (\E m \in Makers : at \in maker[m].missing)
Crossing(at) == IF Occupied(at) THEN {at} ELSE {}
Holds(p, i) == plan[p].pc \in {"teams", "held", "saving"} /\ plan[p].event[i] # NoRow

\* Others than `by' write an event.
Changes(i, by) ==
    LET holders == {p \in Plans \ by : Holds(p, i)} IN
      /\ late' = late \union {<<p, i>> : p \in holders}
      /\ stirred' = stirred \union
           (IF holders = {} THEN {} ELSE {DayOf(event[i].at), DayOf(event'[i].at)})

-----------------------------------------------------------------------------
(* Slots.                                                                  *)

\* Mutant: a slot that was closed is made again.
MissingActive == {s \in Slots : \A i \in Ids : event[i].at = s => ~event[i].isActive}

\* createMorningAndAfternoonSlot for every Saturday, without those for which slotExists.
Missing == {s \in Slots : \A i \in Ids : event[i].at # s}

GenerateSaturdaySlots(m) ==
    /\ maker[m].pc = "idle"
    /\ maker' = [maker EXCEPT ![m] = [pc |-> IF Missing = {} THEN "done" ELSE "save",
                                      missing |-> Missing]]
    /\ crossed' = crossed \union {s \in Missing : \E n \in Makers : s \in maker[n].missing}
    /\ UNCHANGED <<event, teams, plan, edits, late, stirred>>

\* One transaction for all of them.
SaveSlots(m) ==
    /\ maker[m].pc = "save"
    /\ event' = [i \in Ids |-> IF i[1] = m /\ i[2] \in maker[m].missing THEN Empty(i[2])
                               ELSE event[i]]
    /\ maker' = [maker EXCEPT ![m] = [NoMaker EXCEPT !.pc = "done"]]
    /\ stirred' = stirred \union {d \in {Day[s] : s \in maker[m].missing} :
                      \E p \in Plans, i \in Ids : Holds(p, i) /\ DayOf(plan[p].event[i].at) = d}
    /\ UNCHANGED <<teams, plan, edits, crossed, late>>

-----------------------------------------------------------------------------
(* The proposal.                                                           *)

\* Mutant: slots that have a team are planned again.
EmptySlotsAny == {i \in Ids : Exists(i) /\ event[i].isActive}

EmptySlots == {i \in Ids : Exists(i) /\ event[i].isActive /\ event[i].team = Null}

GetProposal(p) ==
    /\ plan[p].pc = "idle"
    /\ plan' = [plan EXCEPT ![p].pc = "teams",
                            ![p].event = [i \in Ids |-> IF i \in EmptySlots THEN event[i] ELSE NoRow]]
    /\ UNCHANGED <<event, teams, maker, edits, ghosts>>

\* Mutant: the events that the teams have are not loaded with them.
ProposalsBlind(events) ==
    {f \in [{i \in Ids : events[i] # NoRow} -> teams \union {Null}] :
       \A i, j \in DOMAIN f : i # j /\ f[i] = f[j] /\ f[i] # Null
          => DayOf(events[i].at) # DayOf(events[j].at)}

\* generateScheduleProposals, for the events read and the teams as they are now.
Proposals(events) ==
    {f \in [{i \in Ids : events[i] # NoRow} -> teams \union {Null}] :
       \A i \in DOMAIN f : f[i] # Null =>
         /\ \A j \in DOMAIN f : i # j /\ f[i] = f[j] => DayOf(events[i].at) # DayOf(events[j].at)
         /\ \A j \in Ids : event[j].team = f[i] => DayOf(events[i].at) # DayOf(event[j].at)}

GetTeams(p) ==
    /\ plan[p].pc = "teams"
    /\ \E f \in Proposals(plan[p].event) :
         plan' = [plan EXCEPT ![p].pc = "held",
                    ![p].event = [i \in Ids |-> IF i \in DOMAIN f THEN [@[i] EXCEPT !.team = f[i]]
                                                ELSE NoRow]]
    /\ UNCHANGED <<event, teams, maker, edits, ghosts>>

-----------------------------------------------------------------------------
(* Saving it.                                                              *)

\* forkJoin: all saves are under way; of nothing, it is over at once.
SaveSchedule(p) ==
    /\ plan[p].pc = "held"
    /\ plan' = [plan EXCEPT ![p].pc = IF \A i \in Ids : ~Holds(p, i) THEN "over" ELSE "saving",
                            ![p].answer = IF \A i \in Ids : ~Holds(p, i) THEN "created" ELSE "none",
                            ![p].task = [i \in Ids |-> IF Holds(p, i) THEN "load" ELSE "none"]]
    /\ UNCHANGED <<event, teams, maker, edits, ghosts>>

Unsaved(task) == {j \in Ids : task[j] \in {"load", "update", "insert"}}

\* Mutant: the first save that fails calls off the others.
FinishCancels(p, i, how) ==
    LET over == {i} \union (IF how = "failed" THEN Unsaved(plan[p].task) ELSE {})
        task == [j \in Ids |-> IF j \in over THEN how ELSE plan[p].task[j]]
    IN plan' = [plan EXCEPT ![p].task = task, ![p].cols[i] = {},
                            ![p].pc = IF Unsaved(task) = {} THEN "over" ELSE "saving",
                            ![p].answer = IF how = "failed" THEN "error"
                                          ELSE IF Unsaved(task) = {} THEN "created" ELSE "none"]

\* The save of one event is over.  The first that fails answers the request, and the
\* others stay under way; the last, if none has failed, answers it too.
Finish(p, i, how) ==
    LET task == [plan[p].task EXCEPT ![i] = how]
    IN plan' = [plan EXCEPT ![p].task = task, ![p].cols[i] = {},
                            ![p].pc = IF Unsaved(task) = {} THEN "over" ELSE "saving",
                            ![p].answer = IF how = "failed" \/ @ = "error" THEN "error"
                                          ELSE IF Unsaved(task) = {} THEN "created" ELSE "none"]

Diff(a, b) == {c \in Columns : a[c] # b[c]}

LoadEvent(p, i) ==
    /\ plan[p].task[i] = "load" /\ plan[p].pc = "saving"
    /\ LET diff == Diff(plan[p].event[i], event[i]) IN
         IF ~Exists(i) THEN plan' = [plan EXCEPT ![p].task[i] = "insert"]
         ELSE IF diff = {} THEN Finish(p, i, "done")
         ELSE plan' = [plan EXCEPT ![p].task[i] = "update", ![p].cols[i] = diff]
    /\ UNCHANGED <<event, teams, maker, edits, ghosts>>

Written(row, entity, cols) ==
    [at       |-> IF "at" \in cols THEN entity.at ELSE row.at,
     isActive |-> IF "isActive" \in cols THEN entity.isActive ELSE row.isActive,
     team     |-> IF "team" \in cols THEN entity.team ELSE row.team]

\* The foreign key refuses a team that was deleted.
Refused(p, i) == plan[p].event[i].team \notin teams \union {Null}

UpdateEvent(p, i) ==
    /\ plan[p].task[i] = "update" /\ plan[p].pc = "saving"
    /\ IF "team" \in plan[p].cols[i] /\ Refused(p, i)
       THEN Finish(p, i, "failed") /\ UNCHANGED <<event, crossed, late, stirred>>
       ELSE /\ event' = IF Exists(i)
                        THEN [event EXCEPT ![i] = Written(@, plan[p].event[i], plan[p].cols[i])]
                        ELSE event
            /\ Finish(p, i, "done")
            /\ crossed' = IF "at" \in plan[p].cols[i]
                          THEN crossed \union Crossing(plan[p].event[i].at) ELSE crossed
            /\ Changes(i, {p})
    /\ UNCHANGED <<teams, maker, edits>>

\* A row that is gone is inserted again, under its own id.
InsertEvent(p, i) ==
    /\ plan[p].task[i] = "insert" /\ plan[p].pc = "saving"
    /\ IF Refused(p, i) \/ Exists(i)
       THEN Finish(p, i, "failed") /\ UNCHANGED <<event, crossed, late, stirred>>
       ELSE /\ event' = [event EXCEPT ![i] = plan[p].event[i]]
            /\ Finish(p, i, "done")
            /\ crossed' = crossed \union Crossing(plan[p].event[i].at)
            /\ Changes(i, {p})
    /\ UNCHANGED <<teams, maker, edits>>

-----------------------------------------------------------------------------
(* Others: planners by the CRUD routes of events, administrators of teams. *)

\* An event gets another team, is closed or opened, is moved, or is deleted.
EditedBy(i) ==
    {[event[i] EXCEPT !.team = t] : t \in teams \union {Null}}
        \union {[event[i] EXCEPT !.isActive = ~@]}
        \union {[event[i] EXCEPT !.at = s] : s \in Starts}
        \union {NoRow}

EditEvent(i, row) ==
    /\ edits < MaxEdits
    /\ Exists(i) /\ row # event[i]
    /\ event' = [event EXCEPT ![i] = row]
    /\ edits' = edits + 1
    /\ crossed' = IF row # NoRow /\ row.at # event[i].at THEN crossed \union Crossing(row.at)
                  ELSE crossed
    /\ late' = late \union {<<p, i>> : p \in {q \in Plans : Holds(q, i)}}
    /\ stirred' = stirred \union {DayOf(event[i].at), DayOf(row.at)}
    /\ UNCHANGED <<teams, maker, plan>>

Addable == [at : Starts, isActive : BOOLEAN, team : teams \union {Null}]

\* An event is added by hand; a start may be taken already.
CreateEvent(row) ==
    /\ edits < MaxEdits
    /\ event' = [event EXCEPT ![<<edits + 1, row.at>>] = row]
    /\ edits' = edits + 1
    /\ crossed' = crossed \union Crossing(row.at)
    /\ stirred' = stirred \union {DayOf(row.at)}
    /\ UNCHANGED <<teams, maker, plan, late>>

\* ON DELETE SET NULL.  A database without any team is left out (bound).
DeleteTeam(t) ==
    /\ edits < MaxEdits
    /\ t \in teams /\ teams # {t}
    /\ teams' = teams \ {t}
    /\ event' = [i \in Ids |-> IF event[i].team = t THEN [event[i] EXCEPT !.team = Null] ELSE event[i]]
    /\ edits' = edits + 1
    /\ late' = late \union {x \in Plans \X Ids : Holds(x[1], x[2]) /\ event[x[2]].team = t}
    /\ stirred' = stirred \union {DayOf(event[i].at) : i \in {j \in Ids : event[j].team = t}}
    /\ UNCHANGED <<maker, plan, crossed>>

\* The process dies.  A proposal that the planner looks at is in the browser.
Crash ==
    /\ CrashAllowed
    /\ \/ \E m \in Makers : maker[m].pc = "save"
       \/ \E p \in Plans : plan[p].pc \in {"teams", "saving"}
    /\ maker' = [m \in Makers |-> IF maker[m].pc = "save" THEN [NoMaker EXCEPT !.pc = "lost"]
                                  ELSE maker[m]]
    /\ plan' = [p \in Plans |-> IF plan[p].pc \in {"teams", "saving"}
                                THEN [NoPlan EXCEPT !.pc = "lost"] ELSE plan[p]]
    /\ UNCHANGED <<event, teams, edits, ghosts>>

\* The routes, for planners.
SchedulerController ==
    \/ \E m \in Makers : GenerateSaturdaySlots(m)
    \/ \E p \in Plans : GetProposal(p) \/ SaveSchedule(p)

Next ==
    \/ SchedulerController
    \/ \E m \in Makers : SaveSlots(m)
    \/ \E p \in Plans : GetTeams(p)
    \/ \E p \in Plans, i \in Ids : LoadEvent(p, i) \/ UpdateEvent(p, i) \/ InsertEvent(p, i)
    \/ \E i \in Ids : \E row \in EditedBy(i) : EditEvent(i, row)
    \/ \E row \in Addable : CreateEvent(row)
    \/ \E t \in Teams : DeleteTeam(t)
    \/ Crash

Spec == Init /\ [][Next]_vars

-----------------------------------------------------------------------------
(* Properties.                                                             *)

\* Types of the tables, of the calls and of the history; an event's team exists.
TypeOK ==
    /\ event \in [Ids -> Row \union {NoRow}]
    /\ teams \subseteq Teams
    /\ \A i \in Ids : event[i].team \in teams \union {Null}
    /\ maker \in [Makers -> Maker]
    /\ plan \in [Plans -> Plan]
    /\ edits \in 0 .. MaxEdits
    /\ late \subseteq Plans \X Ids

\* A year's slot is there once, however often it is generated, closed or proposed:
\* twice only if a call made it, a planner added an event at it or moved one to it, or
\* a stale save brought a row back to it, at a time when it was there or another call
\* was making it.
SlotOnce ==
    \A i, j \in Ids : i # j /\ Exists(i) /\ event[i].at = event[j].at /\ event[i].at \in Slots
        => event[i].at \in crossed

\* No team has two events on a day, over all proposals that are saved, half saved or
\* crossing each other, but on a day that others edited, or that changed while a
\* planner held it.
OnceADayKept ==
    \A i, j \in Ids : i # j /\ event[i].team # Null /\ event[i].team = event[j].team
        => DayOf(event[i].at) # DayOf(event[j].at) \/ DayOf(event[i].at) \in stirred

Saved(p, i) == plan[p].task[i] \in {"update", "insert"} /\ plan'[p].task[i] = "done"

\* Saving a schedule gives teams to events that have none, and changes nothing else of
\* them, unless they changed while the planner held them.
SaveOnlyAssigns ==
    [][\A p \in Plans, i \in Ids : Saved(p, i) /\ <<p, i>> \notin late =>
          event[i].team = Null /\ event'[i] = [event[i] EXCEPT !.team = plan[p].event[i].team]]_vars

\* A save that fails fails for its own event, although it ends the request: when the
\* last save is over, perhaps long after the answer, every event is as it was saved,
\* but those that others changed meanwhile and those whose team is gone; and then the
\* planner was told of an error.
FailureIsLocal ==
    [][\A p \in Plans : plan[p].pc = "saving" /\ plan'[p].pc = "over" =>
          \A i \in Ids : plan[p].event[i] = NoRow \/ <<p, i>> \in late' \/ plan[p].event[i] = event'[i]
                         \/ /\ plan[p].event[i].team \notin teams \union {Null}
                            /\ plan'[p].answer = "error"]_vars
=============================================================================

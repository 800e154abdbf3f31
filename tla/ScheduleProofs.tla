---------------------------- MODULE ScheduleProofs ----------------------------
(***************************************************************************)
(* Proofs about Schedule: a slot is there once and a team has one event a  *)
(* day, whatever proposals are saved, half saved or crossing each other,   *)
(* and what a save changes.  The argument is about what a proposal holds:  *)
(* a day nobody stirred is held as it is in the table, all of its free     *)
(* slots or none of them.                                                  *)
(***************************************************************************)
EXTENDS Schedule, TLAPS

Open == {"load", "update", "insert"}

\* A save is only under way for an event that was read, while its proposal is saved.
HeldOnly ==
    \A p \in Plans, i \in Ids :
        /\ plan[p].task[i] \in Open => plan[p].pc = "saving"
        /\ plan[p].task[i] # "none" => plan[p].event[i] # NoRow
        /\ plan[p].pc \in {"idle", "teams", "held"} => plan[p].task[i] = "none"
        /\ plan[p].pc = "idle" => plan[p].event[i] = NoRow

\* What a call may still insert is in nobody's hands.
Unborn ==
    \A m \in Makers, s \in Slots : maker[m].pc \in {"idle", "save"} =>
        /\ event[<<m, s>>] = NoRow
        /\ \A p \in Plans : plan[p].event[<<m, s>>] = NoRow

\* What planners have still to add is not there either.
Unadded ==
    \A h \in Hands, s \in Starts : edits < h =>
        /\ event[<<h, s>>] = NoRow
        /\ \A p \in Plans : plan[p].event[<<h, s>>] = NoRow

TypeInv == TypeOK /\ HeldOnly /\ Unborn /\ Unadded

-----------------------------------------------------------------------------
(* Rows and proposals.                                                     *)

LEMMA RowFields ==
    /\ NoRow.at = Null /\ NoRow.team = Null /\ NoRow.isActive = FALSE
    /\ \A r \in Row \union {NoRow} : r.team \in Teams \union {Null}
                                     /\ r.at \in Slots \union {OffDay, Null}
                                     /\ r.isActive \in BOOLEAN
    /\ \A r \in Row : r # NoRow /\ r.at \in Slots \union {OffDay}
    /\ \A s \in Slots : Empty(s) \in Row /\ Empty(s).at = s /\ Empty(s).team = Null
                        /\ Empty(s).isActive = TRUE
<1>1. NoRow.at = Null /\ NoRow.team = Null /\ NoRow.isActive = FALSE
  BY DEF NoRow
<1>2. \A r \in Row : r.team \in Teams \union {Null} /\ r.at \in Slots \union {OffDay}
                     /\ r.isActive \in BOOLEAN
  BY DEF Row, Starts
<1>3. \A r \in Row : r # NoRow
  BY <1>1, <1>2, ScheduleNull
<1>4. \A s \in Slots : Empty(s) \in Row /\ Empty(s).at = s /\ Empty(s).team = Null
                        /\ Empty(s).isActive = TRUE
  BY DEF Empty, Row, Starts
<1>5. \A r \in Row \union {NoRow} : r.team \in Teams \union {Null}
                                     /\ r.at \in Slots \union {OffDay, Null}
                                     /\ r.isActive \in BOOLEAN
  <2>1. NoRow.team \in Teams \union {Null} /\ NoRow.at \in Slots \union {OffDay, Null}
    BY <1>1
  <2>2. NoRow.isActive \in BOOLEAN
    BY <1>1
  <2> QED  BY <1>2, <2>1, <2>2
<1> QED  BY <1>1, <1>2, <1>3, <1>4, <1>5

\* A row with another team, activity or start is the row in its other columns.
LEMMA RowExcept ==
    ASSUME NEW r \in Row
    PROVE  /\ \A t \in Teams \union {Null} : [r EXCEPT !.team = t] \in Row
           /\ \A s \in Slots \union {OffDay} : [r EXCEPT !.at = s] \in Row
           /\ [r EXCEPT !.isActive = ~@] \in Row
  BY DEF Row, Starts

\* A row is its three columns.
LEMMA RowsEqual ==
    ASSUME NEW r \in Row \union {NoRow}, NEW q \in Row \union {NoRow},
           r.at = q.at, r.team = q.team, r.isActive = q.isActive
    PROVE  r = q
<1>1. CASE r \in Row /\ q \in Row
  BY <1>1 DEF Row
<1>2. CASE r = NoRow
  BY <1>2, RowFields, ScheduleNull
<1>3. CASE q = NoRow
  BY <1>3, RowFields, ScheduleNull
<1> QED  BY <1>1, <1>2, <1>3

LEMMA PlanTyped ==
    ASSUME TypeOK, NEW p \in Plans
    PROVE  /\ plan[p] \in Plan
           /\ plan[p].event \in [Ids -> Row \union {NoRow}]
           /\ plan[p].task \in [Ids -> TaskPcs]
           /\ plan[p].cols \in [Ids -> SUBSET Columns]
           /\ plan[p].pc \in {"idle", "teams", "held", "saving", "over", "lost"}
<1>1. plan[p] \in Plan
  BY DEF TypeOK
<1> QED  BY <1>1 DEF Plan

LEMMA NoPlanTyped ==
    /\ NoPlan \in Plan /\ [NoPlan EXCEPT !.pc = "lost"] \in Plan
    /\ NoPlan.pc = "idle" /\ [NoPlan EXCEPT !.pc = "lost"].pc = "lost"
    /\ \A i \in Ids : /\ NoPlan.event[i] = NoRow /\ [NoPlan EXCEPT !.pc = "lost"].event[i] = NoRow
                      /\ NoPlan.task[i] = "none" /\ [NoPlan EXCEPT !.pc = "lost"].task[i] = "none"
  BY DEF NoPlan, Plan, TaskPcs

\* What the end of one event's save does to the proposals.
Ended(p, i, how) ==
    /\ plan' \in [Plans -> Plan]
    /\ \A q \in Plans \ {p} : plan'[q] = plan[q]
    /\ plan'[p].event = plan[p].event
    /\ \A j \in Ids : plan'[p].task[j] = IF j = i THEN how ELSE plan[p].task[j]
    /\ \A j \in Ids \ {i} : plan'[p].cols[j] = plan[p].cols[j]
    /\ \/ plan'[p].pc = "saving"
       \/ plan'[p].pc = "over" /\ \A j \in Ids : plan'[p].task[j] \notin Open
    /\ how = "failed" \/ plan[p].answer = "error" => plan'[p].answer = "error"

LEMMA FinishEnds ==
    ASSUME TypeOK, NEW p \in Plans, NEW i \in Ids, NEW how \in {"done", "failed"},
           plan[p].pc = "saving", Finish(p, i, how)
    PROVE  Ended(p, i, how)
<1> DEFINE task == [plan[p].task EXCEPT ![i] = how]
           cols == [plan[p].cols EXCEPT ![i] = {}]
           pc == IF Unsaved(task) = {} THEN "over" ELSE "saving"
           answer == IF how = "failed" \/ plan[p].answer = "error" THEN "error"
                     ELSE IF Unsaved(task) = {} THEN "created" ELSE "none"
           new == [plan[p] EXCEPT !.task = task, !.cols = cols, !.pc = pc, !.answer = answer]
<1>2. plan[p] \in Plan /\ plan[p].task \in [Ids -> TaskPcs]
        /\ plan[p].cols \in [Ids -> SUBSET Columns]
  BY PlanTyped
<1>7. plan \in [Plans -> Plan]
  BY DEF TypeOK
<1>1. plan' = [plan EXCEPT ![p] = new]
  BY <1>7 DEF Finish
<1>3. task \in [Ids -> TaskPcs] /\ \A j \in Ids : task[j] = IF j = i THEN how ELSE plan[p].task[j]
  BY <1>2 DEF TaskPcs
<1>4. cols \in [Ids -> SUBSET Columns] /\ \A j \in Ids \ {i} : cols[j] = plan[p].cols[j]
  BY <1>2
<1>5. /\ pc \in {"saving", "over"} /\ answer \in {"none", "created", "error"}
      /\ pc = "over" => \A j \in Ids : task[j] \notin Open
      /\ how = "failed" \/ plan[p].answer = "error" => answer = "error"
  BY DEF Open, Unsaved
<1> HIDE DEF task, cols, pc, answer
<1>6. /\ new \in Plan /\ new.event = plan[p].event /\ new.task = task /\ new.pc = pc
      /\ new.cols = cols /\ new.answer = answer
  BY <1>2, <1>3, <1>4, <1>5 DEF Plan
<1> HIDE DEF new
<1>8. plan'[p] = new /\ \A q \in Plans \ {p} : plan'[q] = plan[q]
  BY <1>1, <1>7
<1>9. plan' \in [Plans -> Plan]
  BY <1>1, <1>6, <1>7
<1> QED  BY <1>3, <1>4, <1>5, <1>6, <1>8, <1>9 DEF Ended

-----------------------------------------------------------------------------
(* What the steps do.                                                      *)

\* A step that leaves the proposals and the table alone, or inserts new slots.
MakerStep(m) ==
    \/ GenerateSaturdaySlots(m)
    \/ SaveSlots(m)

\* The write of a save: the row is there and gets the columns, or it is inserted.
Stores(p, i) ==
    /\ plan[p].pc = "saving" /\ plan[p].task[i] \in {"update", "insert"}
    /\ Ended(p, i, "done")
    /\ \/ /\ plan[p].task[i] = "update" /\ Exists(i)
          /\ event' = [event EXCEPT ![i] = Written(@, plan[p].event[i], plan[p].cols[i])]
          /\ "team" \in plan[p].cols[i] => plan[p].event[i].team \in teams \union {Null}
          /\ crossed' = IF "at" \in plan[p].cols[i]
                        THEN crossed \union Crossing(plan[p].event[i].at) ELSE crossed
       \/ /\ plan[p].task[i] = "insert" /\ ~Exists(i)
          /\ event' = [event EXCEPT ![i] = plan[p].event[i]]
          /\ plan[p].event[i].team \in teams \union {Null}
          /\ crossed' = crossed \union Crossing(plan[p].event[i].at)
    /\ Changes(i, {p})
    /\ UNCHANGED <<teams, maker, edits>>

\* The save of an event ends without a write: it failed, or there was nothing to do.
Passes(p, i) ==
    /\ plan[p].pc = "saving" /\ plan[p].task[i] \in Open
    /\ \/ /\ Ended(p, i, "failed") /\ plan[p].task[i] \in {"update", "insert"}
          /\ \/ plan[p].event[i].team \notin teams \union {Null}
             \/ plan[p].task[i] = "insert"
       \/ /\ Ended(p, i, "done") /\ plan[p].task[i] = "load"
          /\ Exists(i) /\ Diff(plan[p].event[i], event[i]) = {}
       \/ /\ Ended(p, i, "done") /\ plan[p].task[i] = "update" /\ ~Exists(i)
    /\ UNCHANGED <<event, teams, maker, edits>>
    /\ crossed \subseteq crossed'
    /\ late \subseteq late' /\ stirred \subseteq stirred' /\ late' \subseteq Plans \X Ids

\* The select of a save that has something to write.
Compares(p, i) ==
    /\ plan[p].pc = "saving" /\ plan[p].task[i] = "load"
    /\ plan' = [plan EXCEPT ![p].task[i] = plan'[p].task[i], ![p].cols[i] = plan'[p].cols[i]]
    /\ \/ ~Exists(i) /\ plan'[p].task[i] = "insert" /\ plan'[p].cols[i] = plan[p].cols[i]
       \/ /\ Exists(i) /\ plan'[p].task[i] = "update"
          /\ plan'[p].cols[i] = Diff(plan[p].event[i], event[i]) /\ plan'[p].cols[i] # {}
    /\ UNCHANGED <<event, teams, maker, edits, ghosts>>

LEMMA LoadStep ==
    ASSUME TypeInv, NEW p \in Plans, NEW i \in Ids, LoadEvent(p, i)
    PROVE  Compares(p, i) \/ Passes(p, i)
<1>1. /\ plan[p].task[i] = "load" /\ plan[p].pc = "saving" /\ TypeOK
      /\ UNCHANGED <<event, teams, maker, edits, ghosts>>
  BY DEF LoadEvent, TypeInv
<1>2. late \subseteq Plans \X Ids
  BY <1>1 DEF TypeOK
<1>t. plan \in [Plans -> Plan] /\ plan[p] \in Plan /\ plan[p].task \in [Ids -> TaskPcs]
        /\ plan[p].cols \in [Ids -> SUBSET Columns]
  BY <1>1, PlanTyped DEF TypeOK
<1>3. CASE ~Exists(i)
  <2>1. plan' = [plan EXCEPT ![p].task[i] = "insert"]
    BY <1>3 DEF LoadEvent
  <2>2. plan'[p].task[i] = "insert" /\ plan'[p].cols[i] = plan[p].cols[i]
    BY <2>1, <1>t DEF Plan
  <2>3. plan' = [plan EXCEPT ![p].task[i] = plan'[p].task[i], ![p].cols[i] = plan'[p].cols[i]]
    BY <2>1, <2>2, <1>t DEF Plan
  <2> QED  BY <1>1, <1>3, <2>2, <2>3 DEF Compares
<1>4. CASE Exists(i) /\ Diff(plan[p].event[i], event[i]) = {}
  <2>1. Finish(p, i, "done")
    BY <1>4 DEF LoadEvent
  <2>2. Ended(p, i, "done")
    BY <1>1, <2>1, FinishEnds
  <2> QED  BY <1>1, <1>2, <1>4, <2>2 DEF Passes, Open, ghosts
<1>5. CASE Exists(i) /\ Diff(plan[p].event[i], event[i]) # {}
  <2> DEFINE diff == Diff(plan[p].event[i], event[i])
  <2>1. plan' = [plan EXCEPT ![p].task[i] = "update", ![p].cols[i] = diff]
    BY <1>5 DEF LoadEvent
  <2> HIDE DEF diff
  <2>2. plan'[p].task[i] = "update" /\ plan'[p].cols[i] = diff
    BY <2>1, <1>t DEF Plan
  <2>3. plan' = [plan EXCEPT ![p].task[i] = plan'[p].task[i], ![p].cols[i] = plan'[p].cols[i]]
    BY <2>1, <2>2
  <2> QED  BY <1>1, <1>5, <2>2, <2>3 DEF Compares, diff
<1> QED  BY <1>3, <1>4, <1>5

LEMMA ChangesTyped ==
    ASSUME TypeOK, NEW i \in Ids, NEW by, Changes(i, by)
    PROVE  late \subseteq late' /\ stirred \subseteq stirred' /\ late' \subseteq Plans \X Ids
<1>1. late' = late \union {<<p, i>> : p \in {q \in Plans \ by : Holds(q, i)}}
  BY DEF Changes
<1>2. stirred \subseteq stirred'
  BY DEF Changes
<1> QED  BY <1>1, <1>2 DEF TypeOK

LEMMA UpdateStep ==
    ASSUME TypeInv, NEW p \in Plans, NEW i \in Ids, UpdateEvent(p, i)
    PROVE  Stores(p, i) \/ Passes(p, i)
<1>1. /\ plan[p].task[i] = "update" /\ plan[p].pc = "saving" /\ TypeOK
      /\ UNCHANGED <<teams, maker, edits>>
  BY DEF UpdateEvent, TypeInv
<1>2. late \subseteq Plans \X Ids
  BY <1>1 DEF TypeOK
<1>3. CASE "team" \in plan[p].cols[i] /\ Refused(p, i)
  <2>1. Finish(p, i, "failed") /\ UNCHANGED <<event, crossed, late, stirred>>
    BY <1>3 DEF UpdateEvent
  <2>2. Ended(p, i, "failed")
    BY <1>1, <2>1, FinishEnds
  <2> QED  BY <1>1, <1>2, <1>3, <2>1, <2>2 DEF Passes, Open, Refused
<1>4. CASE ~("team" \in plan[p].cols[i] /\ Refused(p, i))
  <2>1. /\ event' = IF Exists(i)
                    THEN [event EXCEPT ![i] = Written(@, plan[p].event[i], plan[p].cols[i])]
                    ELSE event
        /\ Finish(p, i, "done")
        /\ crossed' = IF "at" \in plan[p].cols[i]
                      THEN crossed \union Crossing(plan[p].event[i].at) ELSE crossed
        /\ Changes(i, {p})
    BY <1>4 DEF UpdateEvent
  <2>2. Ended(p, i, "done")
    BY <1>1, <2>1, FinishEnds
  <2>3. CASE Exists(i)
    BY <1>1, <1>4, <2>1, <2>2, <2>3 DEF Stores, Refused
  <2>4. CASE ~Exists(i)
    BY <1>1, <2>1, <2>2, <2>4, ChangesTyped DEF Passes, Open
  <2> QED  BY <2>3, <2>4
<1> QED  BY <1>3, <1>4

LEMMA InsertStep ==
    ASSUME TypeInv, NEW p \in Plans, NEW i \in Ids, InsertEvent(p, i)
    PROVE  Stores(p, i) \/ Passes(p, i)
<1>1. /\ plan[p].task[i] = "insert" /\ plan[p].pc = "saving" /\ TypeOK
      /\ UNCHANGED <<teams, maker, edits>>
  BY DEF InsertEvent, TypeInv
<1>2. late \subseteq Plans \X Ids
  BY <1>1 DEF TypeOK
<1>3. CASE Refused(p, i) \/ Exists(i)
  <2>1. Finish(p, i, "failed") /\ UNCHANGED <<event, crossed, late, stirred>>
    BY <1>3 DEF InsertEvent
  <2>2. Ended(p, i, "failed")
    BY <1>1, <2>1, FinishEnds
  <2> QED  BY <1>1, <1>2, <2>1, <2>2 DEF Passes, Open
<1>4. CASE ~(Refused(p, i) \/ Exists(i))
  <2>1. /\ event' = [event EXCEPT ![i] = plan[p].event[i]]
        /\ Finish(p, i, "done")
        /\ crossed' = crossed \union Crossing(plan[p].event[i].at)
        /\ Changes(i, {p})
    BY <1>4 DEF InsertEvent
  <2>2. Ended(p, i, "done")
    BY <1>1, <2>1, FinishEnds
  <2> QED  BY <1>1, <1>4, <2>1, <2>2 DEF Stores, Refused
<1> QED  BY <1>3, <1>4

\* Every step, with those of a save told apart by what they do.
Moves ==
    \/ \E m \in Makers : GenerateSaturdaySlots(m) \/ SaveSlots(m)
    \/ \E p \in Plans : GetProposal(p) \/ GetTeams(p) \/ SaveSchedule(p)
    \/ \E p \in Plans, i \in Ids : Compares(p, i) \/ Stores(p, i) \/ Passes(p, i)
    \/ \E i \in Ids : \E row \in EditedBy(i) : EditEvent(i, row)
    \/ \E row \in Addable : CreateEvent(row)
    \/ \E t \in Teams : DeleteTeam(t)
    \/ Crash
    \/ UNCHANGED vars

LEMMA Steps ==
    ASSUME TypeInv, [Next]_vars PROVE Moves
<1>1. CASE SchedulerController \/ (\E m \in Makers : SaveSlots(m)) \/ (\E p \in Plans : GetTeams(p))
  BY <1>1 DEF SchedulerController, Moves
<1>2. CASE \E p \in Plans, i \in Ids : LoadEvent(p, i) \/ UpdateEvent(p, i) \/ InsertEvent(p, i)
  <2>1. PICK p \in Plans, i \in Ids : LoadEvent(p, i) \/ UpdateEvent(p, i) \/ InsertEvent(p, i)
    BY <1>2
  <2>2. Compares(p, i) \/ Stores(p, i) \/ Passes(p, i)
    BY <2>1, LoadStep, UpdateStep, InsertStep
  <2> QED  BY <2>2 DEF Moves
<1>3. CASE \/ \E i \in Ids : \E row \in EditedBy(i) : EditEvent(i, row)
           \/ \E row \in Addable : CreateEvent(row)
           \/ \E t \in Teams : DeleteTeam(t)
           \/ Crash \/ UNCHANGED vars
  BY <1>3 DEF Moves
<1> QED  BY <1>1, <1>2, <1>3 DEF Next

\* The tables in their parts.
LEMMA EventTyped ==
    ASSUME TypeOK, NEW i \in Ids
    PROVE  /\ event \in [Ids -> Row \union {NoRow}] /\ event[i] \in Row \union {NoRow}
           /\ Exists(i) => event[i] \in Row
           /\ event[i].team \in teams \union {Null}
  BY DEF TypeOK, Exists

LEMMA HeldRow ==
    ASSUME TypeInv, NEW p \in Plans, NEW i \in Ids, plan[p].event[i] # NoRow
    PROVE  plan[p].event[i] \in Row
  BY PlanTyped DEF TypeInv

LEMMA WrittenTyped ==
    ASSUME NEW row \in Row, NEW entity \in Row, NEW cols
    PROVE  /\ Written(row, entity, cols) \in Row
           /\ Written(row, entity, cols).at \in {row.at, entity.at}
           /\ "at" \notin cols => Written(row, entity, cols).at = row.at
           /\ Written(row, entity, cols).team = IF "team" \in cols THEN entity.team ELSE row.team
           /\ Written(row, entity, cols).isActive =
                IF "isActive" \in cols THEN entity.isActive ELSE row.isActive
  BY DEF Written, Row

\* A write: the row that results, and that it was held by its writer.
LEMMA StoresRow ==
    ASSUME TypeInv, NEW p \in Plans, NEW i \in Ids, Stores(p, i)
    PROVE  /\ plan[p].event[i] \in Row /\ event'[i] \in Row /\ Holds(p, i)
           /\ event'[i].team \in teams \union {Null}
           /\ \A j \in Ids \ {i} : event'[j] = event[j]
           /\ event' \in [Ids -> Row \union {NoRow}]
           /\ event'[i].at \in {event[i].at, plan[p].event[i].at}
           /\ \/ event'[i].at = event[i].at \/ event'[i].at \in crossed'
              \/ ~Occupied(event'[i].at)
           /\ crossed \subseteq crossed'
<1>1. plan[p].event[i] \in Row
  <2>1. plan[p].event[i] # NoRow
    BY DEF TypeInv, HeldOnly, Stores
  <2> QED  BY <2>1, HeldRow
<1>2. Holds(p, i)
  BY <1>1, RowFields DEF Holds, Stores
<1>3. TypeOK /\ event \in [Ids -> Row \union {NoRow}] /\ event[i].team \in teams \union {Null}
  BY EventTyped DEF TypeInv
<1>4. CASE /\ plan[p].task[i] = "update" /\ Exists(i)
           /\ event' = [event EXCEPT ![i] = Written(@, plan[p].event[i], plan[p].cols[i])]
           /\ "team" \in plan[p].cols[i] => plan[p].event[i].team \in teams \union {Null}
           /\ crossed' = IF "at" \in plan[p].cols[i]
                         THEN crossed \union Crossing(plan[p].event[i].at) ELSE crossed
  <2>1. event[i] \in Row
    BY <1>3, <1>4, EventTyped
  <2>2. event'[i] = Written(event[i], plan[p].event[i], plan[p].cols[i])
        /\ \A j \in Ids \ {i} : event'[j] = event[j]
    BY <1>3, <1>4
  <2>3. event'[i] \in Row /\ event'[i].at \in {event[i].at, plan[p].event[i].at}
        /\ ("at" \notin plan[p].cols[i] => event'[i].at = event[i].at)
        /\ event'[i].team = (IF "team" \in plan[p].cols[i] THEN plan[p].event[i].team
                             ELSE event[i].team)
    BY <1>1, <2>1, <2>2, WrittenTyped
  <2>4. event' \in [Ids -> Row \union {NoRow}]
    BY <1>3, <1>4, <2>2, <2>3
  <2>5. plan[p].event[i].at \in Crossing(plan[p].event[i].at) \/ ~Occupied(plan[p].event[i].at)
    BY DEF Crossing
  <2>6. event'[i].at = event[i].at \/ event'[i].at \in crossed' \/ ~Occupied(event'[i].at)
    <3>1. CASE "at" \in plan[p].cols[i]
      BY <1>4, <2>3, <2>5, <3>1
    <3> QED  BY <2>3, <3>1
  <2> QED  BY <1>1, <1>2, <1>3, <1>4, <2>2, <2>3, <2>4, <2>6
<1>5. CASE /\ event' = [event EXCEPT ![i] = plan[p].event[i]]
           /\ plan[p].event[i].team \in teams \union {Null}
           /\ crossed' = crossed \union Crossing(plan[p].event[i].at)
  <2>1. event'[i] = plan[p].event[i]
    BY <1>3, <1>5
  <2>2. event'[i].at \in crossed' \/ ~Occupied(event'[i].at)
    BY <1>5, <2>1 DEF Crossing
  <2> QED  BY <1>1, <1>2, <1>3, <1>5, <2>1, <2>2
<1> QED  BY <1>4, <1>5 DEF Stores

\* An edit: the row that results.
LEMMA EditedRow ==
    ASSUME TypeInv, NEW i \in Ids, NEW row \in EditedBy(i), EditEvent(i, row)
    PROVE  /\ row \in Row \union {NoRow} /\ row.team \in teams \union {Null}
           /\ event' \in [Ids -> Row \union {NoRow}] /\ event'[i] = row
           /\ \A j \in Ids \ {i} : event'[j] = event[j]
           /\ event[i] \in Row
<1>1. TypeOK /\ event \in [Ids -> Row \union {NoRow}] /\ event[i] \in Row
        /\ event[i].team \in teams \union {Null} /\ teams \subseteq Teams
  BY EventTyped DEF TypeInv, EditEvent, TypeOK
<1>2. row \in Row \union {NoRow} /\ row.team \in teams \union {Null}
  <2>1. CASE \E t \in teams \union {Null} : row = [event[i] EXCEPT !.team = t]
    <3>1. PICK t \in teams \union {Null} : row = [event[i] EXCEPT !.team = t]
      BY <2>1
    <3>2. row.team = t
      BY <1>1, <3>1 DEF Row
    <3> QED  BY <1>1, <3>1, <3>2, RowExcept
  <2>2. CASE row = [event[i] EXCEPT !.isActive = ~@]
    <3>1. row.team = event[i].team
      BY <1>1, <2>2 DEF Row
    <3> QED  BY <1>1, <2>2, <3>1, RowExcept
  <2>3. CASE \E s \in Slots \union {OffDay} : row = [event[i] EXCEPT !.at = s]
    <3>1. PICK s \in Slots \union {OffDay} : row = [event[i] EXCEPT !.at = s]
      BY <2>3
    <3>2. row.team = event[i].team
      BY <1>1, <3>1 DEF Row
    <3> QED  BY <1>1, <3>1, <3>2, RowExcept
  <2>4. CASE row = NoRow
    BY <2>4, RowFields
  <2> QED  BY <2>1, <2>2, <2>3, <2>4 DEF EditedBy, Starts
<1>3. event' = [event EXCEPT ![i] = row]
  BY DEF EditEvent
<1> QED  BY <1>1, <1>2, <1>3

\* What is added by hand: a row nobody had, under an id nobody used.
Adds(row, i) ==
    /\ i \in Ids /\ row \in Row /\ row.team \in teams \union {Null} /\ row.at \in Starts
    /\ event[i] = NoRow /\ \A p \in Plans : plan[p].event[i] = NoRow
    /\ event' \in [Ids -> Row \union {NoRow}] /\ event'[i] = row
    /\ \A j \in Ids \ {i} : event'[j] = event[j]
    /\ i[1] = edits + 1 /\ edits + 1 \in Hands

LEMMA AddedRow ==
    ASSUME TypeInv, NEW row \in Addable, CreateEvent(row)
    PROVE  \E i \in Ids : Adds(row, i)
<1> DEFINE i == <<edits + 1, row.at>>
<1>1. TypeOK /\ event \in [Ids -> Row \union {NoRow}] /\ teams \subseteq Teams
        /\ edits \in 0 .. MaxEdits /\ edits < MaxEdits
  BY DEF TypeInv, TypeOK, CreateEvent
<1>2. edits + 1 \in Hands /\ edits < edits + 1
  BY <1>1, ScheduleBounds DEF Hands
<1>3. row.at \in Starts /\ row.team \in teams \union {Null} /\ row \in Row
  BY <1>1 DEF Addable, Row
<1>4. i \in Ids /\ i[1] = edits + 1
  BY <1>2, <1>3 DEF Ids
<1>5. event[i] = NoRow /\ \A p \in Plans : plan[p].event[i] = NoRow
  BY <1>2, <1>3 DEF TypeInv, Unadded
<1>6. event' = [event EXCEPT ![i] = row]
  BY DEF CreateEvent
<1> HIDE DEF i
<1> QED  BY <1>1, <1>2, <1>3, <1>4, <1>5, <1>6 DEF Adds

\* A deleted team: its events have none, the others are as they were.
LEMMA DeletedRows ==
    ASSUME TypeInv, NEW t \in Teams, DeleteTeam(t)
    PROVE  /\ event' \in [Ids -> Row \union {NoRow}] /\ teams' \subseteq teams
           /\ \A i \in Ids : /\ event'[i].team \in teams' \union {Null}
                             /\ event[i].team # t => event'[i] = event[i]
                             /\ event[i].team = t => /\ event[i] \in Row /\ event'[i] \in Row
                                                     /\ event'[i] = [event[i] EXCEPT !.team = Null]
                                                     /\ event'[i].team = Null
                             /\ event'[i].at = event[i].at
                             /\ event'[i] = NoRow <=> event[i] = NoRow
<1>1. TypeOK /\ event \in [Ids -> Row \union {NoRow}] /\ teams' = teams \ {t}
        /\ event' = [i \in Ids |-> IF event[i].team = t THEN [event[i] EXCEPT !.team = Null]
                                   ELSE event[i]]
  BY DEF TypeInv, DeleteTeam, TypeOK
<1>2. ASSUME NEW i \in Ids
      PROVE  /\ event'[i] \in Row \union {NoRow}
             /\ event'[i].team \in teams' \union {Null}
             /\ event[i].team # t => event'[i] = event[i]
             /\ event[i].team = t => /\ event[i] \in Row /\ event'[i] \in Row
                                     /\ event'[i] = [event[i] EXCEPT !.team = Null]
                                     /\ event'[i].team = Null
             /\ event'[i].at = event[i].at
             /\ event'[i] = NoRow <=> event[i] = NoRow
  <2>1. event[i] \in Row \union {NoRow} /\ event[i].team \in teams \union {Null}
    BY <1>1, EventTyped
  <2>2. CASE event[i].team = t
    <3>1. event[i] \in Row
      BY <2>1, <2>2, RowFields, ScheduleNull
    <3>2. event'[i] = [event[i] EXCEPT !.team = Null]
      BY <1>1, <2>2
    <3>3. event'[i] \in Row /\ event'[i].team = Null /\ event'[i].at = event[i].at
      BY <3>1, <3>2 DEF Row
    <3> QED  BY <2>2, <3>1, <3>2, <3>3, RowFields
  <2>3. CASE event[i].team # t
    BY <1>1, <2>1, <2>3
  <2> QED  BY <2>2, <2>3
<1>3. event' \in [Ids -> Row \union {NoRow}]
  BY <1>1, <1>2
<1> QED  BY <1>1, <1>2, <1>3

\* New slots: rows nobody had, the others are as they were.
LEMMA SlotRows ==
    ASSUME TypeInv, NEW m \in Makers, SaveSlots(m)
    PROVE  /\ event' \in [Ids -> Row \union {NoRow}]
           /\ \A i \in Ids :
                \/ event'[i] = event[i]
                \/ /\ i[1] = m /\ i[2] \in maker[m].missing /\ i = <<m, i[2]>>
                   /\ event'[i] = Empty(i[2]) /\ event'[i] \in Row
                   /\ event[i] = NoRow /\ \A p \in Plans : plan[p].event[i] = NoRow
           /\ maker[m].missing \subseteq Slots
<1>1. TypeOK /\ event \in [Ids -> Row \union {NoRow}] /\ maker[m].missing \subseteq Slots
        /\ maker[m].pc = "save"
        /\ event' = [i \in Ids |-> IF i[1] = m /\ i[2] \in maker[m].missing THEN Empty(i[2])
                                   ELSE event[i]]
  BY DEF TypeInv, SaveSlots, TypeOK, Maker
<1>2. ASSUME NEW i \in Ids
      PROVE  /\ event'[i] \in Row \union {NoRow}
             /\ \/ event'[i] = event[i]
                \/ /\ i[1] = m /\ i[2] \in maker[m].missing /\ i = <<m, i[2]>>
                   /\ event'[i] = Empty(i[2]) /\ event'[i] \in Row
                   /\ event[i] = NoRow /\ \A p \in Plans : plan[p].event[i] = NoRow
  <2>1. CASE i[1] = m /\ i[2] \in maker[m].missing
    <3>1. i = <<m, i[2]>> /\ i[2] \in Slots
      BY <1>1, <2>1, ScheduleHands DEF Ids
    <3>2. event'[i] = Empty(i[2])
      BY <1>1, <2>1
    <3>3. event[<<m, i[2]>>] = NoRow /\ \A p \in Plans : plan[p].event[<<m, i[2]>>] = NoRow
      BY <1>1, <3>1 DEF TypeInv, Unborn
    <3> QED  BY <2>1, <3>1, <3>2, <3>3, RowFields
  <2>2. CASE ~(i[1] = m /\ i[2] \in maker[m].missing)
    BY <1>1, <2>2
  <2> QED  BY <2>1, <2>2
<1>3. event' \in [Ids -> Row \union {NoRow}]
  BY <1>1, <1>2
<1> QED  BY <1>1, <1>2, <1>3

\* What each step does to the proposals.
LEMMA ReadPlan ==
    ASSUME TypeInv, NEW p \in Plans, GetProposal(p)
    PROVE  /\ plan' \in [Plans -> Plan] /\ \A q \in Plans \ {p} : plan'[q] = plan[q]
           /\ plan[p].pc = "idle" /\ plan'[p].pc = "teams"
           /\ \A i \in Ids : /\ plan'[p].event[i] = IF i \in EmptySlots THEN event[i] ELSE NoRow
                             /\ plan'[p].task[i] = "none"
<1>1. plan \in [Plans -> Plan] /\ plan[p] \in Plan /\ plan[p].pc = "idle"
        /\ \A i \in Ids : event[i] \in Row \union {NoRow} /\ plan[p].task[i] = "none"
  BY PlanTyped, EventTyped DEF TypeInv, TypeOK, HeldOnly, GetProposal
<1> DEFINE read == [i \in Ids |-> IF i \in EmptySlots THEN event[i] ELSE NoRow]
<1>2. read \in [Ids -> Row \union {NoRow}]
        /\ \A i \in Ids : read[i] = IF i \in EmptySlots THEN event[i] ELSE NoRow
  BY <1>1
<1>3. plan' = [plan EXCEPT ![p].pc = "teams", ![p].event = read]
  BY DEF GetProposal
<1> HIDE DEF read
<1>4. plan'[p] = [plan[p] EXCEPT !.pc = "teams", !.event = read]
  BY <1>1, <1>3
<1>5. plan'[p] \in Plan /\ plan'[p].pc = "teams" /\ plan'[p].event = read
        /\ plan'[p].task = plan[p].task
  BY <1>1, <1>2, <1>4 DEF Plan
<1> QED  BY <1>1, <1>2, <1>3, <1>5

LEMMA TeamsPlan ==
    ASSUME TypeInv, NEW p \in Plans, GetTeams(p)
    PROVE  /\ plan' \in [Plans -> Plan] /\ \A q \in Plans \ {p} : plan'[q] = plan[q]
           /\ plan[p].pc = "teams" /\ plan'[p].pc = "held" /\ plan'[p].task = plan[p].task
           /\ \E f \in Proposals(plan[p].event) :
                /\ DOMAIN f = {i \in Ids : plan[p].event[i] # NoRow}
                /\ \A i \in Ids :
                     \/ plan[p].event[i] = NoRow /\ plan'[p].event[i] = NoRow
                     \/ /\ i \in DOMAIN f /\ f[i] \in teams \union {Null}
                        /\ plan[p].event[i] \in Row /\ plan'[p].event[i] \in Row
                        /\ plan'[p].event[i] = [plan[p].event[i] EXCEPT !.team = f[i]]
                        /\ plan'[p].event[i].team = f[i]
                        /\ plan'[p].event[i].at = plan[p].event[i].at
                        /\ plan'[p].event[i].isActive = plan[p].event[i].isActive
<1>1. plan \in [Plans -> Plan] /\ plan[p] \in Plan /\ plan[p].pc = "teams"
        /\ plan[p].event \in [Ids -> Row \union {NoRow}] /\ teams \subseteq Teams
  BY PlanTyped DEF TypeInv, TypeOK, GetTeams
<1>2. PICK f \in Proposals(plan[p].event) :
         plan' = [plan EXCEPT ![p].pc = "held",
                    ![p].event = [i \in Ids |-> IF i \in DOMAIN f THEN [@[i] EXCEPT !.team = f[i]]
                                                ELSE NoRow]]
  BY DEF GetTeams
<1> DEFINE given == [i \in Ids |-> IF i \in DOMAIN f
                                   THEN [plan[p].event[i] EXCEPT !.team = f[i]] ELSE NoRow]
<1>3. f \in [{i \in Ids : plan[p].event[i] # NoRow} -> teams \union {Null}]
  BY <1>2 DEF Proposals
<1>4. ASSUME NEW i \in Ids
      PROVE  /\ given[i] \in Row \union {NoRow}
             /\ \/ plan[p].event[i] = NoRow /\ given[i] = NoRow
                \/ /\ i \in DOMAIN f /\ f[i] \in teams \union {Null}
                   /\ plan[p].event[i] \in Row /\ given[i] \in Row
                   /\ given[i] = [plan[p].event[i] EXCEPT !.team = f[i]]
                   /\ given[i].team = f[i]
                   /\ given[i].at = plan[p].event[i].at
                   /\ given[i].isActive = plan[p].event[i].isActive
  <2>1. CASE plan[p].event[i] = NoRow
    <3>1. i \notin DOMAIN f
      BY <1>3, <2>1
    <3> QED  BY <2>1, <3>1
  <2>2. CASE plan[p].event[i] # NoRow
    <3>1. i \in DOMAIN f /\ f[i] \in teams \union {Null} /\ plan[p].event[i] \in Row
      BY <1>1, <1>3, <2>2
    <3>2. given[i] = [plan[p].event[i] EXCEPT !.team = f[i]]
      BY <3>1
    <3>3. given[i] \in Row /\ given[i].team = f[i] /\ given[i].at = plan[p].event[i].at
            /\ given[i].isActive = plan[p].event[i].isActive
      BY <1>1, <3>1, <3>2 DEF Row
    <3> QED  BY <3>1, <3>2, <3>3
  <2> QED  BY <2>1, <2>2
<1>5. given \in [Ids -> Row \union {NoRow}]
  BY <1>4
<1>6. plan' = [plan EXCEPT ![p] = [plan[p] EXCEPT !.pc = "held", !.event = given]]
  BY <1>1, <1>2
<1> HIDE DEF given
<1>7. plan'[p] = [plan[p] EXCEPT !.pc = "held", !.event = given]
  BY <1>1, <1>6
<1>8. plan'[p] \in Plan /\ plan'[p].pc = "held" /\ plan'[p].event = given
        /\ plan'[p].task = plan[p].task
  BY <1>1, <1>5, <1>7 DEF Plan
<1>9. plan' \in [Plans -> Plan] /\ \A q \in Plans \ {p} : plan'[q] = plan[q]
  BY <1>1, <1>6, <1>8
<1> QED  BY <1>1, <1>2, <1>3, <1>4, <1>8, <1>9

LEMMA SavePlan ==
    ASSUME TypeInv, NEW p \in Plans, SaveSchedule(p)
    PROVE  /\ plan' \in [Plans -> Plan] /\ \A q \in Plans \ {p} : plan'[q] = plan[q]
           /\ plan[p].pc = "held" /\ plan'[p].event = plan[p].event
           /\ \A i \in Ids : plan'[p].task[i] = IF Holds(p, i) THEN "load" ELSE "none"
           /\ \/ plan'[p].pc = "saving"
              \/ plan'[p].pc = "over" /\ \A i \in Ids : plan'[p].task[i] = "none"
<1> DEFINE task == [i \in Ids |-> IF Holds(p, i) THEN "load" ELSE "none"]
           pc == IF \A i \in Ids : ~Holds(p, i) THEN "over" ELSE "saving"
           answer == IF \A i \in Ids : ~Holds(p, i) THEN "created" ELSE "none"
<1>1. plan \in [Plans -> Plan] /\ plan[p] \in Plan /\ plan[p].pc = "held"
  BY PlanTyped DEF TypeInv, TypeOK, SaveSchedule
<1>2. task \in [Ids -> TaskPcs]
        /\ \A i \in Ids : task[i] = IF Holds(p, i) THEN "load" ELSE "none"
  BY DEF TaskPcs
<1>3. /\ pc = "saving" \/ (pc = "over" /\ \A i \in Ids : task[i] = "none")
      /\ answer \in {"none", "created", "error"}
  BY <1>2
<1>4. plan' = [plan EXCEPT ![p].pc = pc, ![p].answer = answer, ![p].task = task]
  BY DEF SaveSchedule
<1> HIDE DEF task, pc, answer
<1>5. plan'[p] = [plan[p] EXCEPT !.pc = pc, !.answer = answer, !.task = task]
  BY <1>1, <1>4
<1>6. plan'[p] \in Plan /\ plan'[p].pc = pc /\ plan'[p].event = plan[p].event
        /\ plan'[p].task = task
  BY <1>1, <1>2, <1>3, <1>5 DEF Plan
<1> QED  BY <1>1, <1>2, <1>3, <1>4, <1>6

LEMMA ComparedPlan ==
    ASSUME TypeInv, NEW p \in Plans, NEW i \in Ids, Compares(p, i)
    PROVE  /\ plan' \in [Plans -> Plan] /\ \A q \in Plans \ {p} : plan'[q] = plan[q]
           /\ plan[p].pc = "saving" /\ plan'[p].pc = "saving" /\ plan'[p].event = plan[p].event
           /\ plan'[p].answer = plan[p].answer
           /\ \A j \in Ids \ {i} : /\ plan'[p].task[j] = plan[p].task[j]
                                   /\ plan'[p].cols[j] = plan[p].cols[j]
           /\ plan[p].task[i] = "load" /\ plan'[p].task[i] \in {"update", "insert"}
<1> DEFINE task == [plan[p].task EXCEPT ![i] = plan'[p].task[i]]
           cols == [plan[p].cols EXCEPT ![i] = plan'[p].cols[i]]
<1>1. plan \in [Plans -> Plan] /\ plan[p] \in Plan /\ plan[p].pc = "saving"
        /\ plan[p].task \in [Ids -> TaskPcs] /\ plan[p].cols \in [Ids -> SUBSET Columns]
        /\ plan[p].task[i] = "load"
  BY PlanTyped DEF TypeInv, TypeOK, Compares
<1>2. plan'[p].task[i] \in {"update", "insert"} /\ plan'[p].cols[i] \in SUBSET Columns
  BY <1>1 DEF Compares, Diff
<1>3. plan' = [plan EXCEPT ![p] = [plan[p] EXCEPT !.task = task, !.cols = cols]]
  <2>1. plan' = [plan EXCEPT ![p].task[i] = plan'[p].task[i], ![p].cols[i] = plan'[p].cols[i]]
    BY DEF Compares
  <2>2. [plan EXCEPT ![p].task[i] = plan'[p].task[i]]
           = [plan EXCEPT ![p] = [plan[p] EXCEPT !.task = task]]
    BY <1>1
  <2> DEFINE half == [plan EXCEPT ![p] = [plan[p] EXCEPT !.task = task]]
             mid == [plan[p] EXCEPT !.task = task]
  <2>3. plan' = [half EXCEPT ![p].cols[i] = plan'[p].cols[i]]
    BY <2>1, <2>2
  <2>4. half[p] = mid /\ mid.cols = plan[p].cols
    BY <1>1
  <2> QED  BY <1>1, <2>3, <2>4
<1>4. task \in [Ids -> TaskPcs] /\ cols \in [Ids -> SUBSET Columns]
        /\ \A j \in Ids \ {i} : task[j] = plan[p].task[j] /\ cols[j] = plan[p].cols[j]
  BY <1>1, <1>2 DEF TaskPcs
<1> HIDE DEF task, cols
<1>5. plan'[p] = [plan[p] EXCEPT !.task = task, !.cols = cols]
  BY <1>1, <1>3
<1>6. plan'[p] \in Plan /\ plan'[p].pc = "saving" /\ plan'[p].event = plan[p].event
        /\ plan'[p].task = task /\ plan'[p].cols = cols /\ plan'[p].answer = plan[p].answer
  BY <1>1, <1>4, <1>5 DEF Plan
<1>7. plan' \in [Plans -> Plan] /\ \A q \in Plans \ {p} : plan'[q] = plan[q]
  <2> DEFINE new == [plan[p] EXCEPT !.task = task, !.cols = cols]
  <2>1. plan' = [plan EXCEPT ![p] = new] /\ new \in Plan
    BY <1>3, <1>5, <1>6
  <2> HIDE DEF new
  <2> QED  BY <1>1, <2>1
<1> QED  BY <1>1, <1>2, <1>4, <1>6, <1>7

LEMMA CrashPlan ==
    ASSUME TypeInv, Crash
    PROVE  /\ plan' \in [Plans -> Plan]
           /\ \A p \in Plans :
                \/ plan'[p] = plan[p]
                \/ /\ plan'[p].pc = "lost"
                   /\ \A i \in Ids : plan'[p].event[i] = NoRow /\ plan'[p].task[i] = "none"
<1>1. plan \in [Plans -> Plan]
  BY DEF TypeInv, TypeOK
<1>2. plan' = [p \in Plans |-> IF plan[p].pc \in {"teams", "saving"}
                               THEN [NoPlan EXCEPT !.pc = "lost"] ELSE plan[p]]
  BY DEF Crash
<1> QED  BY <1>1, <1>2, NoPlanTyped

\* What is held stays as it is held: only a proposal's own calls change it.
HeldAsBefore(p) ==
    /\ plan'[p].event = plan[p].event
    /\ plan'[p].task = plan[p].task
    /\ plan'[p].cols = plan[p].cols
    /\ plan'[p].pc = plan[p].pc

-----------------------------------------------------------------------------
(* Types.                                                                  *)

LEMMA InitType == Init => TypeInv
<1> SUFFICES ASSUME Init PROVE TypeInv
  OBVIOUS
<1>1. PICK given \in [Slots -> Teams \union {Null}] :
         event = [i \in Ids |-> IF i[1] \in MadeAtStart
                                THEN [Empty(i[2]) EXCEPT !.team = given[i[2]]] ELSE NoRow]
  BY DEF Init
<1>2. ASSUME NEW i \in Ids
      PROVE  /\ event[i] \in Row \union {NoRow} /\ event[i].team \in Teams \union {Null}
             /\ i[1] \notin MadeAtStart => event[i] = NoRow
  <2>1. CASE i[1] \in MadeAtStart
    <3>1. event[i] = [Empty(i[2]) EXCEPT !.team = given[i[2]]] /\ i[2] \in Slots
      BY <1>1, <2>1, ScheduleHands, ScheduleBounds DEF Ids
    <3>2. Empty(i[2]) \in Row /\ given[i[2]] \in Teams \union {Null}
      BY <3>1, RowFields
    <3>3. [Empty(i[2]) EXCEPT !.team = given[i[2]]] \in Row
      BY <3>2, RowExcept
    <3>4. event[i] \in Row
      BY <3>1, <3>3
    <3> QED  BY <2>1, <3>4, RowFields
  <2>2. CASE i[1] \notin MadeAtStart
    BY <1>1, <2>2, RowFields
  <2> QED  BY <2>1, <2>2
<1>3. event \in [Ids -> Row \union {NoRow}]
  BY <1>1, <1>2
<1>4. maker \in [Makers -> Maker]
        /\ \A m \in Makers : m \in MadeAtStart => maker[m].pc = "done"
  <2>1. NoMaker \in Maker /\ [NoMaker EXCEPT !.pc = "done"] \in Maker
          /\ [NoMaker EXCEPT !.pc = "done"].pc = "done"
    BY DEF NoMaker, Maker
  <2> QED  BY <2>1 DEF Init
<1>5. plan = [p \in Plans |-> NoPlan] /\ plan \in [Plans -> Plan]
  BY NoPlanTyped DEF Init
<1>6. TypeOK
  <2>1. teams = Teams /\ edits \in 0 .. MaxEdits /\ late \subseteq Plans \X Ids
    BY ScheduleBounds DEF Init
  <2>2. \A i \in Ids : event[i].team \in teams \union {Null}
    BY <1>2, <2>1
  <2> QED  BY <1>3, <1>4, <1>5, <2>1, <2>2 DEF TypeOK
<1>7. HeldOnly
  BY <1>5, NoPlanTyped DEF HeldOnly, Open
<1>8. Unborn
  <2> SUFFICES ASSUME NEW m \in Makers, NEW s \in Slots, maker[m].pc \in {"idle", "save"}
               PROVE  /\ event[<<m, s>>] = NoRow
                      /\ \A p \in Plans : plan[p].event[<<m, s>>] = NoRow
    BY DEF Unborn
  <2>1. m \notin MadeAtStart /\ <<m, s>> \in Ids /\ <<m, s>>[1] = m
    BY <1>4 DEF Ids
  <2> QED  BY <1>2, <1>5, <2>1, NoPlanTyped
<1>9. Unadded
  <2> SUFFICES ASSUME NEW h \in Hands, NEW s \in Starts
               PROVE  /\ event[<<h, s>>] = NoRow
                      /\ \A p \in Plans : plan[p].event[<<h, s>>] = NoRow
    BY DEF Unadded
  <2>1. <<h, s>> \in Ids /\ <<h, s>>[1] \notin MadeAtStart
    BY ScheduleHands, ScheduleBounds DEF Ids
  <2> QED  BY <1>2, <1>5, <2>1, NoPlanTyped
<1> QED  BY <1>6, <1>7, <1>8, <1>9 DEF TypeInv

LEMMA NextTyped == TypeInv /\ [Next]_vars => (TypeOK /\ HeldOnly /\ Unborn)'
<1> SUFFICES ASSUME TypeInv, [Next]_vars PROVE TypeOK' /\ HeldOnly' /\ Unborn'
  OBVIOUS
<1>t. TypeOK /\ teams \subseteq Teams /\ late \subseteq Plans \X Ids /\ edits \in 0 .. MaxEdits
        /\ event \in [Ids -> Row \union {NoRow}] /\ maker \in [Makers -> Maker]
        /\ \A i \in Ids : event[i].team \in teams \union {Null}
  BY DEF TypeInv, TypeOK
<1>h. ASSUME plan' \in [Plans -> Plan], NEW p \in Plans,
             \A q \in Plans \ {p} : plan'[q] = plan[q],
             \A i \in Ids :
                /\ plan'[p].task[i] \in Open => plan'[p].pc = "saving"
                /\ plan'[p].task[i] # "none" => plan'[p].event[i] # NoRow
                /\ plan'[p].pc \in {"idle", "teams", "held"} => plan'[p].task[i] = "none"
                /\ plan'[p].pc = "idle" => plan'[p].event[i] = NoRow
      PROVE  HeldOnly'
  BY <1>h DEF TypeInv, HeldOnly
<1>u. ASSUME \A m \in Makers : maker'[m].pc \in {"idle", "save"} => maker[m].pc \in {"idle", "save"},
             \A m \in Makers, s \in Slots : maker'[m].pc \in {"idle", "save"} =>
                /\ event[<<m, s>>] = NoRow => event'[<<m, s>>] = NoRow
                /\ \A p \in Plans : plan[p].event[<<m, s>>] = NoRow /\ event[<<m, s>>] = NoRow =>
                      plan'[p].event[<<m, s>>] = NoRow
      PROVE  Unborn'
  BY <1>u DEF TypeInv, Unborn
<1>i. \A m \in Makers, s \in Slots : <<m, s>> \in Ids
  BY DEF Ids
<1>1. CASE \E m \in Makers : GenerateSaturdaySlots(m)
  <2>1. PICK m \in Makers : GenerateSaturdaySlots(m)
    BY <1>1
  <2>2. maker' \in [Makers -> Maker] /\ maker[m].pc = "idle"
          /\ \A n \in Makers \ {m} : maker'[n] = maker[n]
    <3>1. [pc |-> IF Missing = {} THEN "done" ELSE "save", missing |-> Missing] \in Maker
      BY DEF Missing, Maker
    <3> QED  BY <1>t, <2>1, <3>1 DEF GenerateSaturdaySlots
  <2>3. TypeOK'
    BY <1>t, <2>1, <2>2 DEF GenerateSaturdaySlots, TypeOK
  <2>4. HeldOnly'
    BY <2>1 DEF GenerateSaturdaySlots, TypeInv, HeldOnly
  <2>5. Unborn'
    BY <1>u, <2>1, <2>2 DEF GenerateSaturdaySlots
  <2> QED  BY <2>3, <2>4, <2>5
<1>2. CASE \E m \in Makers : SaveSlots(m)
  <2>1. PICK m \in Makers : SaveSlots(m)
    BY <1>2
  <2>2. maker' \in [Makers -> Maker] /\ maker'[m].pc = "done"
          /\ \A n \in Makers \ {m} : maker'[n] = maker[n]
    <3>1. [NoMaker EXCEPT !.pc = "done"] \in Maker /\ [NoMaker EXCEPT !.pc = "done"].pc = "done"
      BY DEF NoMaker, Maker
    <3> QED  BY <1>t, <2>1, <3>1 DEF SaveSlots
  <2>3. \A i \in Ids : event'[i].team \in teams' \union {Null}
    <3> SUFFICES ASSUME NEW i \in Ids PROVE event'[i].team \in teams \union {Null}
      BY <2>1 DEF SaveSlots
    <3>1. event'[i] = event[i] \/ (event'[i] = Empty(i[2]) /\ i[2] \in Slots)
      BY <2>1, SlotRows DEF Ids
    <3> QED  BY <1>t, <3>1, RowFields
  <2>4. TypeOK'
    BY <1>t, <2>1, <2>2, <2>3, SlotRows DEF SaveSlots, TypeOK
  <2>5. HeldOnly'
    BY <2>1 DEF SaveSlots, TypeInv, HeldOnly
  <2>6. \A n \in Makers \ {m}, s \in Slots : event'[<<n, s>>] = event[<<n, s>>]
    <3> SUFFICES ASSUME NEW n \in Makers \ {m}, NEW s \in Slots
                 PROVE  event'[<<n, s>>] = event[<<n, s>>]
      OBVIOUS
    <3>1. <<n, s>> \in Ids /\ <<n, s>>[1] # m
      BY <1>i
    <3> QED  BY <2>1, <3>1, SlotRows
  <2>7. plan' = plan
    BY <2>1 DEF SaveSlots
  <2>8. Unborn'
    <3>1. \A n \in Makers : maker'[n].pc \in {"idle", "save"} =>
             n # m /\ maker[n].pc \in {"idle", "save"}
      BY <2>2
    <3> QED  BY <2>6, <2>7, <3>1, <1>u
  <2> QED  BY <2>4, <2>5, <2>8
<1>3. CASE \E p \in Plans : GetProposal(p)
  <2>1. PICK p \in Plans : GetProposal(p)
    BY <1>3
  <2>2. UNCHANGED <<event, teams, maker, edits, late>>
    BY <2>1 DEF GetProposal, ghosts
  <2>3. TypeOK'
    BY <1>t, <2>1, <2>2, ReadPlan DEF TypeOK
  <2>4. HeldOnly'
    BY <1>h, <2>1, ReadPlan DEF Open
  <2>5. \A i \in Ids, q \in Plans : plan[q].event[i] = NoRow /\ event[i] = NoRow =>
           plan'[q].event[i] = NoRow
    BY <2>1, ReadPlan
  <2>6. Unborn'
    BY <1>u, <1>i, <2>2, <2>5
  <2> QED  BY <2>3, <2>4, <2>6
<1>4. CASE \E p \in Plans : GetTeams(p)
  <2>1. PICK p \in Plans : GetTeams(p)
    BY <1>4
  <2>2. UNCHANGED <<event, teams, maker, edits, late>>
    BY <2>1 DEF GetTeams, ghosts
  <2>3. TypeOK'
    BY <1>t, <2>1, <2>2, TeamsPlan DEF TypeOK
  <2>4. \A i \in Ids : plan[p].task[i] = "none"
    BY <2>1, TeamsPlan DEF TypeInv, HeldOnly
  <2>5. HeldOnly'
    BY <1>h, <2>1, <2>4, TeamsPlan DEF Open
  <2>6. \A i \in Ids, q \in Plans : plan[q].event[i] = NoRow => plan'[q].event[i] = NoRow
    BY <2>1, TeamsPlan, RowFields
  <2>7. Unborn'
    BY <1>u, <1>i, <2>2, <2>6
  <2> QED  BY <2>3, <2>5, <2>7
<1>5. CASE \E p \in Plans : SaveSchedule(p)
  <2>1. PICK p \in Plans : SaveSchedule(p)
    BY <1>5
  <2>2. UNCHANGED <<event, teams, maker, edits, late>>
    BY <2>1 DEF SaveSchedule, ghosts
  <2>3. TypeOK'
    BY <1>t, <2>1, <2>2, SavePlan DEF TypeOK
  <2>4. HeldOnly'
    BY <1>h, <2>1, SavePlan DEF Open, Holds
  <2>5. \A i \in Ids, q \in Plans : plan'[q].event = plan[q].event
    BY <2>1, SavePlan
  <2>6. Unborn'
    BY <1>u, <1>i, <2>2, <2>5
  <2> QED  BY <2>3, <2>4, <2>6
<1>6. CASE \E p \in Plans, i \in Ids : Compares(p, i)
  <2>1. PICK p \in Plans, i \in Ids : Compares(p, i)
    BY <1>6
  <2>2. UNCHANGED <<event, teams, maker, edits, late>>
    BY <2>1 DEF Compares, ghosts
  <2>3. TypeOK'
    BY <1>t, <2>1, <2>2, ComparedPlan DEF TypeOK
  <2>4. HeldOnly'
    <3>1. ASSUME NEW j \in Ids
          PROVE  /\ plan'[p].task[j] \in Open => plan'[p].pc = "saving"
                 /\ plan'[p].task[j] # "none" => plan'[p].event[j] # NoRow
      BY <2>1, ComparedPlan DEF TypeInv, HeldOnly, Open
    <3> QED  BY <1>h, <2>1, <3>1, ComparedPlan
  <2>5. \A q \in Plans : plan'[q].event = plan[q].event
    BY <2>1, ComparedPlan
  <2>6. Unborn'
    BY <1>u, <1>i, <2>2, <2>5
  <2> QED  BY <2>3, <2>4, <2>6
<1>e. ASSUME NEW p \in Plans, NEW i \in Ids, NEW how \in {"done", "failed"}, Ended(p, i, how),
             plan[p].pc = "saving", plan[p].event[i] # NoRow
      PROVE  /\ plan' \in [Plans -> Plan] /\ HeldOnly'
             /\ \A q \in Plans : plan'[q].event = plan[q].event
  <2>1. ASSUME NEW j \in Ids
        PROVE  /\ plan'[p].task[j] \in Open => plan'[p].pc = "saving"
               /\ plan'[p].task[j] # "none" => plan'[p].event[j] # NoRow
               /\ plan'[p].pc \notin {"idle", "teams", "held"}
    BY <1>e DEF TypeInv, HeldOnly, Ended
  <2> QED  BY <1>h, <1>e, <2>1 DEF Ended
<1>7. CASE \E p \in Plans, i \in Ids : Stores(p, i)
  <2>1. PICK p \in Plans, i \in Ids : Stores(p, i)
    BY <1>7
  <2>2. UNCHANGED <<teams, maker, edits>> /\ Ended(p, i, "done") /\ plan[p].pc = "saving"
          /\ plan[p].task[i] \in {"update", "insert"} /\ Changes(i, {p})
    BY <2>1 DEF Stores
  <2>3. plan[p].event[i] # NoRow
    BY <2>1, StoresRow, RowFields
  <2>4. plan' \in [Plans -> Plan] /\ HeldOnly' /\ \A q \in Plans : plan'[q].event = plan[q].event
    BY <1>e, <2>2, <2>3
  <2>5. late' \subseteq Plans \X Ids
    BY <1>t, <2>2, ChangesTyped
  <2>6. /\ event'[i].team \in teams \union {Null} /\ event' \in [Ids -> Row \union {NoRow}]
        /\ \A j \in Ids \ {i} : event'[j] = event[j]
    BY <2>1, StoresRow
  <2>7. TypeOK'
    BY <1>t, <2>2, <2>4, <2>5, <2>6 DEF TypeOK
  <2>8. Unborn'
    <3>1. \A m \in Makers, s \in Slots : maker[m].pc \in {"idle", "save"} => <<m, s>> # i
      BY <2>3 DEF TypeInv, Unborn
    <3> QED  BY <1>u, <1>i, <2>2, <2>4, <2>6, <3>1
  <2> QED  BY <2>4, <2>7, <2>8
<1>8. CASE \E p \in Plans, i \in Ids : Passes(p, i)
  <2>1. PICK p \in Plans, i \in Ids : Passes(p, i)
    BY <1>8
  <2>2. UNCHANGED <<event, teams, maker, edits>> /\ plan[p].pc = "saving"
          /\ plan[p].task[i] \in Open /\ late' \subseteq Plans \X Ids
    BY <2>1 DEF Passes
  <2>3. Ended(p, i, "done") \/ Ended(p, i, "failed")
    BY <2>1 DEF Passes
  <2>4. plan[p].event[i] # NoRow
    BY <2>2 DEF TypeInv, HeldOnly, Open
  <2>5. plan' \in [Plans -> Plan] /\ HeldOnly' /\ \A q \in Plans : plan'[q].event = plan[q].event
    BY <1>e, <2>2, <2>3, <2>4
  <2>6. TypeOK'
    BY <1>t, <2>2, <2>5 DEF TypeOK
  <2>7. Unborn'
    BY <1>u, <1>i, <2>2, <2>5
  <2> QED  BY <2>5, <2>6, <2>7
<1>9. CASE \E i \in Ids : \E row \in EditedBy(i) : EditEvent(i, row)
  <2>1. PICK i \in Ids : \E row \in EditedBy(i) : EditEvent(i, row)
    BY <1>9
  <2>2. PICK row \in EditedBy(i) : EditEvent(i, row)
    BY <2>1
  <2>3. UNCHANGED <<teams, maker, plan>> /\ edits' = edits + 1 /\ edits < MaxEdits
          /\ late' = late \union {<<p, i>> : p \in {q \in Plans : Holds(q, i)}}
    BY <2>2 DEF EditEvent
  <2>4. edits' \in 0 .. MaxEdits /\ late' \subseteq Plans \X Ids
    BY <1>t, <2>3, ScheduleBounds
  <2>5. /\ event' \in [Ids -> Row \union {NoRow}] /\ event'[i].team \in teams \union {Null}
        /\ \A j \in Ids \ {i} : event'[j] = event[j]
        /\ event[i] # NoRow
    BY <2>2, EditedRow, RowFields
  <2>6. TypeOK'
    BY <1>t, <2>3, <2>4, <2>5 DEF TypeOK
  <2>7. HeldOnly'
    BY <2>3 DEF TypeInv, HeldOnly
  <2>8. Unborn'
    <3>1. \A m \in Makers, s \in Slots : maker[m].pc \in {"idle", "save"} => <<m, s>> # i
      BY <2>5 DEF TypeInv, Unborn
    <3> QED  BY <1>u, <1>i, <2>3, <2>5, <3>1
  <2> QED  BY <2>6, <2>7, <2>8
<1>13. CASE \E row \in Addable : CreateEvent(row)
  <2>1. PICK row \in Addable : CreateEvent(row)
    BY <1>13
  <2>2. UNCHANGED <<teams, maker, plan, late>> /\ edits' = edits + 1 /\ edits < MaxEdits
    BY <2>1 DEF CreateEvent
  <2>3. PICK i \in Ids : Adds(row, i)
    BY <2>1, AddedRow
  <2>4. edits' \in 0 .. MaxEdits
    BY <1>t, <2>2, ScheduleBounds
  <2>5. \A j \in Ids : event'[j].team \in teams \union {Null}
    BY <1>t, <2>3 DEF Adds
  <2>6. TypeOK'
    BY <1>t, <2>2, <2>3, <2>4, <2>5 DEF TypeOK, Adds
  <2>7. HeldOnly'
    BY <2>2 DEF TypeInv, HeldOnly
  <2>8. Unborn'
    <3>1. \A m \in Makers, s \in Slots : <<m, s>> # i
      BY <2>3, ScheduleHands DEF Adds
    <3> QED  BY <1>u, <1>i, <2>2, <2>3, <3>1 DEF Adds
  <2> QED  BY <2>6, <2>7, <2>8
<1>10. CASE \E t \in Teams : DeleteTeam(t)
  <2>1. PICK t \in Teams : DeleteTeam(t)
    BY <1>10
  <2>2. UNCHANGED <<maker, plan>> /\ edits' = edits + 1 /\ edits < MaxEdits
          /\ late' \subseteq Plans \X Ids
    BY <1>t, <2>1 DEF DeleteTeam
  <2>3. edits' \in 0 .. MaxEdits
    BY <1>t, <2>2, ScheduleBounds
  <2>4. event' \in [Ids -> Row \union {NoRow}] /\ teams' \subseteq teams
    BY <2>1, DeletedRows
  <2>5. \A i \in Ids : event'[i].team \in teams' \union {Null}
                         /\ (event[i] = NoRow => event'[i] = NoRow)
    BY <2>1, DeletedRows
  <2>6. TypeOK'
    BY <1>t, <2>2, <2>3, <2>4, <2>5 DEF TypeOK
  <2>7. HeldOnly'
    BY <2>2 DEF TypeInv, HeldOnly
  <2>8. Unborn'
    BY <1>u, <1>i, <2>2, <2>5
  <2> QED  BY <2>6, <2>7, <2>8
<1>11. CASE Crash
  <2>1. UNCHANGED <<event, teams, edits, late>>
          /\ maker' = [m \in Makers |-> IF maker[m].pc = "save" THEN [NoMaker EXCEPT !.pc = "lost"]
                                        ELSE maker[m]]
    BY <1>11 DEF Crash, ghosts
  <2>2. maker' \in [Makers -> Maker]
          /\ \A m \in Makers : maker'[m].pc = "lost" \/ maker'[m] = maker[m]
    <3>1. [NoMaker EXCEPT !.pc = "lost"] \in Maker /\ [NoMaker EXCEPT !.pc = "lost"].pc = "lost"
      BY DEF NoMaker, Maker
    <3> QED  BY <1>t, <2>1, <3>1
  <2>3. TypeOK'
    BY <1>t, <1>11, <2>1, <2>2, CrashPlan DEF TypeOK
  <2>4. HeldOnly'
    BY <1>11, CrashPlan DEF TypeInv, HeldOnly, Open
  <2>5. Unborn'
    BY <1>u, <1>i, <1>11, <2>1, <2>2, CrashPlan
  <2> QED  BY <2>3, <2>4, <2>5
<1>12. CASE UNCHANGED vars
  BY <1>12 DEF vars, TypeInv, TypeOK, HeldOnly, Unborn
<1> QED
  BY <1>1, <1>2, <1>3, <1>4, <1>5, <1>6, <1>7, <1>8, <1>9, <1>10, <1>11, <1>12, <1>13, Steps DEF Moves

\* What planners have still to add: a step brings a row into being by a generation, by
\* the next addition, or by a save of what was held.
LEMMA NextUnadded == TypeInv /\ [Next]_vars => Unadded'
<1> SUFFICES ASSUME TypeInv, [Next]_vars, NEW h \in Hands, NEW s \in Starts, edits' < h
             PROVE  /\ event'[<<h, s>>] = NoRow
                    /\ \A p \in Plans : plan'[p].event[<<h, s>>] = NoRow
  BY DEF Unadded
<1> DEFINE i == <<h, s>>
<1>i. i \in Ids /\ i[1] = h /\ h \in Nat /\ edits \in Nat
        /\ event \in [Ids -> Row \union {NoRow}]
  BY DEF Ids, Hands, TypeInv, TypeOK
<1>b. edits < h => event[i] = NoRow /\ \A p \in Plans : plan[p].event[i] = NoRow
  BY DEF TypeInv, Unadded
<1> HIDE DEF i
<1>1. CASE \E m \in Makers : GenerateSaturdaySlots(m) \/ SaveSlots(m)
  <2>1. PICK m \in Makers : GenerateSaturdaySlots(m) \/ SaveSlots(m)
    BY <1>1
  <2>2. plan' = plan /\ edits' = edits
    BY <2>1 DEF GenerateSaturdaySlots, SaveSlots
  <2>3. i[1] # m
    BY <1>i, ScheduleHands
  <2>4. event'[i] = event[i]
    BY <1>i, <2>1, <2>3, SlotRows DEF GenerateSaturdaySlots
  <2> QED  BY <1>b, <2>2, <2>4 DEF i
<1>2. CASE \E p \in Plans : GetProposal(p)
  <2>1. PICK p \in Plans : GetProposal(p)
    BY <1>2
  <2>2. event' = event /\ edits' = edits
    BY <2>1 DEF GetProposal
  <2> QED  BY <1>b, <1>i, <2>1, <2>2, ReadPlan DEF i
<1>3. CASE \E p \in Plans : GetTeams(p)
  <2>1. PICK p \in Plans : GetTeams(p)
    BY <1>3
  <2>2. event' = event /\ edits' = edits
    BY <2>1 DEF GetTeams
  <2>3. \A q \in Plans : plan[q].event[i] = NoRow => plan'[q].event[i] = NoRow
    BY <1>i, <2>1, TeamsPlan, RowFields
  <2> QED  BY <1>b, <2>2, <2>3 DEF i
<1>4. CASE \E p \in Plans : SaveSchedule(p)
  <2>1. PICK p \in Plans : SaveSchedule(p)
    BY <1>4
  <2>2. event' = event /\ edits' = edits
    BY <2>1 DEF SaveSchedule
  <2> QED  BY <1>b, <1>i, <2>1, <2>2, SavePlan DEF i
<1>5. CASE \E p \in Plans, k \in Ids : Compares(p, k) \/ Stores(p, k) \/ Passes(p, k)
  <2>1. PICK p \in Plans, k \in Ids : Compares(p, k) \/ Stores(p, k) \/ Passes(p, k)
    BY <1>5
  <2>2. edits' = edits
    BY <2>1 DEF Compares, Stores, Passes
  <2>3. \A q \in Plans : plan'[q].event = plan[q].event
    BY <2>1, ComparedPlan DEF Stores, Passes, Ended
  <2>4. event'[i] = event[i] \/ (Stores(p, k) /\ k = i)
    BY <1>i, <2>1, StoresRow DEF Compares, Passes
  <2>5. Stores(p, k) /\ k = i => plan[p].event[i] # NoRow
    BY StoresRow, RowFields
  <2> QED  BY <1>b, <2>2, <2>3, <2>4, <2>5 DEF i
<1>6. CASE \E k \in Ids : \E row \in EditedBy(k) : EditEvent(k, row)
  <2>1. PICK k \in Ids : \E row \in EditedBy(k) : EditEvent(k, row)
    BY <1>6
  <2>2. PICK row \in EditedBy(k) : EditEvent(k, row)
    BY <2>1
  <2>3. plan' = plan /\ edits' = edits + 1 /\ edits < h
    BY <1>i, <2>2 DEF EditEvent
  <2>4. event[i] = NoRow /\ k # i
    BY <1>b, <2>2, <2>3, EditedRow, RowFields
  <2> QED  BY <1>b, <1>i, <2>2, <2>3, <2>4, EditedRow DEF i
<1>7. CASE \E row \in Addable : CreateEvent(row)
  <2>1. PICK row \in Addable : CreateEvent(row)
    BY <1>7
  <2>2. PICK k \in Ids : Adds(row, k)
    BY <2>1, AddedRow
  <2>3. plan' = plan /\ edits' = edits + 1 /\ edits < h
    BY <1>i, <2>1 DEF CreateEvent
  <2>4. k # i
    BY <1>i, <2>2, <2>3 DEF Adds
  <2> QED  BY <1>b, <1>i, <2>2, <2>3, <2>4 DEF Adds, i
<1>8. CASE \E t \in Teams : DeleteTeam(t)
  <2>1. PICK t \in Teams : DeleteTeam(t)
    BY <1>8
  <2>2. plan' = plan /\ edits < h
    BY <1>i, <2>1 DEF DeleteTeam
  <2> QED  BY <1>b, <1>i, <2>1, <2>2, DeletedRows DEF i
<1>9. CASE Crash
  <2>1. event' = event /\ edits' = edits
    BY <1>9 DEF Crash
  <2> QED  BY <1>b, <1>i, <1>9, <2>1, CrashPlan DEF i
<1>10. CASE UNCHANGED vars
  BY <1>b, <1>10 DEF vars, i
<1> QED
  BY <1>1, <1>2, <1>3, <1>4, <1>5, <1>6, <1>7, <1>8, <1>9, <1>10, Steps DEF Moves

LEMMA NextType == TypeInv /\ [Next]_vars => TypeInv'
  BY NextTyped, NextUnadded DEF TypeInv

LEMMA TypeAlways == Spec => []TypeInv
  BY InitType, NextType, PTL DEF Spec

\* Table, teams, calls and proposals are well typed in every reachable state, and every
\* event's team exists.
THEOREM ScheduleTypeCorrect == Spec => []TypeOK
<1>1. TypeInv => TypeOK
  BY DEF TypeInv
<1> QED  BY <1>1, TypeAlways, PTL

-----------------------------------------------------------------------------
(* Slots.                                                                  *)

\* Where the start of an event comes from: it was there, or it is a slot that was
\* missing, or one event got it that was nobody's, or else two may have made it.
OneMoved ==
    \E k \in Ids :
        /\ \A j \in Ids \ {k} : event'[j].at = event[j].at
        /\ event'[k].at \in {event[k].at, Null} \union crossed' \/ ~Occupied(event'[k].at)

LEMMA StepAt ==
    ASSUME TypeInv, [Next]_vars
    PROVE  /\ crossed \subseteq crossed'
           /\ \/ \E m \in Makers : SaveSlots(m)
              \/ \A i \in Ids : event'[i].at = event[i].at
              \/ OneMoved
<1>1. CASE \/ \E m \in Makers : GenerateSaturdaySlots(m)
           \/ \E p \in Plans : GetProposal(p) \/ GetTeams(p) \/ SaveSchedule(p)
           \/ \E p \in Plans, i \in Ids : Compares(p, i) \/ Passes(p, i)
           \/ Crash \/ UNCHANGED vars
  <2>1. event' = event /\ crossed \subseteq crossed'
    BY <1>1 DEF GenerateSaturdaySlots, GetProposal, GetTeams, SaveSchedule, Compares, Passes,
                Crash, vars, ghosts
  <2> QED  BY <2>1
<1>2. CASE \E m \in Makers : SaveSlots(m)
  BY <1>2 DEF SaveSlots
<1>3. CASE \E p \in Plans, i \in Ids : Stores(p, i)
  <2>1. PICK p \in Plans, i \in Ids : Stores(p, i)
    BY <1>3
  <2> QED  BY <2>1, StoresRow DEF OneMoved
<1>4. CASE \E i \in Ids : \E row \in EditedBy(i) : EditEvent(i, row)
  <2>1. PICK i \in Ids : \E row \in EditedBy(i) : EditEvent(i, row)
    BY <1>4
  <2>2. PICK row \in EditedBy(i) : EditEvent(i, row)
    BY <2>1
  <2>3. event'[i] = row /\ \A j \in Ids \ {i} : event'[j] = event[j]
    BY <2>2, EditedRow
  <2>4. crossed' = IF row # NoRow /\ row.at # event[i].at THEN crossed \union Crossing(row.at)
                   ELSE crossed
    BY <2>2 DEF EditEvent
  <2>5. row.at \in {event[i].at, Null} \union crossed' \/ ~Occupied(row.at)
    BY <2>4, RowFields DEF Crossing
  <2> QED  BY <2>3, <2>4, <2>5 DEF OneMoved
<1>5. CASE \E row \in Addable : CreateEvent(row)
  <2>1. PICK row \in Addable : CreateEvent(row)
    BY <1>5
  <2>2. PICK i \in Ids : Adds(row, i)
    BY <2>1, AddedRow
  <2>3. crossed' = crossed \union Crossing(row.at)
    BY <2>1 DEF CreateEvent
  <2>4. event'[i].at \in crossed' \/ ~Occupied(event'[i].at)
    BY <2>2, <2>3 DEF Crossing, Adds
  <2> QED  BY <2>2, <2>3, <2>4 DEF OneMoved, Adds
<1>6. CASE \E t \in Teams : DeleteTeam(t)
  <2>1. PICK t \in Teams : DeleteTeam(t)
    BY <1>6
  <2> QED  BY <2>1, DeletedRows DEF DeleteTeam
<1> QED  BY <1>1, <1>2, <1>3, <1>4, <1>5, <1>6, Steps DEF Moves

\* A slot that a call still misses is missing, unless two calls made it.
SlotInv ==
    /\ SlotOnce
    /\ \A m \in Makers :
         /\ maker[m].pc # "save" => maker[m].missing = {}
         /\ maker[m].missing \subseteq Slots
         /\ \A s \in maker[m].missing :
              /\ s \in crossed \/ \A i \in Ids : event[i].at # s
              /\ \A n \in Makers \ {m} : s \in maker[n].missing => s \in crossed

LEMMA InitSlots == Init => SlotInv
<1> SUFFICES ASSUME Init PROVE SlotInv
  OBVIOUS
<1>1. \A m \in Makers : maker[m].missing = {}
  <2>1. NoMaker.missing = {} /\ [NoMaker EXCEPT !.pc = "done"].missing = {}
    BY DEF NoMaker
  <2> QED  BY <2>1 DEF Init
<1>2. PICK given \in [Slots -> Teams \union {Null}] :
         event = [i \in Ids |-> IF i[1] \in MadeAtStart
                                THEN [Empty(i[2]) EXCEPT !.team = given[i[2]]] ELSE NoRow]
  BY DEF Init
<1>3. \A i \in Ids : event[i] # NoRow =>
         i[1] \in MadeAtStart /\ event[i].at = i[2] /\ i = <<i[1], i[2]>>
  BY <1>2 DEF Ids, Empty
<1>4. \A i \in Ids : event[i] = NoRow => event[i].at \notin Slots
  BY RowFields, ScheduleNull
<1>5. SlotOnce
  <2> SUFFICES ASSUME NEW i \in Ids, NEW j \in Ids, i # j, Exists(i),
                      event[i].at = event[j].at, event[i].at \in Slots
               PROVE  FALSE
    BY DEF SlotOnce
  <2>1. event[j] # NoRow
    BY <1>4
  <2>2. i[1] = j[1] /\ i[2] = j[2] /\ i = <<i[1], i[2]>> /\ j = <<j[1], j[2]>>
    BY <1>3, <2>1, ScheduleBounds DEF Exists
  <2> QED  BY <2>2
<1> QED  BY <1>1, <1>5 DEF SlotInv

LEMMA NextSlots == TypeInv /\ SlotInv /\ [Next]_vars => SlotInv'
<1> SUFFICES ASSUME TypeInv, SlotInv, [Next]_vars PROVE SlotInv'
  OBVIOUS
<1>t. /\ TypeInv' /\ maker \in [Makers -> Maker] /\ maker' \in [Makers -> Maker]
      /\ event' \in [Ids -> Row \union {NoRow}]
      /\ \A m \in Makers : maker'[m].missing \subseteq Slots
  BY NextType DEF TypeInv, TypeOK, Maker
<1>n. \A i \in Ids : (~Exists(i) => event[i].at = Null) /\ (event'[i] = NoRow => event'[i].at = Null)
  BY RowFields DEF Exists
<1>1. CASE \E m \in Makers : SaveSlots(m)
  <2>1. PICK m \in Makers : SaveSlots(m)
    BY <1>1
  <2>2. maker'[m].pc = "done" /\ maker'[m].missing = {} /\ crossed' = crossed
          /\ \A n \in Makers \ {m} : maker'[n] = maker[n]
    <3>1. [NoMaker EXCEPT !.pc = "done"].pc = "done" /\ [NoMaker EXCEPT !.pc = "done"].missing = {}
      BY DEF NoMaker
    <3> QED  BY <1>t, <2>1, <3>1 DEF SaveSlots
  <2>3. \A i \in Ids :
           \/ event'[i] = event[i]
           \/ /\ i = <<m, i[2]>> /\ i[2] \in maker[m].missing
              /\ event'[i].at = i[2] /\ event[i] = NoRow
    BY <2>1, SlotRows, RowFields
  <2>4. \A i, j \in Ids : i = <<m, i[2]>> /\ j = <<m, j[2]>> /\ i[2] = j[2] => i = j
    OBVIOUS
  <2>5. SlotOnce'
    <3> SUFFICES ASSUME NEW i \in Ids, NEW j \in Ids, i # j, event'[i] # NoRow,
                        event'[i].at = event'[j].at, event'[i].at \in Slots,
                        event'[i].at \notin crossed
                 PROVE  FALSE
      BY <2>2 DEF SlotOnce, Exists
    <3>1. CASE event'[i] = event[i] /\ event'[j] = event[j]
      BY <3>1 DEF SlotInv, SlotOnce, Exists
    <3>2. CASE i[2] \in maker[m].missing /\ event'[i].at = i[2] /\ event'[j] = event[j]
      BY <3>2 DEF SlotInv
    <3>3. CASE event'[i] = event[i] /\ j[2] \in maker[m].missing /\ event'[j].at = j[2]
      BY <3>3 DEF SlotInv
    <3> QED  BY <2>3, <2>4, <3>1, <3>2, <3>3
  <2>6. ASSUME NEW n \in Makers, NEW s \in maker'[n].missing, s \notin crossed
        PROVE  /\ \A i \in Ids : event'[i].at # s
               /\ \A k \in Makers \ {n} : s \notin maker'[k].missing
    <3>1. n # m /\ maker'[n] = maker[n] /\ s \in maker[n].missing
      BY <2>2, <2>6
    <3>2. s \notin maker[m].missing /\ \A i \in Ids : event[i].at # s
      BY <2>6, <3>1 DEF SlotInv
    <3>3. \A k \in Makers \ {n} : s \notin maker[k].missing
      BY <2>6, <3>1 DEF SlotInv
    <3> QED  BY <2>2, <2>3, <3>2, <3>3
  <2>7. \A n \in Makers : maker'[n].pc # "save" => maker'[n].missing = {}
    BY <2>2 DEF SlotInv
  <2> QED  BY <1>t, <2>2, <2>5, <2>6, <2>7 DEF SlotInv
<1>2. CASE /\ (\A i \in Ids : event'[i].at = event[i].at) \/ OneMoved
           /\ crossed \subseteq crossed'
           /\ ~\E m \in Makers : SaveSlots(m)
  <2>m. ASSUME NEW i \in Ids, event'[i].at \in Slots, event'[i].at \notin crossed'
        PROVE  \/ event'[i].at = event[i].at
               \/ ~Occupied(event'[i].at) /\ \A j \in Ids \ {i} : event'[j].at = event[j].at
    BY <1>2, <2>m, ScheduleNull DEF OneMoved
  <2>1. SlotOnce'
    <3> SUFFICES ASSUME NEW i \in Ids, NEW j \in Ids, i # j, event'[i] # NoRow,
                        event'[i].at = event'[j].at, event'[i].at \in Slots,
                        event'[i].at \notin crossed'
                 PROVE  FALSE
      BY DEF SlotOnce, Exists
    <3>1. event[i].at = event'[i].at /\ event[j].at = event'[i].at
      BY <2>m DEF Occupied
    <3>2. Exists(i)
      BY <1>n, <3>1, ScheduleNull
    <3> QED  BY <1>2, <3>1, <3>2 DEF SlotInv, SlotOnce
  <2>2. CASE \E m \in Makers : GenerateSaturdaySlots(m)
    <3>1. PICK m \in Makers : GenerateSaturdaySlots(m)
      BY <2>2
    <3>2. /\ event' = event /\ maker[m].pc = "idle" /\ maker'[m].missing = Missing
          /\ (maker'[m].pc # "save" => Missing = {})
          /\ \A n \in Makers \ {m} : maker'[n] = maker[n]
          /\ crossed' = crossed \union {s \in Missing : \E n \in Makers : s \in maker[n].missing}
      BY <1>t, <3>1 DEF GenerateSaturdaySlots
    <3>3. maker[m].missing = {}
      BY <3>2 DEF SlotInv
    <3>4. \A s \in Missing, i \in Ids : event[i].at # s
      BY DEF Missing
    <3>5. ASSUME NEW n \in Makers, NEW s \in maker'[n].missing, s \notin crossed'
          PROVE  /\ \A i \in Ids : event'[i].at # s
                 /\ \A k \in Makers \ {n} : s \notin maker'[k].missing
      <4>1. CASE n = m
        BY <3>2, <3>4, <3>5, <4>1
      <4>2. CASE n # m
        <5>1. s \in maker[n].missing /\ s \notin crossed
          BY <3>2, <3>5, <4>2
        <5>2. s \notin Missing
          BY <3>2, <3>5, <5>1
        <5> QED  BY <3>2, <5>1, <5>2 DEF SlotInv
      <4> QED  BY <4>1, <4>2
    <3>6. \A n \in Makers : maker'[n].pc # "save" => maker'[n].missing = {}
      BY <3>2 DEF SlotInv
    <3> QED  BY <1>t, <2>1, <3>5, <3>6 DEF SlotInv
  <2>3. CASE ~\E m \in Makers : GenerateSaturdaySlots(m)
    <3>1. \A m \in Makers : maker'[m] = maker[m] \/ (maker'[m].pc = "lost" /\ maker'[m].missing = {})
      <4>1. CASE Crash
        <5>1. [NoMaker EXCEPT !.pc = "lost"].pc = "lost" /\ [NoMaker EXCEPT !.pc = "lost"].missing = {}
          BY DEF NoMaker
        <5> QED  BY <4>1, <5>1, <1>t DEF Crash
      <4>2. CASE ~Crash
        <5>1. maker' = maker
          BY <1>2, <2>3, <4>2, Steps DEF Moves, GetProposal, GetTeams, SaveSchedule, Compares,
             Stores, Passes, EditEvent, CreateEvent, DeleteTeam, vars
        <5> QED  BY <5>1
      <4> QED  BY <4>1, <4>2
    <3>2. ASSUME NEW n \in Makers, NEW s \in maker'[n].missing, s \notin crossed'
          PROVE  /\ \A i \in Ids : event'[i].at # s
                 /\ \A k \in Makers \ {n} : s \notin maker'[k].missing
      <4>1. s \in maker[n].missing /\ s \notin crossed /\ s \in Slots
        BY <1>2, <1>t, <3>1, <3>2
      <4>2. \A i \in Ids : event[i].at # s
        BY <4>1 DEF SlotInv
      <4>3. \A k \in Makers \ {n} : s \notin maker[k].missing
        BY <4>1 DEF SlotInv
      <4>4. Occupied(s)
        BY <4>1 DEF Occupied
      <4> QED  BY <2>m, <3>1, <3>2, <4>1, <4>2, <4>3, <4>4
    <3>3. \A n \in Makers : maker'[n].pc # "save" => maker'[n].missing = {}
      BY <3>1 DEF SlotInv
    <3> QED  BY <1>t, <2>1, <3>2, <3>3 DEF SlotInv
  <2> QED  BY <2>2, <2>3
<1> QED  BY <1>1, <1>2, StepAt

\* A slot is there twice only if it was made, added, moved to or brought back by a stale
\* save when it was there or was being made (scheduler.service.ts:46-84).
THEOREM SlotsAreThereOnce == Spec => []SlotOnce
<1>1. Init => TypeInv /\ SlotInv
  BY InitType, InitSlots
<1>2. (TypeInv /\ SlotInv) /\ [Next]_vars => (TypeInv /\ SlotInv)'
  BY NextType, NextSlots
<1>3. SlotInv => SlotOnce
  BY DEF SlotInv
<1> QED  BY <1>1, <1>2, <1>3, PTL DEF Spec

-----------------------------------------------------------------------------
(* Days.                                                                   *)

PlanDay(p, i) == DayOf(plan[p].event[i].at)
Free(i) == Exists(i) /\ event[i].isActive /\ event[i].team = Null

\* The event is still what the proposal read, but for the team that it may have been
\* given; or its days have been stirred.
Clean(p, i) ==
    /\ plan[p].event[i].isActive /\ event[i].isActive
    /\ event[i].at = plan[p].event[i].at
    /\ event[i].team \in {Null, plan[p].event[i].team}
Dirty(p, i) == PlanDay(p, i) \in stirred /\ DayOf(event[i].at) \in stirred

CleanOrDirty ==
    \A p \in Plans, i \in Ids : Holds(p, i) => Clean(p, i) \/ Dirty(p, i)

\* Of a day that nobody stirred, a proposal holds every free slot or nothing.
AllOrNothing ==
    \A p \in Plans, j \in Ids : Holds(p, j) /\ PlanDay(p, j) \notin stirred =>
        \A i \in Ids : Free(i) /\ DayOf(event[i].at) = PlanDay(p, j) => Holds(p, i)

\* On such a day it gives a slot to no team that has another event.
GivesNew ==
    \A p \in Plans, i \in Ids :
        Holds(p, i) /\ plan[p].event[i].team # Null /\ PlanDay(p, i) \notin stirred =>
            \A k \in Ids \ {i} : event[k].team = plan[p].event[i].team =>
                DayOf(event[k].at) # PlanDay(p, i)

\* A proposal gives a team one slot a day, and none before it is made.
GivesOnce ==
    \A p \in Plans :
        /\ \A i, j \in Ids : i # j /\ plan[p].event[i].team = plan[p].event[j].team
                               /\ plan[p].event[i].team # Null => PlanDay(p, i) # PlanDay(p, j)
        /\ plan[p].pc = "teams" => \A i \in Ids : plan[p].event[i].team = Null

DayInv == OnceADayKept /\ CleanOrDirty /\ AllOrNothing /\ GivesNew /\ GivesOnce

Busy == {"teams", "held", "saving"}

\* What a step other than a proposal's own two reads leaves of a proposal: what it
\* held, or nothing.
Kept(q) ==
    \/ /\ plan'[q].event = plan[q].event
       /\ plan'[q].pc \in Busy => plan[q].pc \in Busy
       /\ plan'[q].pc = "teams" => plan[q].pc = "teams"
    \/ plan'[q].pc = "lost" /\ \A i \in Ids : plan'[q].event[i] = NoRow

LEMMA StepKept ==
    ASSUME TypeInv, [Next]_vars, NEW q \in Plans
    PROVE  (\E p \in Plans : GetProposal(p) \/ GetTeams(p)) \/ Kept(q)
<1>1. CASE \/ \E m \in Makers : GenerateSaturdaySlots(m) \/ SaveSlots(m)
           \/ \E i \in Ids : \E row \in EditedBy(i) : EditEvent(i, row)
           \/ \E row \in Addable : CreateEvent(row)
           \/ \E t \in Teams : DeleteTeam(t)
           \/ UNCHANGED vars
  <2>1. plan' = plan
    BY <1>1 DEF GenerateSaturdaySlots, SaveSlots, EditEvent, CreateEvent, DeleteTeam, vars
  <2> QED  BY <2>1 DEF Kept
<1>2. CASE \E p \in Plans : SaveSchedule(p)
  BY <1>2, SavePlan DEF Kept, Busy
<1>3. CASE \E p \in Plans, i \in Ids : Compares(p, i)
  BY <1>3, ComparedPlan DEF Kept, Busy
<1>4. CASE \E p \in Plans, i \in Ids : Stores(p, i) \/ Passes(p, i)
  BY <1>4 DEF Stores, Passes, Ended, Kept, Busy
<1>5. CASE Crash
  BY <1>5, CrashPlan DEF Kept
<1> QED  BY <1>1, <1>2, <1>3, <1>4, <1>5, Steps DEF Moves

\* An event that others change stirs its days.
Touched(i) == DayOf(event[i].at) \in stirred' /\ DayOf(event'[i].at) \in stirred'

\* One that is added was nobody's, and stirs its day.
Added(i) ==
    /\ event[i] = NoRow /\ \A p \in Plans : plan[p].event[i] = NoRow
    /\ DayOf(event'[i].at) \in stirred'

LEMMA StepTouches ==
    ASSUME TypeInv, [Next]_vars
    PROVE  /\ stirred \subseteq stirred'
           /\ \/ \E m \in Makers : SaveSlots(m)
              \/ \E p \in Plans, i \in Ids : Stores(p, i)
              \/ \A i \in Ids : event'[i] = event[i] \/ Touched(i) \/ Added(i)
<1>1. CASE \/ \E m \in Makers : GenerateSaturdaySlots(m)
           \/ \E p \in Plans : GetProposal(p) \/ GetTeams(p) \/ SaveSchedule(p)
           \/ \E p \in Plans, i \in Ids : Compares(p, i) \/ Passes(p, i)
           \/ Crash \/ UNCHANGED vars
  <2>1. event' = event /\ stirred \subseteq stirred'
    BY <1>1 DEF GenerateSaturdaySlots, GetProposal, GetTeams, SaveSchedule, Compares, Passes,
                Crash, vars, ghosts
  <2> QED  BY <2>1
<1>2. CASE \E m \in Makers : SaveSlots(m)
  BY <1>2 DEF SaveSlots
<1>3. CASE \E p \in Plans, i \in Ids : Stores(p, i)
  BY <1>3 DEF Stores, Changes
<1>4. CASE \E i \in Ids : \E row \in EditedBy(i) : EditEvent(i, row)
  <2>1. PICK i \in Ids : \E row \in EditedBy(i) : EditEvent(i, row)
    BY <1>4
  <2>2. PICK row \in EditedBy(i) : EditEvent(i, row)
    BY <2>1
  <2>3. event'[i] = row /\ \A j \in Ids \ {i} : event'[j] = event[j]
    BY <2>2, EditedRow
  <2>4. stirred' = stirred \union {DayOf(event[i].at), DayOf(row.at)}
    BY <2>2 DEF EditEvent
  <2> QED  BY <2>3, <2>4 DEF Touched
<1>5. CASE \E t \in Teams : DeleteTeam(t)
  <2>1. PICK t \in Teams : DeleteTeam(t)
    BY <1>5
  <2>2. stirred' = stirred \union {DayOf(event[i].at) : i \in {j \in Ids : event[j].team = t}}
    BY <2>1 DEF DeleteTeam
  <2> QED  BY <2>1, <2>2, DeletedRows DEF Touched
<1>6. CASE \E row \in Addable : CreateEvent(row)
  <2>1. PICK row \in Addable : CreateEvent(row)
    BY <1>6
  <2>2. PICK i \in Ids : Adds(row, i)
    BY <2>1, AddedRow
  <2>3. stirred' = stirred \union {DayOf(row.at)}
    BY <2>1 DEF CreateEvent
  <2> QED  BY <2>2, <2>3 DEF Adds, Added
<1> QED  BY <1>1, <1>2, <1>3, <1>4, <1>5, <1>6, Steps DEF Moves

\* A save on a day that stays unstirred: the event is as it was read, and nobody else
\* holds it.
LEMMA StoreUnstirred ==
    ASSUME TypeInv, CleanOrDirty, NEW p \in Plans, NEW k \in Ids, Stores(p, k)
    PROVE  /\ Clean(p, k) => /\ event'[k].at = event[k].at
                             /\ event'[k].isActive
                             /\ event'[k].team \in {event[k].team, plan[p].event[k].team}
           /\ DayOf(event'[k].at) \notin stirred' =>
                /\ Clean(p, k) /\ Exists(k)
                /\ \A q \in Plans \ {p} : ~Holds(q, k)
           /\ \A q \in Plans \ {p} : Holds(q, k) => Touched(k)
           /\ Dirty(p, k) => DayOf(event'[k].at) \in stirred
<1>1. Holds(p, k) /\ plan[p].event[k] \in Row /\ event'[k] \in Row
        /\ event'[k].at \in {event[k].at, plan[p].event[k].at}
  BY StoresRow
<1>2. stirred' = stirred \union
           (IF {q \in Plans \ {p} : Holds(q, k)} = {} THEN {}
            ELSE {DayOf(event[k].at), DayOf(event'[k].at)})
  BY DEF Stores, Changes
<1>3. Dirty(p, k) => DayOf(event'[k].at) \in stirred
  BY <1>1 DEF Dirty, PlanDay
<1>4. Clean(p, k) => Exists(k)
  BY RowFields DEF Clean, Exists
<1>5. Clean(p, k) => /\ event'[k].at = event[k].at
                     /\ event'[k].isActive
                     /\ event'[k].team \in {event[k].team, plan[p].event[k].team}
  <2> SUFFICES ASSUME Clean(p, k)
               PROVE  /\ event'[k].at = event[k].at
                      /\ event'[k].isActive
                      /\ event'[k].team \in {event[k].team, plan[p].event[k].team}
    OBVIOUS
  <2>1. event'[k] = Written(event[k], plan[p].event[k], plan[p].cols[k])
    <3>1. event' = [event EXCEPT ![k] = Written(@, plan[p].event[k], plan[p].cols[k])]
      BY <1>4 DEF Stores
    <3> QED  BY <3>1, EventTyped DEF TypeInv
  <2>2. event[k] \in Row
    BY <1>4, EventTyped DEF TypeInv
  <2>3. /\ event'[k].team = IF "team" \in plan[p].cols[k] THEN plan[p].event[k].team
                            ELSE event[k].team
        /\ event'[k].isActive = IF "isActive" \in plan[p].cols[k] THEN plan[p].event[k].isActive
                                ELSE event[k].isActive
    BY <1>1, <2>1, <2>2, WrittenTyped
  <2>4. event'[k].isActive
    BY <2>3 DEF Clean
  <2> QED  BY <1>1, <2>3, <2>4 DEF Clean
<1>6. \A q \in Plans \ {p} : Holds(q, k) => Touched(k)
  BY <1>2 DEF Touched
<1>7. DayOf(event'[k].at) \notin stirred' => Clean(p, k) /\ \A q \in Plans \ {p} : ~Holds(q, k)
  BY <1>1, <1>2, <1>3, <1>6 DEF CleanOrDirty, Touched
<1> QED  BY <1>3, <1>4, <1>5, <1>6, <1>7

LEMMA InitDays == Init => DayInv
<1> SUFFICES ASSUME Init PROVE DayInv
  OBVIOUS
<1>1. PICK given \in [Slots -> Teams \union {Null}] :
         event = [i \in Ids |-> IF i[1] \in MadeAtStart
                                THEN [Empty(i[2]) EXCEPT !.team = given[i[2]]] ELSE NoRow]
  BY DEF Init
<1>2. \A i \in Ids : event[i].team # Null => event[i].at \in Slots
  <2> SUFFICES ASSUME NEW i \in Ids, event[i].team # Null PROVE event[i].at \in Slots
    OBVIOUS
  <2>1. i[1] \in MadeAtStart /\ i[2] \in Slots
    BY <1>1, RowFields, ScheduleHands, ScheduleBounds DEF Ids
  <2> QED  BY <1>1, <2>1 DEF Empty
<1>3. OnceADayKept
  BY <1>2 DEF Init, OnceADayKept, DayOf
<1>4. \A p \in Plans : plan[p].pc = "idle" /\ \A i \in Ids : plan[p].event[i] = NoRow
  BY NoPlanTyped DEF Init
<1>5. \A p \in Plans, i \in Ids : ~Holds(p, i) /\ plan[p].event[i].team = Null
  BY <1>4, RowFields DEF Holds
<1> QED
  BY <1>3, <1>4, <1>5 DEF DayInv, CleanOrDirty, AllOrNothing, GivesNew, GivesOnce

LEMMA KeptHolds ==
    ASSUME NEW q \in Plans, Kept(q), NEW i \in Ids
    PROVE  /\ Holds(q, i)' => /\ Holds(q, i) /\ plan'[q].event = plan[q].event
                              /\ \A j \in Ids : Holds(q, j) => Holds(q, j)'
           /\ plan'[q].event[i] = plan[q].event[i] \/ plan'[q].event[i] = NoRow
  BY DEF Kept, Holds, Busy

\* What a step that is neither of a proposal's reads does to one event, as far as a
\* proposal q that goes on is concerned.
LEMMA EventStep ==
    ASSUME TypeInv, CleanOrDirty, [Next]_vars, NEW k \in Ids
    PROVE  \/ event'[k] = event[k]
           \/ Touched(k)
           \/ Added(k)
           \/ /\ event'[k].team = Null /\ event[k] = NoRow
              /\ \A q \in Plans : plan[q].event[k] = NoRow
              /\ \A q \in Plans, j \in Ids : Holds(q, j) /\ PlanDay(q, j) = DayOf(event'[k].at)
                   => PlanDay(q, j) \in stirred'
           \/ \E p \in Plans : Stores(p, k)
<1>1. CASE \E m \in Makers : SaveSlots(m)
  <2>1. PICK m \in Makers : SaveSlots(m)
    BY <1>1
  <2>2. CASE event'[k] = event[k]
    BY <2>2
  <2>3. CASE event'[k] # event[k]
    <3>1. /\ k[2] \in maker[m].missing /\ k[2] \in Slots /\ event'[k] = Empty(k[2])
          /\ event[k] = NoRow /\ \A q \in Plans : plan[q].event[k] = NoRow
      BY <2>1, <2>3, SlotRows
    <3>2. event'[k].team = Null /\ event'[k].at = k[2] /\ DayOf(event'[k].at) = Day[k[2]]
      BY <3>1, RowFields DEF DayOf
    <3>3. stirred' = stirred \union {d \in {Day[s] : s \in maker[m].missing} :
                      \E p \in Plans, i \in Ids : Holds(p, i) /\ DayOf(plan[p].event[i].at) = d}
      BY <2>1 DEF SaveSlots
    <3>4. Day[k[2]] \in {Day[s] : s \in maker[m].missing}
      BY <3>1
    <3> QED  BY <3>1, <3>2, <3>3, <3>4 DEF PlanDay
  <2> QED  BY <2>2, <2>3
<1>2. CASE \E p \in Plans, i \in Ids : Stores(p, i)
  <2>1. PICK p \in Plans, i \in Ids : Stores(p, i)
    BY <1>2
  <2> QED  BY <2>1, StoresRow
<1> QED  BY <1>1, <1>2, StepTouches

LEMMA NextClean ==
    ASSUME TypeInv, DayInv, [Next]_vars, \A q \in Plans : Kept(q)
    PROVE  CleanOrDirty'
<1> SUFFICES ASSUME NEW q \in Plans, NEW i \in Ids, Holds(q, i)'
             PROVE  Clean(q, i)' \/ Dirty(q, i)'
  BY DEF CleanOrDirty
<1>1. Holds(q, i) /\ plan'[q].event = plan[q].event /\ stirred \subseteq stirred'
  BY KeptHolds, StepTouches
<1>2. Clean(q, i) \/ Dirty(q, i)
  BY <1>1 DEF DayInv, CleanOrDirty
<1>3. CASE event'[i] = event[i]
  BY <1>1, <1>2, <1>3 DEF Clean, Dirty, PlanDay
<1>4. CASE Touched(i)
  <2>1. PlanDay(q, i) \in stirred'
    BY <1>1, <1>2, <1>4 DEF Clean, Dirty, PlanDay, Touched
  <2> QED  BY <1>1, <1>4, <2>1 DEF Dirty, Touched, PlanDay
<1>5. CASE \E p \in Plans : Stores(p, i)
  <2>1. PICK p \in Plans : Stores(p, i)
    BY <1>5
  <2>2. CASE p = q /\ Clean(q, i)
    <3>1. event'[i].at = event[i].at /\ event'[i].isActive
            /\ event'[i].team \in {event[i].team, plan[q].event[i].team}
      BY <2>1, <2>2, StoreUnstirred DEF DayInv
    <3> QED  BY <1>1, <2>2, <3>1 DEF Clean
  <2>3. CASE p = q /\ Dirty(q, i)
    <3>1. DayOf(event'[i].at) \in stirred
      BY <2>1, <2>3, StoreUnstirred DEF DayInv
    <3> QED  BY <1>1, <2>3, <3>1 DEF Dirty, PlanDay
  <2>4. CASE p # q
    <3>1. Touched(i)
      BY <1>1, <2>1, <2>4, StoreUnstirred DEF DayInv
    <3> QED  BY <1>4, <3>1
  <2> QED  BY <1>2, <2>2, <2>3, <2>4
<1>6. plan[q].event[i] # NoRow
  BY <1>1 DEF Holds
<1> QED  BY <1>3, <1>4, <1>5, <1>6, EventStep DEF DayInv, Added

LEMMA NextAll ==
    ASSUME TypeInv, DayInv, [Next]_vars, \A q \in Plans : Kept(q)
    PROVE  AllOrNothing'
<1> SUFFICES ASSUME NEW q \in Plans, NEW j \in Ids, Holds(q, j)', PlanDay(q, j)' \notin stirred',
                    NEW i \in Ids, Free(i)', DayOf(event'[i].at) = PlanDay(q, j)'
             PROVE  Holds(q, i)'
  BY DEF AllOrNothing, DayOf
<1>1. /\ Holds(q, j) /\ plan'[q].event = plan[q].event /\ stirred \subseteq stirred'
      /\ \A k \in Ids : Holds(q, k) => Holds(q, k)'
  BY KeptHolds, StepTouches
<1>2. PlanDay(q, j)' = PlanDay(q, j) /\ PlanDay(q, j) \notin stirred
  BY <1>1 DEF PlanDay
<1>3. Holds(q, i)
  <2>1. CASE event'[i] = event[i]
    <3>1. Free(i) /\ DayOf(event[i].at) = PlanDay(q, j)
      BY <1>2, <2>1 DEF Free, Exists
    <3> QED  BY <1>1, <1>2, <3>1 DEF DayInv, AllOrNothing
  <2>2. ~Touched(i) /\ ~Added(i)
    BY <1>2 DEF Touched, Added
  <2>3. CASE \E p \in Plans : Stores(p, i)
    <3>1. PICK p \in Plans : Stores(p, i)
      BY <2>3
    <3>2. /\ Clean(p, i) /\ Exists(i) /\ event'[i].at = event[i].at
          /\ event'[i].team \in {event[i].team, plan[p].event[i].team}
      BY <1>2, <3>1, StoreUnstirred DEF DayInv
    <3>3. event'[i].team = Null /\ event[i].team \in {Null, plan[p].event[i].team}
      BY <3>2 DEF Free, Clean
    <3>4. CASE p = q
      BY <3>1, <3>4, StoresRow
    <3>5. CASE event[i].team = Null
      <4>1. Free(i)
        BY <3>2, <3>5 DEF Free, Clean
      <4> QED  BY <1>1, <1>2, <3>2, <4>1 DEF DayInv, AllOrNothing
    <3>6. CASE event[i].team # Null
      <4>1. plan[p].event[i].team # Null
        BY <3>3, <3>6
      <4> QED  BY <3>2, <3>3, <3>6, <4>1
    <3> QED  BY <3>5, <3>6
  <2> QED  BY <1>1, <1>2, <2>1, <2>2, <2>3, EventStep DEF DayInv
<1> QED  BY <1>1, <1>3

LEMMA NextGives ==
    ASSUME TypeInv, DayInv, [Next]_vars, \A q \in Plans : Kept(q)
    PROVE  GivesNew'
<1> SUFFICES ASSUME NEW q \in Plans, NEW i \in Ids, Holds(q, i)',
                    plan'[q].event[i].team # Null, PlanDay(q, i)' \notin stirred',
                    NEW k \in Ids \ {i}, event'[k].team = plan'[q].event[i].team,
                    DayOf(event'[k].at) = PlanDay(q, i)'
             PROVE  FALSE
  BY DEF GivesNew, DayOf
<1>1. Holds(q, i) /\ plan'[q].event = plan[q].event /\ stirred \subseteq stirred'
  BY KeptHolds, StepTouches
<1>2. /\ PlanDay(q, i)' = PlanDay(q, i) /\ PlanDay(q, i) \notin stirred
      /\ plan[q].event[i].team # Null /\ event'[k].team = plan[q].event[i].team
      /\ DayOf(event'[k].at) = PlanDay(q, i)
  BY <1>1 DEF PlanDay
<1>3. ~(event[k].team = plan[q].event[i].team /\ DayOf(event[k].at) = PlanDay(q, i))
  BY <1>1, <1>2 DEF DayInv, GivesNew
<1>4. CASE event'[k] = event[k]
  BY <1>2, <1>3, <1>4
<1>5. ~Touched(k) /\ ~Added(k)
  BY <1>2 DEF Touched, Added
<1>6. CASE \E p \in Plans : Stores(p, k)
  <2>1. PICK p \in Plans : Stores(p, k)
    BY <1>6
  <2>2. /\ Clean(p, k) /\ Exists(k) /\ event'[k].at = event[k].at
        /\ event'[k].team \in {event[k].team, plan[p].event[k].team}
    BY <1>2, <2>1, StoreUnstirred DEF DayInv
  <2>3. /\ event[k].team \in {Null, plan[p].event[k].team}
        /\ DayOf(event[k].at) = PlanDay(q, i) /\ DayOf(event[k].at) = PlanDay(p, k)
    BY <1>2, <2>2 DEF Clean, PlanDay
  <2>4. event[k].team = Null /\ plan[p].event[k].team = plan[q].event[i].team
    BY <1>2, <1>3, <2>2, <2>3
  <2>5. CASE p = q
    BY <1>2, <2>3, <2>4, <2>5 DEF DayInv, GivesOnce
  <2>6. CASE p # q
    <3>1. Free(k)
      BY <2>2, <2>4 DEF Free, Clean
    <3>2. Holds(q, k)
      BY <1>1, <1>2, <2>3, <3>1 DEF DayInv, AllOrNothing
    <3> QED  BY <1>5, <2>1, <2>6, <3>2, StoreUnstirred DEF DayInv
  <2> QED  BY <2>5, <2>6
<1>7. CASE event'[k].team = Null
  BY <1>2, <1>7
<1> QED  BY <1>4, <1>5, <1>6, <1>7, EventStep DEF DayInv

LEMMA NextDayOnce ==
    ASSUME TypeInv, DayInv, [Next]_vars
    PROVE  OnceADayKept'
<1> SUFFICES ASSUME NEW i \in Ids, NEW j \in Ids, i # j, event'[i].team # Null,
                    event'[i].team = event'[j].team, DayOf(event'[i].at) = DayOf(event'[j].at),
                    DayOf(event'[i].at) \notin stirred'
             PROVE  FALSE
  BY DEF OnceADayKept, DayOf
<1>1. /\ stirred \subseteq stirred' /\ ~Touched(i) /\ ~Touched(j)
      /\ ~Added(i) /\ ~Added(j)
  BY StepTouches DEF Touched, Added
<1>2. CASE event'[i] = event[i] /\ event'[j] = event[j]
  BY <1>1, <1>2 DEF DayInv, OnceADayKept
<1>3. ASSUME NEW a \in Ids, NEW b \in Ids, a # b, event'[a].team # Null,
             event'[a].team = event'[b].team, DayOf(event'[a].at) = DayOf(event'[b].at),
             DayOf(event'[a].at) \notin stirred', NEW p \in Plans, Stores(p, a)
      PROVE  FALSE
  <2>1. event'[b] = event[b] /\ Holds(p, a)
    BY <1>3, StoresRow
  <2>2. /\ Clean(p, a) /\ Exists(a) /\ event'[a].at = event[a].at
        /\ event'[a].team \in {event[a].team, plan[p].event[a].team}
    BY <1>3, StoreUnstirred DEF DayInv
  <2>3. DayOf(event[a].at) = DayOf(event[b].at) /\ DayOf(event[a].at) = PlanDay(p, a)
          /\ DayOf(event[a].at) \notin stirred
    BY <1>1, <1>3, <2>1, <2>2 DEF Clean, PlanDay
  <2>4. CASE event'[a].team = event[a].team
    BY <1>3, <2>1, <2>3, <2>4 DEF DayInv, OnceADayKept
  <2>5. CASE event'[a].team = plan[p].event[a].team
    BY <1>3, <2>1, <2>3, <2>5 DEF DayInv, GivesNew
  <2> QED  BY <2>2, <2>4, <2>5
<1>4. CASE \E p \in Plans : Stores(p, i)
  BY <1>3, <1>4
<1>5. CASE \E p \in Plans : Stores(p, j)
  BY <1>3, <1>5
<1>6. \A k \in {i, j} : event'[k] = event[k] \/ \E p \in Plans : Stores(p, k)
  BY <1>1, EventStep DEF DayInv
<1> QED  BY <1>2, <1>4, <1>5, <1>6

LEMMA NextDays == TypeInv /\ DayInv /\ [Next]_vars => DayInv'
<1> SUFFICES ASSUME TypeInv, DayInv, [Next]_vars PROVE DayInv'
  OBVIOUS
<1>1. OnceADayKept'
  BY NextDayOnce
<1>2. CASE \A q \in Plans : Kept(q)
  <2>1. GivesOnce'
    <3> SUFFICES ASSUME NEW q \in Plans
                 PROVE  /\ \A i, j \in Ids : i # j /\ plan'[q].event[i].team = plan'[q].event[j].team
                               /\ plan'[q].event[i].team # Null => PlanDay(q, i)' # PlanDay(q, j)'
                        /\ plan'[q].pc = "teams" => \A i \in Ids : plan'[q].event[i].team = Null
      BY DEF GivesOnce
    <3>1. CASE plan'[q].event = plan[q].event /\ (plan'[q].pc = "teams" => plan[q].pc = "teams")
      BY <3>1 DEF DayInv, GivesOnce, PlanDay
    <3>2. CASE \A i \in Ids : plan'[q].event[i] = NoRow
      BY <3>2, RowFields
    <3> QED  BY <1>2, <3>1, <3>2 DEF Kept
  <2> QED  BY <1>1, <1>2, <2>1, NextClean, NextAll, NextGives DEF DayInv
<1>3. CASE \E p \in Plans : GetProposal(p)
  <2>1. PICK p \in Plans : GetProposal(p)
    BY <1>3
  <2>2. event' = event /\ stirred' = stirred
    BY <2>1 DEF GetProposal, ghosts
  <2>3. \A q \in Plans \ {p}, i \in Ids : plan'[q] = plan[q] /\ (Holds(q, i)' <=> Holds(q, i))
    BY <2>1, ReadPlan DEF Holds
  <2>4. \A i \in Ids : /\ plan'[p].event[i] = IF Free(i) THEN event[i] ELSE NoRow
                       /\ plan'[p].event[i].team = Null
                       /\ Holds(p, i)' <=> Free(i)
    <3>1. \A i \in Ids : i \in EmptySlots <=> Free(i)
      BY DEF EmptySlots, Free
    <3> QED  BY <2>1, <3>1, ReadPlan, RowFields DEF Holds, Free, Exists
  <2>5. CleanOrDirty'
    <3> SUFFICES ASSUME NEW q \in Plans, NEW i \in Ids, Holds(q, i)'
                 PROVE  Clean(q, i)' \/ Dirty(q, i)'
      BY DEF CleanOrDirty
    <3>1. CASE q = p
      BY <2>2, <2>4, <3>1 DEF Clean, Free
    <3>2. CASE q # p
      BY <2>2, <2>3, <3>2 DEF Clean, Dirty, PlanDay, DayInv, CleanOrDirty
    <3> QED  BY <3>1, <3>2
  <2>6. AllOrNothing'
    <3> SUFFICES ASSUME NEW q \in Plans, NEW j \in Ids, Holds(q, j)', PlanDay(q, j)' \notin stirred',
                        NEW i \in Ids, Free(i)', DayOf(event'[i].at) = PlanDay(q, j)'
                 PROVE  Holds(q, i)'
      BY DEF AllOrNothing, DayOf
    <3>1. Free(i)
      BY <2>2 DEF Free, Exists
    <3>2. CASE q = p
      BY <2>4, <3>1, <3>2
    <3>3. CASE q # p
      BY <2>2, <2>3, <3>1, <3>3 DEF PlanDay, DayInv, AllOrNothing
    <3> QED  BY <3>2, <3>3
  <2>7. GivesNew'
    <3> SUFFICES ASSUME NEW q \in Plans, NEW i \in Ids, Holds(q, i)',
                        plan'[q].event[i].team # Null, PlanDay(q, i)' \notin stirred',
                        NEW k \in Ids \ {i}, event'[k].team = plan'[q].event[i].team,
                        DayOf(event'[k].at) = PlanDay(q, i)'
                 PROVE  FALSE
      BY DEF GivesNew, DayOf
    <3>1. q # p
      BY <2>4
    <3> QED  BY <2>2, <2>3, <3>1 DEF PlanDay, DayInv, GivesNew
  <2>8. GivesOnce'
    <3> SUFFICES ASSUME NEW q \in Plans
                 PROVE  /\ \A i, j \in Ids : i # j /\ plan'[q].event[i].team = plan'[q].event[j].team
                               /\ plan'[q].event[i].team # Null => PlanDay(q, i)' # PlanDay(q, j)'
                        /\ plan'[q].pc = "teams" => \A i \in Ids : plan'[q].event[i].team = Null
      BY DEF GivesOnce
    <3>1. CASE q = p
      BY <2>4, <3>1
    <3>2. CASE q # p
      BY <2>3, <3>2 DEF DayInv, GivesOnce, PlanDay
    <3> QED  BY <3>1, <3>2
  <2> QED  BY <1>1, <2>5, <2>6, <2>7, <2>8 DEF DayInv
<1>4. CASE \E p \in Plans : GetTeams(p)
  <2>1. PICK p \in Plans : GetTeams(p)
    BY <1>4
  <2>2. event' = event /\ stirred' = stirred
    BY <2>1 DEF GetTeams, ghosts
  <2>3. \A q \in Plans \ {p} : plan'[q] = plan[q]
    BY <2>1, TeamsPlan
  <2>4. PICK f \in Proposals(plan[p].event) :
           /\ DOMAIN f = {i \in Ids : plan[p].event[i] # NoRow}
           /\ \A i \in Ids :
                \/ plan[p].event[i] = NoRow /\ plan'[p].event[i] = NoRow
                \/ /\ i \in DOMAIN f /\ f[i] \in teams \union {Null}
                   /\ plan[p].event[i] \in Row /\ plan'[p].event[i] \in Row
                   /\ plan'[p].event[i] = [plan[p].event[i] EXCEPT !.team = f[i]]
                   /\ plan'[p].event[i].team = f[i]
                   /\ plan'[p].event[i].at = plan[p].event[i].at
                   /\ plan'[p].event[i].isActive = plan[p].event[i].isActive
    BY <2>1, TeamsPlan
  <2>5. plan[p].pc = "teams" /\ plan'[p].pc = "held" /\ \A i \in Ids : plan[p].event[i].team = Null
    BY <2>1, TeamsPlan DEF DayInv, GivesOnce
  <2>6. \A q \in Plans, i \in Ids : /\ plan'[q].event[i].at = plan[q].event[i].at
                                    /\ plan'[q].event[i].isActive = plan[q].event[i].isActive
                                    /\ Holds(q, i)' <=> Holds(q, i)
    <3> SUFFICES ASSUME NEW q \in Plans, NEW i \in Ids
                 PROVE  /\ plan'[q].event[i].at = plan[q].event[i].at
                        /\ plan'[q].event[i].isActive = plan[q].event[i].isActive
                        /\ Holds(q, i)' <=> Holds(q, i)
      OBVIOUS
    <3>1. CASE q = p
      BY <2>4, <2>5, <3>1, RowFields DEF Holds
    <3>2. CASE q # p
      BY <2>3, <3>2 DEF Holds
    <3> QED  BY <3>1, <3>2
  <2>7. \A q \in Plans, i \in Ids : PlanDay(q, i)' = PlanDay(q, i)
    BY <2>6 DEF PlanDay
  <2>8. CleanOrDirty'
    <3> SUFFICES ASSUME NEW q \in Plans, NEW i \in Ids, Holds(q, i)'
                 PROVE  Clean(q, i)' \/ Dirty(q, i)'
      BY DEF CleanOrDirty
    <3>1. Clean(q, i) \/ Dirty(q, i)
      BY <2>6 DEF DayInv, CleanOrDirty
    <3>2. event[i].team \in {Null, plan[q].event[i].team} =>
             event[i].team \in {Null, plan'[q].event[i].team}
      BY <2>3, <2>5
    <3> QED  BY <2>2, <2>6, <2>7, <3>1, <3>2 DEF Clean, Dirty
  <2>9. AllOrNothing'
    <3> SUFFICES ASSUME NEW q \in Plans, NEW j \in Ids, Holds(q, j)', PlanDay(q, j)' \notin stirred',
                        NEW i \in Ids, Free(i)', DayOf(event'[i].at) = PlanDay(q, j)'
                 PROVE  Holds(q, i)'
      BY DEF AllOrNothing, DayOf
    <3>1. Free(i)
      BY <2>2 DEF Free, Exists
    <3> QED  BY <2>2, <2>6, <2>7, <3>1 DEF DayInv, AllOrNothing
  <2>10. \A i \in Ids : plan'[p].event[i].team # Null =>
            /\ i \in DOMAIN f /\ f[i] = plan'[p].event[i].team /\ f[i] # Null
            /\ \A j \in DOMAIN f : i # j /\ f[i] = f[j] => PlanDay(p, i) # PlanDay(p, j)
            /\ \A j \in Ids : event[j].team = f[i] => PlanDay(p, i) # DayOf(event[j].at)
    <3> SUFFICES ASSUME NEW i \in Ids, plan'[p].event[i].team # Null
                 PROVE  /\ i \in DOMAIN f /\ f[i] = plan'[p].event[i].team /\ f[i] # Null
                        /\ \A j \in DOMAIN f : i # j /\ f[i] = f[j] => PlanDay(p, i) # PlanDay(p, j)
                        /\ \A j \in Ids : event[j].team = f[i] => PlanDay(p, i) # DayOf(event[j].at)
      OBVIOUS
    <3>1. i \in DOMAIN f /\ f[i] = plan'[p].event[i].team
      BY <2>4, RowFields
    <3> QED  BY <3>1 DEF Proposals, PlanDay
  <2>11. GivesNew'
    <3> SUFFICES ASSUME NEW q \in Plans, NEW i \in Ids, Holds(q, i)',
                        plan'[q].event[i].team # Null, PlanDay(q, i)' \notin stirred',
                        NEW k \in Ids \ {i}, event'[k].team = plan'[q].event[i].team,
                        DayOf(event'[k].at) = PlanDay(q, i)'
                 PROVE  FALSE
      BY DEF GivesNew, DayOf
    <3>1. CASE q = p
      BY <2>2, <2>7, <2>10, <3>1
    <3>2. CASE q # p
      BY <2>2, <2>3, <2>6, <2>7, <3>2 DEF DayInv, GivesNew
    <3> QED  BY <3>1, <3>2
  <2>12. GivesOnce'
    <3> SUFFICES ASSUME NEW q \in Plans
                 PROVE  /\ \A i, j \in Ids : i # j /\ plan'[q].event[i].team = plan'[q].event[j].team
                               /\ plan'[q].event[i].team # Null => PlanDay(q, i)' # PlanDay(q, j)'
                        /\ plan'[q].pc = "teams" => \A i \in Ids : plan'[q].event[i].team = Null
      BY DEF GivesOnce
    <3>1. CASE q = p
      BY <2>5, <2>7, <2>10, <3>1
    <3>2. CASE q # p
      BY <2>3, <2>7, <3>2 DEF DayInv, GivesOnce
    <3> QED  BY <3>1, <3>2
  <2> QED  BY <1>1, <2>8, <2>9, <2>11, <2>12 DEF DayInv
<1> QED  BY <1>2, <1>3, <1>4, StepKept

\* No team has two events on a day that nobody edited and that did not change while a
\* planner held it, however saves of proposals cross (scheduler.service.ts:26-44).
THEOREM NeverTwiceADayKept == Spec => []OnceADayKept
<1>1. Init => TypeInv /\ DayInv
  BY InitType, InitDays
<1>2. (TypeInv /\ DayInv) /\ [Next]_vars => (TypeInv /\ DayInv)'
  BY NextType, NextDays
<1>3. DayInv => OnceADayKept
  BY DEF DayInv
<1> QED  BY <1>1, <1>2, <1>3, PTL DEF Spec

-----------------------------------------------------------------------------
(* What a save changes.                                                    *)

\* A step of another proposal leaves this one alone.
LEMMA OthersPlan ==
    ASSUME TypeInv, NEW p \in Plans,
           \E q \in Plans \ {p} : \/ GetProposal(q) \/ GetTeams(q) \/ SaveSchedule(q)
                                  \/ \E k \in Ids : Compares(q, k) \/ Stores(q, k) \/ Passes(q, k)
    PROVE  plan'[p] = plan[p]
<1>1. PICK q \in Plans \ {p} : \/ GetProposal(q) \/ GetTeams(q) \/ SaveSchedule(q)
                               \/ \E k \in Ids : Compares(q, k) \/ Stores(q, k) \/ Passes(q, k)
  OBVIOUS
<1>2. CASE GetProposal(q)
  BY <1>2, ReadPlan
<1>3. CASE GetTeams(q)
  BY <1>3, TeamsPlan
<1>4. CASE SaveSchedule(q)
  BY <1>4, SavePlan
<1>5. ASSUME NEW k \in Ids, Compares(q, k) PROVE plan'[p] = plan[p]
  BY <1>5, ComparedPlan
<1>6. ASSUME NEW k \in Ids, Stores(q, k) \/ Passes(q, k) PROVE plan'[p] = plan[p]
  <2>1. \A r \in Plans \ {q} : plan'[r] = plan[r]
    BY <1>6 DEF Stores, Passes, Ended
  <2> QED  BY <2>1
<1> QED  BY <1>1, <1>2, <1>3, <1>4, <1>5, <1>6

\* The event is in the table as it was read, without a team.
AsRead(p, i) ==
    /\ event[i].at = plan[p].event[i].at
    /\ event[i].isActive = plan[p].event[i].isActive
    /\ event[i].team = Null
    /\ event[i] # NoRow

\* How far a save has come tells what is in the table, if nobody else changed it.
Agrees(p, i) ==
    /\ plan[p].task[i] \in {"none", "load", "update"} => AsRead(p, i)
    /\ plan[p].task[i] # "insert"
    /\ plan[p].task[i] = "update" => plan[p].cols[i] = {"team"}
    /\ plan[p].task[i] = "done" => event[i] = plan[p].event[i]
    /\ plan[p].task[i] = "failed" => /\ plan[p].event[i].team \notin teams \union {Null}
                                     /\ plan[p].answer = "error"

LateInv ==
    \A p \in Plans, i \in Ids : Holds(p, i) =>
        /\ plan[p].pc = "saving" => plan[p].task[i] # "none"
        /\ <<p, i>> \notin late => Agrees(p, i)

\* An event that others change is late for whoever holds it.
LEMMA StepLate ==
    ASSUME TypeInv, [Next]_vars, NEW q \in Plans, NEW i \in Ids, Holds(q, i), <<q, i>> \notin late'
    PROVE  <<q, i>> \notin late /\ teams' \subseteq teams /\ (event'[i] = event[i] \/ Stores(q, i))
<1> USE DEF Holds
<1>1. CASE \/ \E m \in Makers : GenerateSaturdaySlots(m)
           \/ \E p \in Plans : GetProposal(p) \/ GetTeams(p) \/ SaveSchedule(p)
           \/ \E p \in Plans, k \in Ids : Compares(p, k) \/ Passes(p, k)
           \/ Crash \/ UNCHANGED vars
  <2>1. event' = event /\ late \subseteq late' /\ teams' = teams
    BY <1>1 DEF GenerateSaturdaySlots, GetProposal, GetTeams, SaveSchedule, Compares, Passes,
                Crash, vars, ghosts
  <2> QED  BY <2>1
<1>2. CASE \E m \in Makers : SaveSlots(m)
  <2>1. PICK m \in Makers : SaveSlots(m)
    BY <1>2
  <2>2. event'[i] = event[i]
    BY <2>1, SlotRows
  <2> QED  BY <2>1, <2>2 DEF SaveSlots
<1>3. CASE \E p \in Plans, k \in Ids : Stores(p, k)
  <2>1. PICK p \in Plans, k \in Ids : Stores(p, k)
    BY <1>3
  <2>2. late' = late \union {<<r, k>> : r \in {r \in Plans \ {p} : Holds(r, k)}} /\ teams' = teams
    BY <2>1 DEF Stores, Changes
  <2>3. i # k => event'[i] = event[i]
    BY <2>1, StoresRow
  <2>4. i = k => q = p
    BY <2>2
  <2> QED  BY <2>1, <2>2, <2>3, <2>4
<1>4. CASE \E k \in Ids : \E row \in EditedBy(k) : EditEvent(k, row)
  <2>1. PICK k \in Ids : \E row \in EditedBy(k) : EditEvent(k, row)
    BY <1>4
  <2>2. PICK row \in EditedBy(k) : EditEvent(k, row)
    BY <2>1
  <2>3. \A j \in Ids \ {k} : event'[j] = event[j]
    BY <2>2, EditedRow
  <2>4. late' = late \union {<<r, k>> : r \in {r \in Plans : Holds(r, k)}} /\ teams' = teams
    BY <2>2 DEF EditEvent
  <2> QED  BY <2>3, <2>4
<1>5. CASE \E t \in Teams : DeleteTeam(t)
  <2>1. PICK t \in Teams : DeleteTeam(t)
    BY <1>5
  <2>2. late' = late \union {x \in Plans \X Ids : Holds(x[1], x[2]) /\ event[x[2]].team = t}
    BY <2>1 DEF DeleteTeam
  <2>3. event[i].team # t
    BY <2>2
  <2> QED  BY <2>1, <2>2, <2>3, DeletedRows
<1>6. CASE \E row \in Addable : CreateEvent(row)
  <2>1. PICK row \in Addable : CreateEvent(row)
    BY <1>6
  <2>2. PICK k \in Ids : Adds(row, k)
    BY <2>1, AddedRow
  <2>3. k # i
    BY <2>2 DEF Adds
  <2> QED  BY <2>1, <2>2, <2>3 DEF Adds, CreateEvent
<1> QED  BY <1>1, <1>2, <1>3, <1>4, <1>5, <1>6, Steps DEF Moves

\* The step of one save: every event of the proposal that nobody else changed is where
\* its save has come to, the one just ended included.
LEMMA SaveStep ==
    ASSUME TypeInv, LateInv, [Next]_vars, NEW p \in Plans, NEW k \in Ids,
           Stores(p, k) \/ Passes(p, k),
           NEW i \in Ids, Holds(p, i), <<p, i>> \notin late'
    PROVE  Agrees(p, i)' /\ (i = k => plan'[p].task[i] \in {"done", "failed"})
<1>1. /\ Agrees(p, i) /\ teams' \subseteq teams /\ (event'[i] = event[i] \/ Stores(p, i))
      /\ plan[p].pc = "saving" /\ plan'[p].event = plan[p].event
      /\ plan[p].task[i] # "none" /\ plan[p].event[i] \in Row
  <2>1. plan[p].pc = "saving" /\ plan'[p].event = plan[p].event
    BY DEF Stores, Passes, Ended
  <2> QED  BY <2>1, StepLate, HeldRow DEF LateInv, Holds
<1>2. CASE i # k
  <2>1. /\ plan'[p].task[i] = plan[p].task[i] /\ plan'[p].cols[i] = plan[p].cols[i]
        /\ plan[p].answer = "error" => plan'[p].answer = "error"
    BY <1>2 DEF Stores, Passes, Ended
  <2>2. event'[i] = event[i]
    <3>1. CASE Stores(p, k)
      BY <1>2, <3>1, StoresRow
    <3>2. CASE Passes(p, k)
      BY <3>2 DEF Passes
    <3> QED  BY <3>1, <3>2
  <2> QED  BY <1>1, <1>2, <2>1, <2>2 DEF Agrees, AsRead
<1>3. CASE i = k /\ Stores(p, k)
  <2>1. plan[p].task[i] = "update" /\ plan[p].cols[i] = {"team"} /\ AsRead(p, i)
    BY <1>1, <1>3 DEF Stores, Agrees
  <2>2. event[i] \in Row
    BY <2>1, EventTyped DEF TypeInv, AsRead, Exists
  <2>3. event'[i] = Written(event[i], plan[p].event[i], plan[p].cols[i])
    <3>1. event' = [event EXCEPT ![i] = Written(@, plan[p].event[i], plan[p].cols[i])]
      BY <1>3, <2>1 DEF Stores
    <3> QED  BY <3>1, EventTyped DEF TypeInv
  <2>4. /\ event'[i].at = event[i].at /\ event'[i].team = plan[p].event[i].team
        /\ event'[i].isActive = event[i].isActive /\ event'[i] \in Row
    BY <1>1, <2>1, <2>2, <2>3, WrittenTyped
  <2>5. event'[i] = plan[p].event[i]
    BY <1>1, <2>1, <2>4, RowsEqual DEF AsRead
  <2>6. plan'[p].task[i] = "done"
    BY <1>3 DEF Stores, Ended
  <2> QED  BY <1>1, <2>5, <2>6 DEF Agrees
<1>4. CASE i = k /\ Passes(p, k)
  <2>1. event' = event /\ teams' = teams
    BY <1>4 DEF Passes
  <2>2. CASE Ended(p, i, "failed") /\ plan[p].event[i].team \notin teams \union {Null}
    BY <1>1, <2>1, <2>2 DEF Agrees, Ended
  <2>3. CASE plan[p].task[i] = "insert"
    BY <1>1, <2>3 DEF Agrees
  <2>4. CASE /\ Ended(p, i, "done") /\ plan[p].task[i] = "load"
             /\ Exists(i) /\ Diff(plan[p].event[i], event[i]) = {}
    <3>1. event[i] \in Row
      BY <2>4, EventTyped DEF TypeInv
    <3>2. /\ plan[p].event[i].at = event[i].at /\ plan[p].event[i].team = event[i].team
          /\ plan[p].event[i].isActive = event[i].isActive
      BY <2>4 DEF Diff, Columns
    <3>3. event[i] = plan[p].event[i]
      BY <1>1, <3>1, <3>2, RowsEqual
    <3>4. plan'[p].task[i] = "done"
      BY <2>4 DEF Ended
    <3> QED  BY <1>1, <2>1, <3>3, <3>4 DEF Agrees
  <2>5. CASE plan[p].task[i] = "update" /\ ~Exists(i)
    BY <1>1, <2>5 DEF Agrees, AsRead, Exists
  <2> QED  BY <1>4, <2>2, <2>3, <2>4, <2>5 DEF Passes
<1> QED  BY <1>2, <1>3, <1>4

LEMMA InitLate == Init => LateInv
<1> SUFFICES ASSUME Init PROVE LateInv
  OBVIOUS
<1>1. \A p \in Plans : plan[p].pc = "idle"
  BY NoPlanTyped DEF Init
<1> QED  BY <1>1 DEF LateInv, Holds

LEMMA NextLate == TypeInv /\ LateInv /\ [Next]_vars => LateInv'
<1> SUFFICES ASSUME TypeInv, LateInv, [Next]_vars, NEW p \in Plans, NEW i \in Ids, Holds(p, i)'
             PROVE  /\ plan'[p].pc = "saving" => plan'[p].task[i] # "none"
                    /\ <<p, i>> \notin late' => Agrees(p, i)'
  BY DEF LateInv
<1>1. ASSUME Holds(p, i), plan'[p].event = plan[p].event, plan'[p].task[i] = plan[p].task[i],
             plan'[p].cols[i] = plan[p].cols[i], ~Stores(p, i),
             plan'[p].pc = "saving" => plan[p].pc = "saving",
             plan[p].answer = "error" => plan'[p].answer = "error"
      PROVE  /\ plan'[p].pc = "saving" => plan'[p].task[i] # "none"
             /\ <<p, i>> \notin late' => Agrees(p, i)'
  <2>1. plan'[p].pc = "saving" => plan'[p].task[i] # "none"
    BY <1>1 DEF LateInv
  <2>2. ASSUME <<p, i>> \notin late' PROVE Agrees(p, i)'
    <3>1. <<p, i>> \notin late /\ event'[i] = event[i] /\ teams' \subseteq teams
      BY <1>1, <2>2, StepLate
    <3>2. Agrees(p, i)
      BY <1>1, <3>1 DEF LateInv
    <3> QED  BY <1>1, <3>1, <3>2 DEF Agrees, AsRead
  <2> QED  BY <2>1, <2>2
<1>2. CASE plan'[p] = plan[p]
  <2>1. ~Stores(p, i)
    BY <1>2 DEF Stores, Ended
  <2> QED  BY <1>1, <1>2, <2>1 DEF Holds
<1>3. CASE GetProposal(p)
  <2>1. /\ event' = event /\ late' = late /\ plan'[p].pc = "teams" /\ plan'[p].task[i] = "none"
        /\ plan'[p].event[i] = IF i \in EmptySlots THEN event[i] ELSE NoRow
    BY <1>3, ReadPlan DEF GetProposal, ghosts
  <2>2. i \in EmptySlots /\ plan'[p].event[i] = event[i]
    BY <2>1 DEF Holds
  <2>3. AsRead(p, i)'
    BY <2>1, <2>2 DEF AsRead, EmptySlots, Exists
  <2> QED  BY <2>1, <2>3 DEF Agrees
<1>4. CASE GetTeams(p)
  <2>1. /\ event' = event /\ late' = late /\ plan'[p].pc = "held" /\ plan[p].pc = "teams"
        /\ plan'[p].task = plan[p].task
    BY <1>4, TeamsPlan DEF GetTeams, ghosts
  <2>2. /\ plan[p].event[i] # NoRow /\ plan'[p].event[i].at = plan[p].event[i].at
        /\ plan'[p].event[i].isActive = plan[p].event[i].isActive
    BY <1>4, TeamsPlan, RowFields DEF Holds
  <2>3. Holds(p, i) /\ plan[p].task[i] = "none"
    BY <2>1, <2>2 DEF Holds, TypeInv, HeldOnly
  <2>4. <<p, i>> \notin late => AsRead(p, i)
    BY <2>3 DEF LateInv, Agrees
  <2>5. <<p, i>> \notin late' => AsRead(p, i)'
    BY <2>1, <2>2, <2>4 DEF AsRead
  <2>6. plan'[p].task[i] = "none"
    BY <2>1, <2>3
  <2> QED  BY <2>1, <2>5, <2>6 DEF Agrees
<1>5. CASE SaveSchedule(p)
  <2>a. event' = event /\ late' = late
    BY <1>5 DEF SaveSchedule, ghosts
  <2>1. /\ event' = event /\ late' = late /\ plan[p].pc = "held" /\ plan'[p].event = plan[p].event
        /\ plan'[p].task[i] = (IF Holds(p, i) THEN "load" ELSE "none")
    BY <1>5, <2>a, SavePlan
  <2>2. Holds(p, i) /\ plan[p].task[i] = "none" /\ plan'[p].task[i] = "load"
    BY <2>1 DEF Holds, TypeInv, HeldOnly
  <2>3. <<p, i>> \notin late => AsRead(p, i)
    BY <2>2 DEF LateInv, Agrees
  <2>4. <<p, i>> \notin late' => AsRead(p, i)'
    BY <2>1, <2>3 DEF AsRead
  <2> QED  BY <2>2, <2>4 DEF Agrees
<1>6. CASE \E k \in Ids : Compares(p, k)
  <2>1. PICK k \in Ids : Compares(p, k)
    BY <1>6
  <2>2. /\ plan'[p].event = plan[p].event /\ plan[p].pc = "saving" /\ plan'[p].pc = "saving"
        /\ \A j \in Ids \ {k} : plan'[p].task[j] = plan[p].task[j] /\ plan'[p].cols[j] = plan[p].cols[j]
        /\ plan[p].task[k] = "load" /\ plan'[p].task[k] \in {"update", "insert"}
        /\ event' = event /\ late' = late /\ teams' = teams /\ plan'[p].answer = plan[p].answer
    BY <2>1, ComparedPlan DEF Compares, ghosts
  <2>3. Holds(p, i)
    BY <2>2 DEF Holds
  <2>4. CASE i # k
    <3>1. ~Stores(p, i)
      BY <2>1, <2>2 DEF Stores, Ended
    <3> QED  BY <1>1, <2>2, <2>3, <2>4, <3>1
  <2>5. CASE i = k
    <3>1. plan'[p].task[i] # "none"
      BY <2>2, <2>5
    <3>2. ASSUME <<p, i>> \notin late' PROVE Agrees(p, i)'
      <4>1. AsRead(p, i)
        BY <2>2, <2>3, <2>5, <3>2 DEF LateInv, Agrees
      <4>2. plan'[p].task[i] = "update" /\ plan'[p].cols[i] = Diff(plan[p].event[i], event[i])
              /\ plan'[p].cols[i] # {}
        BY <2>1, <2>5, <4>1 DEF Compares, AsRead, Exists
      <4>3. Diff(plan[p].event[i], event[i]) \subseteq {"team"}
        BY <4>1 DEF AsRead, Diff, Columns
      <4>4. plan'[p].cols[i] = {"team"}
        BY <4>2, <4>3
      <4>5. AsRead(p, i)'
        BY <2>2, <4>1 DEF AsRead
      <4> QED  BY <4>2, <4>4, <4>5 DEF Agrees
    <3> QED  BY <3>1, <3>2
  <2> QED  BY <2>4, <2>5
<1>7. CASE \E k \in Ids : Stores(p, k) \/ Passes(p, k)
  <2>1. PICK k \in Ids : Stores(p, k) \/ Passes(p, k)
    BY <1>7
  <2>2. /\ plan[p].pc = "saving" /\ plan'[p].event = plan[p].event
        /\ \A j \in Ids \ {k} : plan'[p].task[j] = plan[p].task[j]
        /\ plan'[p].task[k] # "none"
    BY <2>1 DEF Stores, Passes, Ended
  <2>3. Holds(p, i)
    BY <2>2 DEF Holds
  <2>4. plan'[p].task[i] # "none"
    BY <2>2, <2>3 DEF LateInv
  <2> QED  BY <2>1, <2>3, <2>4, SaveStep
<1>8. CASE Crash
  <2>1. plan'[p] = plan[p] \/ plan'[p].pc = "lost"
    BY <1>8, CrashPlan
  <2> QED  BY <1>2, <2>1 DEF Holds
<1>9. CASE \/ \E m \in Makers : GenerateSaturdaySlots(m) \/ SaveSlots(m)
           \/ \E k \in Ids : \E row \in EditedBy(k) : EditEvent(k, row)
           \/ \E row \in Addable : CreateEvent(row)
           \/ \E t \in Teams : DeleteTeam(t)
           \/ UNCHANGED vars
  <2>1. plan'[p] = plan[p]
    BY <1>9 DEF GenerateSaturdaySlots, SaveSlots, EditEvent, CreateEvent, DeleteTeam, vars
  <2> QED  BY <1>2, <2>1
<1>10. CASE \E q \in Plans \ {p} : \/ GetProposal(q) \/ GetTeams(q) \/ SaveSchedule(q)
                                   \/ \E k \in Ids : Compares(q, k) \/ Stores(q, k) \/ Passes(q, k)
  <2>1. plan'[p] = plan[p]
    BY <1>10, OthersPlan
  <2> QED  BY <1>2, <2>1
<1> QED
  BY <1>3, <1>4, <1>5, <1>6, <1>7, <1>8, <1>9, <1>10, Steps DEF Moves

LEMMA LateAlways == Spec => [](TypeInv /\ LateInv)
<1>1. Init => TypeInv /\ LateInv
  BY InitType, InitLate
<1>2. (TypeInv /\ LateInv) /\ [Next]_vars => (TypeInv /\ LateInv)'
  BY NextType, NextLate
<1> QED  BY <1>1, <1>2, PTL DEF Spec
\* A save of an event is over in that save's own step.
LEMMA SavedBy ==
    ASSUME TypeInv, [Next]_vars, NEW p \in Plans, NEW i \in Ids, Saved(p, i)
    PROVE  Holds(p, i) /\ (Stores(p, i) \/ Passes(p, i))
<1>1. plan[p].task[i] \in {"update", "insert"} /\ plan'[p].task[i] = "done"
  BY DEF Saved
<1>2. Holds(p, i) /\ plan[p].pc = "saving"
  BY <1>1 DEF TypeInv, HeldOnly, Open, Holds
<1>3. CASE plan'[p] = plan[p]
  BY <1>1, <1>3
<1>4. CASE GetProposal(p) \/ GetTeams(p) \/ SaveSchedule(p)
  BY <1>2, <1>4 DEF GetProposal, GetTeams, SaveSchedule
<1>5. CASE \E k \in Ids : Compares(p, k)
  <2>1. PICK k \in Ids : Compares(p, k)
    BY <1>5
  <2>2. /\ \A j \in Ids \ {k} : plan'[p].task[j] = plan[p].task[j]
        /\ plan'[p].task[k] \in {"update", "insert"}
    BY <2>1, ComparedPlan
  <2> QED  BY <1>1, <2>2
<1>6. CASE \E k \in Ids : Stores(p, k) \/ Passes(p, k)
  <2>1. PICK k \in Ids : Stores(p, k) \/ Passes(p, k)
    BY <1>6
  <2>2. \A j \in Ids \ {k} : plan'[p].task[j] = plan[p].task[j]
    BY <2>1 DEF Stores, Passes, Ended
  <2>3. i = k
    BY <1>1, <2>2
  <2> QED  BY <1>2, <2>1, <2>3
<1>7. CASE Crash
  <2>1. plan'[p] = plan[p] \/ plan'[p].task[i] = "none"
    BY <1>7, CrashPlan
  <2> QED  BY <1>1, <2>1
<1>8. CASE \/ \E m \in Makers : GenerateSaturdaySlots(m) \/ SaveSlots(m)
           \/ \E k \in Ids : \E row \in EditedBy(k) : EditEvent(k, row)
           \/ \E row \in Addable : CreateEvent(row)
           \/ \E t \in Teams : DeleteTeam(t)
           \/ UNCHANGED vars
  <2>1. plan'[p] = plan[p]
    BY <1>8 DEF GenerateSaturdaySlots, SaveSlots, EditEvent, CreateEvent, DeleteTeam, vars
  <2> QED  BY <1>3, <2>1
<1>9. CASE \E q \in Plans \ {p} : \/ GetProposal(q) \/ GetTeams(q) \/ SaveSchedule(q)
                                  \/ \E k \in Ids : Compares(q, k) \/ Stores(q, k) \/ Passes(q, k)
  <2>1. plan'[p] = plan[p]
    BY <1>9, OthersPlan
  <2> QED  BY <1>3, <2>1
<1> QED
  BY <1>4, <1>5, <1>6, <1>7, <1>8, <1>9, Steps DEF Moves

\* What a save of an untouched event writes is the team.
LEMMA SavedRow ==
    ASSUME TypeInv, LateInv, [Next]_vars, NEW p \in Plans, NEW i \in Ids,
           Saved(p, i), <<p, i>> \notin late
    PROVE  event[i].team = Null /\ event'[i] = [event[i] EXCEPT !.team = plan[p].event[i].team]
<1>1. Holds(p, i) /\ Agrees(p, i) /\ plan[p].task[i] \in {"update", "insert"}
  BY SavedBy DEF LateInv, Saved
<1>2. AsRead(p, i) /\ plan[p].cols[i] = {"team"} /\ plan[p].task[i] = "update"
  BY <1>1 DEF Agrees
<1>3. event[i] \in Row /\ plan[p].event[i] \in Row
  <2>1. plan[p].event[i] # NoRow /\ event[i] # NoRow
    BY <1>1, <1>2 DEF Holds, AsRead
  <2> QED  BY <2>1, EventTyped, HeldRow DEF TypeInv, Exists
<1>4. CASE Stores(p, i)
  <2>1. event'[i] = Written(event[i], plan[p].event[i], plan[p].cols[i])
    <3>1. event' = [event EXCEPT ![i] = Written(@, plan[p].event[i], plan[p].cols[i])]
      BY <1>2, <1>4 DEF Stores
    <3> QED  BY <3>1, EventTyped DEF TypeInv
  <2>2. /\ event'[i].at = event[i].at /\ event'[i].team = plan[p].event[i].team
        /\ event'[i].isActive = event[i].isActive /\ event'[i] \in Row
    BY <1>2, <1>3, <2>1, WrittenTyped
  <2> DEFINE new == [event[i] EXCEPT !.team = plan[p].event[i].team]
  <2>3. /\ new.at = event[i].at /\ new.team = plan[p].event[i].team
        /\ new.isActive = event[i].isActive /\ new \in Row
    BY <1>3, RowFields, RowExcept DEF Row
  <2> HIDE DEF new
  <2>4. event'[i] = new
    BY <2>2, <2>3, RowsEqual
  <2> QED  BY <1>2, <2>4 DEF AsRead, new
<1>5. CASE Passes(p, i)
  <2>1. plan'[p].task[i] = "done"
    BY DEF Saved
  <2>2. ~Exists(i)
    BY <1>2, <1>5, <2>1 DEF Passes, Ended
  <2> QED  BY <1>2, <2>2 DEF AsRead, Exists
<1> QED  BY <1>4, <1>5, SavedBy

\* Saving a schedule gives teams to events that have none and changes nothing else of
\* them, unless others changed them while the planner held them (scheduler.service.ts:43-44).
THEOREM SavesOnlyAssign == Spec => SaveOnlyAssigns
<1> DEFINE Right == \A p \in Plans, i \in Ids : Saved(p, i) /\ <<p, i>> \notin late =>
                       event[i].team = Null
                       /\ event'[i] = [event[i] EXCEPT !.team = plan[p].event[i].team]
<1>1. TypeInv /\ LateInv /\ [Next]_vars => [Right]_vars
  BY SavedRow
<1> QED  BY <1>1, LateAlways, PTL DEF Spec, SaveOnlyAssigns

\* The end of a request is the end of one of its saves, and of all of them.
LEMMA LastSave ==
    ASSUME TypeInv, [Next]_vars, NEW p \in Plans,
           plan[p].pc = "saving", plan'[p].pc = "over"
    PROVE  /\ \E k \in Ids : Stores(p, k) \/ Passes(p, k)
           /\ \A j \in Ids : plan'[p].task[j] \notin Open
<1>1. CASE plan'[p] = plan[p]
  BY <1>1
<1>2. CASE GetProposal(p) \/ GetTeams(p) \/ SaveSchedule(p)
  BY <1>2 DEF GetProposal, GetTeams, SaveSchedule
<1>3. CASE \E k \in Ids : Compares(p, k)
  BY <1>3, ComparedPlan
<1>4. CASE \E k \in Ids : Stores(p, k) \/ Passes(p, k)
  <2>1. PICK k \in Ids : Stores(p, k) \/ Passes(p, k)
    BY <1>4
  <2>2. \A j \in Ids : plan'[p].task[j] \notin Open
    BY <2>1 DEF Stores, Passes, Ended
  <2> QED  BY <1>4, <2>2
<1>5. CASE Crash
  BY <1>5, CrashPlan
<1>6. CASE \/ \E m \in Makers : GenerateSaturdaySlots(m) \/ SaveSlots(m)
           \/ \E k \in Ids : \E row \in EditedBy(k) : EditEvent(k, row)
           \/ \E row \in Addable : CreateEvent(row)
           \/ \E t \in Teams : DeleteTeam(t)
           \/ UNCHANGED vars
  <2>1. plan'[p] = plan[p]
    BY <1>6 DEF GenerateSaturdaySlots, SaveSlots, EditEvent, CreateEvent, DeleteTeam, vars
  <2> QED  BY <1>1, <2>1
<1>7. CASE \E q \in Plans \ {p} : \/ GetProposal(q) \/ GetTeams(q) \/ SaveSchedule(q)
                                  \/ \E k \in Ids : Compares(q, k) \/ Stores(q, k) \/ Passes(q, k)
  <2>1. plan'[p] = plan[p]
    BY <1>7, OthersPlan
  <2> QED  BY <1>1, <2>1
<1> QED
  BY <1>2, <1>3, <1>4, <1>5, <1>6, <1>7, Steps DEF Moves

\* A save that fails fails for its own event: when the last is over the others are
\* stored, and whoever lacks his was told of an error (scheduler.service.ts:43-44).
THEOREM FailuresAreLocal == Spec => FailureIsLocal
<1> DEFINE Local == \A p \in Plans : plan[p].pc = "saving" /\ plan'[p].pc = "over" =>
              \A i \in Ids : plan[p].event[i] = NoRow \/ <<p, i>> \in late'
                             \/ plan[p].event[i] = event'[i]
                             \/ /\ plan[p].event[i].team \notin teams \union {Null}
                                /\ plan'[p].answer = "error"
<1>1. ASSUME TypeInv, LateInv, [Next]_vars PROVE Local
  <2> SUFFICES ASSUME NEW p \in Plans, plan[p].pc = "saving", plan'[p].pc = "over",
                      NEW i \in Ids, plan[p].event[i] # NoRow, <<p, i>> \notin late'
               PROVE  \/ plan[p].event[i] = event'[i]
                      \/ /\ plan[p].event[i].team \notin teams \union {Null}
                         /\ plan'[p].answer = "error"
    OBVIOUS
  <2>1. PICK k \in Ids : Stores(p, k) \/ Passes(p, k)
    BY <1>1, LastSave
  <2>2. Holds(p, i) /\ plan[p].task[i] # "none"
    BY <1>1 DEF Holds, LateInv
  <2>3. Agrees(p, i)' /\ (i = k => plan'[p].task[i] \in {"done", "failed"})
    BY <1>1, <2>1, <2>2, SaveStep
  <2>4. /\ plan'[p].event = plan[p].event /\ teams' = teams
        /\ \A j \in Ids \ {k} : plan'[p].task[j] = plan[p].task[j]
    BY <2>1 DEF Stores, Passes, Ended
  <2>5. plan'[p].task[i] # "none" /\ plan'[p].task[i] \notin Open
    BY <1>1, <2>2, <2>3, <2>4, LastSave
  <2>6. plan'[p].task[i] \in TaskPcs
    <3>1. plan' \in [Plans -> Plan]
      BY <1>1, NextType DEF TypeInv, TypeOK
    <3> QED  BY <3>1 DEF Plan
  <2>7. plan'[p].task[i] \in {"done", "failed"}
    BY <2>5, <2>6 DEF TaskPcs, Open
  <2> QED  BY <2>3, <2>4, <2>7 DEF Agrees
<1>2. TypeInv /\ LateInv /\ [Next]_vars => [Local]_vars
  BY <1>1
<1> QED  BY <1>2, LateAlways, PTL DEF Spec, FailureIsLocal
=============================================================================

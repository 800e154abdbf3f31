------------------------------- MODULE Proposal -------------------------------
(***************************************************************************)
(* generateScheduleProposals (proposal.service.ts): divides the empty      *)
(* slots of a year over the teams in three passes: wishes in rounds, then  *)
(* teams below their quota, then whoever has the fewest events.            *)
(*                                                                         *)
(* What a pass sees are objects.  The slots come from one query and the    *)
(* wishes from another (scheduler.service.ts), so the event of a wish is   *)
(* an object of its own, one for each wish.                                *)
(***************************************************************************)
EXTENDS Integers, Sequences, FiniteSets

CONSTANTS
    Teams,
    Slots,          \* events of the year that are active and have no team
    Stored,         \* events that have a team, of any year
    Day,            \* the start of each slot and stored event
    Orders,         \* orders the shuffle may leave the slots in (bound)
    MaxWishes,      \* registrations of one team (bound)
    NoTeam

Days == {Day[e] : e \in Slots \union Stored}

ASSUME TeamsAssumption  == IsFiniteSet(Teams)
ASSUME SlotsAssumption  == IsFiniteSet(Slots) /\ IsFiniteSet(Stored) /\ Slots \intersect Stored = {}
ASSUME DayAssumption    == DOMAIN Day = Slots \union Stored
ASSUME OrdersAssumption == \A o \in Orders : o \in Seq(Slots) /\ {o[i] : i \in DOMAIN o} = Slots
ASSUME NoTeamAssumption == NoTeam \notin Teams

\* An event object: the event, and the team whose wish it was loaded for.
Objects == (Teams \union {NoTeam}) \X (Slots \union Stored)
DayOf(o) == Day[o[2]]

Plain(e)   == <<NoTeam, e>>
Copy(t, e) == <<t, e>>
StoredObjects == {Plain(e) : e \in Stored}

Wishable == Slots \union Stored
WishLists == {w \in UNION {[1 .. n -> Wishable] : n \in 0 .. MaxWishes} :
                \A i, j \in DOMAIN w : i # j => w[i] # w[j]}

VARIABLES
    mine,       \* team.events, stored ones first
    wish,       \* team.eventRegistrations, by priority
    order,      \* the events array
    todo,       \* the slots that had no team when the pass began
    rank,       \* place of each team in the teams array
    pc,         \* which pass
    round,      \* rounds done
    turn,       \* place of the team whose turn it is
    next        \* index into events

vars == <<mine, wish, order, todo, rank, pc, round, turn, next>>

Init ==
    /\ mine \in [Teams -> SUBSET StoredObjects]
    /\ \A s, t \in Teams : s # t => mine[s] \intersect mine[t] = {}
    /\ wish \in [Teams -> WishLists]
    /\ order = <<>>
    /\ todo = {}
    /\ rank \in [Teams -> 0 .. Cardinality(Teams) - 1]
    /\ \A s, t \in Teams : s # t => rank[s] # rank[t]
    /\ pc = "start"
    /\ round = 0
    /\ turn = 0
    /\ next = 1

-----------------------------------------------------------------------------
\* Math.round: halves go up.  Of a positive number of teams; without teams it is Infinity.
Quota == (2 * Cardinality(Slots) + Cardinality(Teams)) \div (2 * Cardinality(Teams))

Load(t) == Cardinality(mine[t])
Full(t) == Load(t) >= Quota

Taken(o) == \E t \in Teams : o \in mine[t]

\* Mutant: the team's other events of the day are not looked at.
ConflictAnyDay(o, t) == Taken(o)

Conflict(o, t) == Taken(o) \/ \E m \in mine[t] : DayOf(m) = DayOf(o)

Assign(o, t) == mine' = [mine EXCEPT ![t] = @ \union {o}]

First(t, among, place) == t \in among /\ \A s \in among : place[t] <= place[s]

-----------------------------------------------------------------------------
\* events.filter((e) => !e.team), once for each of the last two passes.
Vacant == {e \in Slots : ~Taken(Plain(e))}

\* A year without empty slots leaves nothing to do; a quota of zero, no rounds; no teams,
\* rounds without end.
FirstPass == IF Slots = {} THEN "done"
             ELSE IF Teams = {} THEN "endless"
             ELSE IF Quota = 0 THEN "remaining" ELSE "rounds"

Shuffle ==
    /\ pc = "start"
    /\ order' \in Orders
    /\ pc' = FirstPass
    /\ todo' = Vacant
    /\ UNCHANGED <<mine, wish, rank, round, turn, next>>

\* The wishes of a team are gone through in order of priority, whatever the round.
FreeWishes(t) == {i \in DOMAIN wish[t] : ~Conflict(Copy(t, wish[t][i]), t)}
MayWish(t) == ~Full(t) /\ round < Len(wish[t]) /\ FreeWishes(t) # {}

NextTurn ==
    IF turn + 1 < Cardinality(Teams)
    THEN turn' = turn + 1 /\ UNCHANGED <<round, pc, todo>>
    ELSE /\ turn' = 0
         /\ round' = round + 1
         /\ pc' = IF round + 1 < Quota THEN "rounds" ELSE "remaining"
         /\ todo' = Vacant'

GrantWish(t) ==
    /\ pc = "rounds"
    /\ rank[t] = turn
    /\ MayWish(t)
    /\ \E i \in FreeWishes(t) :
         /\ \A j \in FreeWishes(t) : i <= j
         /\ Assign(Copy(t, wish[t][i]), t)
    /\ UNCHANGED <<wish, order, rank, next>>
    /\ NextTurn

PassTurn(t) ==
    /\ pc = "rounds"
    /\ rank[t] = turn
    /\ ~MayWish(t)
    /\ UNCHANGED <<mine, wish, order, rank, next>>
    /\ NextTurn

-----------------------------------------------------------------------------
\* The events array, front to back, events that had a team when the pass began left out.
\* Mutant: the last event of the array is not looked at.
NextSlotShort(pass) ==
    IF next + 1 < Len(order)
    THEN next' = next + 1 /\ UNCHANGED <<pc, todo>>
    ELSE next' = 1 /\ pc' = pass /\ todo' = Vacant'

NextSlot(pass) ==
    IF next < Len(order)
    THEN next' = next + 1 /\ UNCHANGED <<pc, todo>>
    ELSE next' = 1 /\ pc' = pass /\ todo' = Vacant'

AtSlot(pass) == pc = pass /\ next \in DOMAIN order

\* Mutant: a team on its quota is still filled up.
BelowAny(o) == {t \in Teams : ~Conflict(o, t)}

Below(o) == {t \in Teams : ~Full(t) /\ ~Conflict(o, t)}

FillSlot(t) ==
    /\ AtSlot("remaining") /\ order[next] \in todo
    /\ First(t, Below(Plain(order[next])), rank)
    /\ Assign(Plain(order[next]), t)
    /\ UNCHANGED <<wish, order, rank, round, turn>>
    /\ NextSlot("still")

LeaveSlot ==
    /\ AtSlot("remaining")
    /\ order[next] \notin todo \/ Below(Plain(order[next])) = {}
    /\ UNCHANGED <<mine, wish, order, rank, round, turn>>
    /\ NextSlot("still")

\* Mutant: the last pass respects the quota too.
OpenBelow(o) == {t \in Teams : ~Full(t) /\ ~Conflict(o, t)}

Open(o) == {t \in Teams : ~Conflict(o, t)}

\* teams.sort by number of events, which is stable and stays sorted.
Sorted == [t \in Teams |->
             Cardinality({s \in Teams : \/ Load(s) < Load(t)
                                        \/ Load(s) = Load(t) /\ rank[s] < rank[t]})]

SortTeams == rank' = IF order[next] \in todo THEN Sorted ELSE rank

BalanceSlot(t) ==
    /\ AtSlot("still") /\ order[next] \in todo
    /\ SortTeams
    /\ First(t, Open(Plain(order[next])), rank')
    /\ Assign(Plain(order[next]), t)
    /\ UNCHANGED <<wish, order, round, turn>>
    /\ NextSlot("done")

GiveUpSlot ==
    /\ AtSlot("still")
    /\ SortTeams
    /\ order[next] \notin todo \/ Open(Plain(order[next])) = {}
    /\ UNCHANGED <<mine, wish, order, round, turn>>
    /\ NextSlot("done")

Next ==
    \/ Shuffle
    \/ \E t \in Teams : GrantWish(t) \/ PassTurn(t) \/ FillSlot(t) \/ BalanceSlot(t)
    \/ LeaveSlot
    \/ GiveUpSlot

Spec == Init /\ [][Next]_vars

-----------------------------------------------------------------------------
(* Properties.                                                             *)

\* Types of the teams' event lists, of the wishes and of the loop variables.
TypeOK ==
    /\ mine \in [Teams -> SUBSET Objects]
    /\ wish \in [Teams -> WishLists]
    /\ order \in Orders \union {<<>>}
    /\ todo \subseteq Slots
    /\ rank \in [Teams -> Nat]
    /\ pc \in {"start", "rounds", "remaining", "still", "endless", "done"}
    /\ round \in Nat /\ next \in Nat
    /\ turn \in Nat /\ (Teams # {} => turn < Cardinality(Teams))

\* "should not assign two events to one team on the same day": whatever a team is
\* given is on a day on which it had nothing, counting what it was given before and
\* what it already has, in any shuffle and for any wishes.
OnceADay ==
    \A t \in Teams : \A a, b \in mine[t] :
        a # b /\ a \notin StoredObjects => DayOf(a) # DayOf(b)

\* A slot stays without a team only if every team is taken on that day: by another
\* event, or by the object its own wish for that day holds.
LeftIsBlocked ==
    pc = "done" =>
        \A e \in Slots : Taken(Plain(e)) \/ \A t \in Teams : \E m \in mine[t] : DayOf(m) = Day[e]

\* Slots stay without a team only for want of teams on their day: one for every slot more
\* than there are teams, and one for every object of that day that a team holds and that is
\* no slot of the proposal, which is a granted wish or an event it already had.  So it is
\* the wishes the passes grant that cost slots, since a wish and its slot are two objects.
LeftForWishes ==
    pc = "done" => \A d \in Days :
        LET left  == {e \in Vacant : Day[e] = d}
            other == {o \in UNION {mine[t] : t \in Teams} :
                        DayOf(o) = d /\ o \notin {Plain(e) : e \in Slots}}
        IN left # {} => Cardinality(left) + Cardinality(Teams)
                          <= Cardinality({e \in Slots : Day[e] = d}) + Cardinality(other)

\* Nobody is given an event above the quota while a team below it could take that
\* event: the passes that fill up to the quota come first, and the last one looks
\* at who has the fewest.
OverQuotaForced ==
    [][\A t \in Teams : \A o \in mine'[t] \ mine[t] :
          Full(t) => \A s \in Teams : Full(s) \/ Conflict(o, s)]_vars

\* "should leave no events without a team".
NoneLeft == pc = "done" => \A e \in Slots : Taken(Plain(e))
=============================================================================

---------------------------- MODULE Registrations ----------------------------
(***************************************************************************)
(* The wishes of a team for the market days of a year                      *)
(* (event-registration.service.ts).  A market lead submits a list; the     *)
(* handler removes what the team had for that year and inserts the new     *)
(* rows, in six or more calls without a transaction, while other leads     *)
(* submit, members change teams, market days are deleted and the process   *)
(* may die.                                                                *)
(***************************************************************************)
EXTENDS Naturals, Sequences, FiniteSets

CONSTANTS
    Leads,
    Teams,
    Events,
    Year,           \* the year of each event
    Submissions,    \* requests the run may make (bound)
    MaxWishes,      \* length of a list (bound)
    MaxInFlight,    \* requests that may overlap (bound)
    Doomed,         \* market days that may be deleted (bound)
    Edits,          \* what happens besides: subset of {"move", "crash"}
    NoTeam

Years == {Year[e] : e \in Events}

ASSUME YearAssumption   == DOMAIN Year = Events
ASSUME DoomedAssumption == Doomed \subseteq Events
ASSUME NoTeamAssumption == NoTeam \notin Teams
ASSUME BoundAssumption  == MaxWishes \in Nat /\ MaxInFlight \in Nat

\* The client lists each market day of the year once at most.
Lists(y) == {l \in UNION {[1 .. n -> {e \in Events : Year[e] = y}] : n \in 0 .. MaxWishes} :
               \A i, j \in DOMAIN l : i # j => l[i] # l[j]}
AllLists == UNION {Lists(y) : y \in Years}

\* A row of event_registration; `by' stands for its id.
Row == [team : Teams, event : Events, priority : 1 .. MaxWishes, by : Submissions]

VARIABLES
    teamOf,     \* user.teamId of the leads
    stored,     \* table event
    rows,       \* table event_registration
    sub,        \* the submissions: where each is, who, the dto, the team id it read
                \* last, the rows it found, the positions still to be inserted
    clash       \* history: submissions that overlapped with another one for the
                \* same team and year, or with a move of their lead, or
                \* with one whose lead moved into the team

vars == <<teamOf, stored, rows, sub, clash>>

Pcs == {"idle", "find", "remove", "again", "save", "done", "error", "lost"}
Fresh == [pc |-> "idle", user |-> NoTeam, year |-> NoTeam, list |-> <<>>, team |-> NoTeam,
          found |-> {}, left |-> {}]
Sub   == [pc : Pcs, user : Leads \union {NoTeam}, year : Years \union {NoTeam},
          list : Seq(Events), team : Teams \union {NoTeam}, found : SUBSET Row,
          left : SUBSET Nat]

Active(s) == sub[s].pc \in {"find", "remove", "again", "save"}
InFlight  == {s \in Submissions : Active(s)}

Init ==
    /\ teamOf \in [Leads -> Teams \union {NoTeam}]
    /\ stored = Events
    /\ rows = {}
    /\ sub = [s \in Submissions |-> Fresh]
    /\ clash = {}

Become(s, x) == sub' = [sub EXCEPT ![s] = x]
Goto(s, pc)  == Become(s, [sub[s] EXCEPT !.pc = pc])
Ended(pc)    == [Fresh EXCEPT !.pc = pc]

-----------------------------------------------------------------------------
(* submitRegistrations.                                                    *)

Rivals(t, y) == {s \in InFlight : sub[s].team = t /\ sub[s].year = y}

\* getTeamId, the first time.
Submit(s, u, y, l) ==
    /\ sub[s].pc = "idle"
    /\ Cardinality(InFlight) < MaxInFlight
    /\ l \in Lists(y)
    /\ IF teamOf[u] = NoTeam
       THEN Become(s, Ended("error")) /\ UNCHANGED clash
       ELSE /\ Become(s, [pc |-> "find", user |-> u, year |-> y, list |-> l,
                          team |-> teamOf[u], found |-> {}, left |-> {}])
            /\ clash' = IF Rivals(teamOf[u], y) = {} THEN clash
                        ELSE clash \union Rivals(teamOf[u], y) \union {s}
    /\ UNCHANGED <<teamOf, stored, rows>>

Wishes(t, y) == {r \in rows : r.team = t /\ Year[r.event] = y}

\* Mutants: one row is looked for; the year is not looked at; an empty list leaves
\* the wishes as they are.
ExistingOne(s) == {r \in Wishes(sub[s].team, sub[s].year) : r.priority = 1}
ExistingOfTeam(s) == {r \in rows : r.team = sub[s].team}
ExistingUnlessEmpty(s) == IF sub[s].list = <<>> THEN {} ELSE Wishes(sub[s].team, sub[s].year)

Existing(s) == Wishes(sub[s].team, sub[s].year)

GetMyRegistrations(s) ==
    /\ sub[s].pc = "find"
    /\ Become(s, [sub[s] EXCEPT !.pc = "remove", !.found = Existing(s)])
    /\ UNCHANGED <<teamOf, stored, rows, clash>>

Remove(s) ==
    /\ sub[s].pc = "remove"
    /\ rows' = rows \ sub[s].found
    /\ Become(s, [sub[s] EXCEPT !.pc = "again", !.found = {}])
    /\ UNCHANGED <<teamOf, stored, clash>>

\* getTeamId, the second time: the wishes are gone whatever it says.
GetTeamIdAgain(s) ==
    LET t == teamOf[sub[s].user] IN
    /\ sub[s].pc = "again"
    /\ Become(s, IF t = NoTeam THEN Ended("error")
                 ELSE IF sub[s].list = <<>> THEN Ended("done")
                 ELSE [sub[s] EXCEPT !.pc = "save", !.team = t, !.left = DOMAIN sub[s].list])
    /\ clash' = IF t = sub[s].team THEN clash ELSE clash \union Rivals(t, sub[s].year)
    /\ UNCHANGED <<teamOf, stored, rows>>

NewRow(s, i) ==
    [team |-> sub[s].team, event |-> sub[s].list[i], priority |-> i, by |-> s]

\* One of the inserts that forkJoin started.  All of them run, the order is theirs;
\* for a market day that was deleted it fails, and the request with it.
SubmitRegistration(s, i) ==
    /\ sub[s].pc = "save"
    /\ i \in sub[s].left
    /\ rows' = IF sub[s].list[i] \in stored THEN rows \union {NewRow(s, i)} ELSE rows
    /\ Become(s, IF sub[s].left = {i} THEN Ended("done")
                 ELSE [sub[s] EXCEPT !.left = @ \ {i}])
    /\ UNCHANGED <<teamOf, stored, clash>>

-----------------------------------------------------------------------------
(* What happens besides.                                                   *)

MoveLead(u, t) ==
    /\ "move" \in Edits
    /\ t # teamOf[u]
    /\ teamOf' = [teamOf EXCEPT ![u] = t]
    /\ clash' = clash \union {s \in InFlight : sub[s].user = u}
    /\ UNCHANGED <<stored, rows, sub>>

\* onDelete: CASCADE.
DeleteEvent(e) ==
    /\ e \in stored
    /\ stored' = stored \ {e}
    /\ rows' = {r \in rows : r.event # e}
    /\ UNCHANGED <<teamOf, sub, clash>>

Crash ==
    /\ "crash" \in Edits
    /\ InFlight # {}
    /\ sub' = [s \in Submissions |-> IF Active(s) THEN Ended("lost") ELSE sub[s]]
    /\ UNCHANGED <<teamOf, stored, rows, clash>>

SubmissionStep(s) ==
    \/ GetMyRegistrations(s) \/ Remove(s) \/ GetTeamIdAgain(s)
    \/ \E i \in 1 .. MaxWishes : SubmitRegistration(s, i)

Next ==
    \/ \E s \in Submissions, u \in Leads, y \in Years, l \in AllLists : Submit(s, u, y, l)
    \/ \E s \in Submissions : SubmissionStep(s)
    \/ \E u \in Leads, t \in Teams \union {NoTeam} : MoveLead(u, t)
    \/ \E e \in Doomed : DeleteEvent(e)
    \/ Crash

Spec == Init /\ [][Next]_vars

-----------------------------------------------------------------------------
(* Properties.                                                             *)

\* Types of the tables and of the requests in progress.
TypeOK ==
    /\ teamOf \in [Leads -> Teams \union {NoTeam}]
    /\ stored \subseteq Events
    /\ rows \subseteq Row
    /\ clash \subseteq Submissions
    /\ sub \in [Submissions -> Sub]
    /\ \A s \in Submissions : Active(s) =>
         /\ sub[s].user \in Leads /\ sub[s].team \in Teams /\ sub[s].year \in Years
         /\ sub[s].list \in Lists(sub[s].year) /\ sub[s].left \subseteq DOMAIN sub[s].list

\* A submission that nothing clashed with leaves its team with exactly its list for
\* that year, in order, less the market days that were deleted, whatever earlier ones
\* that overlapped or were cut short had left behind.
Ranked(rs) == {<<r.priority, r.event>> : r \in rs}
SubmissionIsExact ==
    [][\A s \in Submissions \ clash' :
          Active(s) /\ sub'[s].pc = "done" =>
             Ranked({r \in rows' : r.team = sub[s].team /\ Year[r.event] = sub[s].year})
                = {<<i, sub[s].list[i]>> : i \in {j \in DOMAIN sub[s].list : sub[s].list[j] \in stored'}}]_vars

\* A team has no two wishes of the same rank in a year, unless one of them was put
\* there by a submission that something clashed with.
RanksDistinct ==
    \A q, r \in rows :
        /\ q.team = r.team /\ Year[q.event] = Year[r.event] /\ q.priority = r.priority
        => q = r \/ q.by \in clash \/ r.by \in clash

\* A wish goes only with its market day or for a submission about its year whose
\* lead was in its team, however submissions of other teams and years interleave.
OnlyOwnReplaced ==
    [][\A r \in rows \ rows' :
          \/ r.event \notin stored'
          \/ \E s \in Submissions : /\ sub[s].pc = "remove" /\ sub'[s].pc = "again"
                                    /\ sub[s].team = r.team
                                    /\ sub[s].year = Year[r.event]]_vars
=============================================================================

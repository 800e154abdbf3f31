------------------------------ MODULE RsvpScore ------------------------------
(***************************************************************************)
(* Answers to market-day invitations and the reliability score they move   *)
(* (rsvp.service.ts, with the columns of user.entity.ts and rsvp.entity.ts *)
(* it writes).                                                             *)
(*                                                                         *)
(* A handler is a chain of database calls; between two of them any other   *)
(* handler may run.  Saving an entity is itself two calls: TypeORM selects *)
(* the row, keeps the columns in which the entity differs from it, and     *)
(* updates those columns only.  An answer forks into two chains that       *)
(* nothing joins: the score of the user (`job') and the rsvp row           *)
(* (`writer').  The score chain is also what an absence batch runs, once   *)
(* per user id.                                                            *)
(*                                                                         *)
(* Rows are named after the request that inserts them.  The moment an      *)
(* absence starts is named after the job that stamped it.                  *)
(***************************************************************************)
EXTENDS Integers, FiniteSets

CONSTANTS
    Users,          \* members
    Events,         \* market days with an invitation
    Submits,        \* POST /rsvp/me calls the run may make (bound)
    Batches,        \* POST /rsvp/updateAbsent calls the run may make (bound)
    Seeds,          \* findRsvp calls of the weekly job, and rows that coordinators
                    \* create, of the run (bound)
    MaxInFlight,    \* requests that may overlap (bound)
    StartScores,    \* scores an account may start from (bound)
    AdminOps,       \* what coordinators do by the generic CRUD routes
    Entered,        \* answers and marks that coordinators enter (bound)
    CrashAllowed,   \* whether the process may die and be restarted
    Null            \* NULL in a column, undefined in the code

ASSUME NullAssumption ==
    Null \notin Users \union Events \union Submits \union (Batches \X Users) \union {<<>>}
ASSUME StartScoresAssumption == StartScores \subseteq Nat
ASSUME RowNames == Submits \intersect Seeds = {}
ASSUME JobNames == Submits \intersect (Batches \X Users) = {}

Responses == {"unknown", "yes", "no"}
AbsentBelow == 3

Jobs   == Submits \union (Batches \X Users)
RowIds == Submits \union Seeds

Before == <<>>      \* an absence that started before the modelled history
Stamps == Jobs \union {Null, Before}

Account == [rsvpScore : Nat, absent : BOOLEAN, absentSince : Stamps]
Columns == {"rsvpScore", "absent", "absentSince"}

Row   == [user : Users, event : Events, response : Responses, attended : Responses]
NoRow == [user |-> Null, event |-> Null, response |-> "unknown", attended |-> "unknown"]

\* What a score job does with the account it reads.
Kinds == {"yes", "no", "none", "forgive"}
ASSUME KindNames == Null \notin Users \X Kinds

JobPcs    == {"idle", "read", "load", "write", "done", "lost"}
WriterPcs == {"idle", "refused", "find", "save", "update", "insert", "done", "lost"}
SeedPcs   == {"idle", "insert", "done", "lost"}

\* The local variables of a chain, from where it is to what it is about to write.
Job    == [pc : JobPcs, user : Users \union {Null}, kind : Kinds,
           copy : Account, cols : SUBSET Columns]
Writer == [pc : WriterPcs, user : Users \union {Null}, event : Events \union {Null},
           response : Responses, row : RowIds \union {Null}, attended : Responses,
           cols : SUBSET {"response", "attended"}]
Seed   == [pc : SeedPcs, user : Users \union {Null}, event : Events \union {Null}]

VARIABLES
    account,    \* the score columns of table user
    rsvp,       \* table rsvp
    past,       \* events with start < now
    writer,     \* per submit: the request and its chain on table rsvp
    job,        \* per score job: its chain on table user
    seed,       \* per findRsvp call of the weekly job: its chain on table rsvp, and
                \* the rows that coordinators create
    credit,     \* history: starting score plus the yes-answers counted so far
    raced,      \* history: users whose account two jobs held at the same time
    crossed,    \* history: (user, event) pairs looked up, marked or created while another
                \* chain held them
    disturbed   \* history: submits whose row somebody else deleted, inserted or gave
                \* another answer between the select and the write of their save

vars == <<account, rsvp, past, writer, job, seed, credit, raced, crossed,
          disturbed>>
ghosts == <<credit, raced, crossed, disturbed>>

Fresh == [rsvpScore |-> 0, absent |-> FALSE, absentSince |-> Null]
Settled(n) == [rsvpScore |-> n, absent |-> n < AbsentBelow,
               absentSince |-> IF n < AbsentBelow THEN Before ELSE Null]

NoJob    == [pc |-> "idle", user |-> Null, kind |-> "none", copy |-> Fresh, cols |-> {}]
NoWriter == [pc |-> "idle", user |-> Null, event |-> Null, response |-> "unknown",
             row |-> Null, attended |-> "unknown", cols |-> {}]
NoSeed   == [pc |-> "idle", user |-> Null, event |-> Null]

Init ==
    /\ account \in [Users -> {Fresh} \union {Settled(n) : n \in StartScores}]
    /\ rsvp = [r \in RowIds |-> NoRow]
    /\ past = {}
    /\ writer = [s \in Submits |-> NoWriter]
    /\ job = [j \in Jobs |-> NoJob]
    /\ seed = [w \in Seeds |-> NoSeed]
    /\ credit = [u \in Users |-> account[u].rsvpScore]
    /\ raced = {}
    /\ crossed = {}
    /\ disturbed = {}

-----------------------------------------------------------------------------
(* Requests in progress.                                                   *)

JobActive(j)    == job[j].pc \in {"read", "load", "write"}
WriterActive(s) == writer[s].pc \in {"find", "save", "update", "insert"}
SeedActive(w)   == seed[w].pc = "insert"

InFlight ==
    {s \in Submits : WriterActive(s) \/ JobActive(s)}
        \union {b \in Batches : \E u \in Users : JobActive(<<b, u>>)}
        \union {w \in Seeds : SeedActive(w)}

MayStart == Cardinality(InFlight) < MaxInFlight

-----------------------------------------------------------------------------
(* The score rules.                                                        *)

\* updateRsvpScore: what an answer is worth, given the attendance mark of its row.
KindOf(response, attended) ==
    IF response = "yes" /\ attended # "no" THEN "yes"
    ELSE IF response = "no" /\ attended # "yes" THEN "no"
    ELSE "none"

\* Mutant: every job that is not a no raises.
NewScoreAnyRaises(kind, n) ==
    IF kind = "no" THEN (IF n > 0 THEN n - 1 ELSE n) ELSE n + 1

NewScore(kind, n) ==
    IF kind = "yes" THEN n + 1
    ELSE IF kind = "no" /\ n > 0 THEN n - 1
    ELSE n

\* Mutants: the moment is not set; it is set again while absent; three is too few.
checkScoreNoMoment(a, now) ==
    IF ~a.absent /\ a.rsvpScore < AbsentBelow THEN [a EXCEPT !.absent = TRUE]
    ELSE IF a.absent /\ a.rsvpScore >= AbsentBelow
    THEN [a EXCEPT !.absent = FALSE, !.absentSince = Null]
    ELSE a
checkScoreRestamps(a, now) ==
    IF a.rsvpScore < AbsentBelow THEN [a EXCEPT !.absent = TRUE, !.absentSince = now]
    ELSE [a EXCEPT !.absent = FALSE, !.absentSince = Null]
checkScoreAtMost(a, now) ==
    IF ~a.absent /\ a.rsvpScore <= AbsentBelow
    THEN [a EXCEPT !.absent = TRUE, !.absentSince = now]
    ELSE IF a.absent /\ a.rsvpScore > AbsentBelow
    THEN [a EXCEPT !.absent = FALSE, !.absentSince = Null]
    ELSE a

checkScore(a, now) ==
    IF ~a.absent /\ a.rsvpScore < AbsentBelow
    THEN [rsvpScore |-> a.rsvpScore, absent |-> TRUE, absentSince |-> now]
    ELSE IF a.absent /\ a.rsvpScore >= AbsentBelow
    THEN [rsvpScore |-> a.rsvpScore, absent |-> FALSE, absentSince |-> Null]
    ELSE a

\* The entity a job saves, computed from the one it read.
Apply(kind, a, now) ==
    IF kind = "forgive"
    THEN [a EXCEPT !.absent = FALSE]
    ELSE checkScore([a EXCEPT !.rsvpScore = NewScore(kind, @)], now)

\* repo.save: the columns an entity and its row disagree on, and the row once
\* those columns are written.
\* Mutant: the moment is not among the columns saved.
DiffNoMoment(entity, stored) ==
    {c \in Columns \ {"absentSince"} : entity[c] # stored[c]}

Diff(entity, stored) == {c \in Columns : entity[c] # stored[c]}
Written(stored, entity, cols) ==
    [rsvpScore   |-> IF "rsvpScore" \in cols THEN entity.rsvpScore ELSE stored.rsvpScore,
     absent      |-> IF "absent" \in cols THEN entity.absent ELSE stored.absent,
     absentSince |-> IF "absentSince" \in cols THEN entity.absentSince
                     ELSE stored.absentSince]

-----------------------------------------------------------------------------
(* The score chain: findById, then save (select and compare, then update). *)

StartJob(u, kind) ==
    [NoJob EXCEPT !.pc = "read", !.user = u, !.kind = kind]

\* What is left of a chain that ended (or died): whom it was for.
EndJob(j, how) == [NoJob EXCEPT !.pc = how, !.user = job[j].user, !.kind = job[j].kind]
EndWriter(s, how) ==
    [NoWriter EXCEPT !.pc = how, !.user = writer[s].user, !.event = writer[s].event]

\* Another job read this account and has not written it yet.
Held(j, u) ==
    \E k \in Jobs \ {j} : job[k].user = u /\ job[k].pc \in {"load", "write"}

ReadUser(j) ==
    /\ job[j].pc = "read"
    /\ LET u == job[j].user IN
         /\ job' = [job EXCEPT ![j].pc = "load",
                               ![j].copy = Apply(job[j].kind, account[u], j)]
         /\ credit' = [credit EXCEPT ![u] = IF job[j].kind = "yes" THEN @ + 1 ELSE @]
         /\ raced' = IF Held(j, u) THEN raced \union {u} ELSE raced
    /\ UNCHANGED <<account, rsvp, past, writer, seed, crossed, disturbed>>

SaveUser(j) ==
    /\ job[j].pc = "load"
    /\ LET diff == Diff(job[j].copy, account[job[j].user]) IN
         job' = [job EXCEPT ![j] = IF diff = {} THEN EndJob(j, "done")
                                   ELSE [@ EXCEPT !.pc = "write", !.cols = diff]]
    /\ UNCHANGED <<account, rsvp, past, writer, seed, ghosts>>

UpdateUser(j) ==
    /\ job[j].pc = "write"
    /\ account' = [account EXCEPT ![job[j].user] =
                                     Written(@, job[j].copy, job[j].cols)]
    /\ job' = [job EXCEPT ![j] = EndJob(j, "done")]
    /\ UNCHANGED <<rsvp, past, writer, seed, ghosts>>

-----------------------------------------------------------------------------
(* POST /rsvp/me.                                                          *)

SubmitRsvp(s, u, e, response) ==
    /\ writer[s].pc = "idle"
    /\ MayStart
    /\ writer' = [writer EXCEPT ![s] =
                    [NoWriter EXCEPT !.pc = IF e \in past THEN "refused" ELSE "find",
                                     !.user = u, !.event = e, !.response = response]]
    /\ UNCHANGED <<account, rsvp, past, job, seed, ghosts>>

\* Mutant: the lookup only sees rows that carry an answer.
RowsAnswered(u, e) ==
    {r \in RowIds : rsvp[r].user = u /\ rsvp[r].event = e /\ rsvp[r].response # "unknown"}

Rows(u, e) == {r \in RowIds : rsvp[r].user = u /\ rsvp[r].event = e}

\* A chain that looked this pair up and may still insert a row for it.
Pending(q, u, e) ==
    \/ \E s \in Submits \ {q} : /\ writer[s].user = u /\ writer[s].event = e
                                /\ writer[s].pc \in {"save", "insert"}
    \/ \E w \in Seeds \ {q} : /\ seed[w].user = u /\ seed[w].event = e
                              /\ seed[w].pc = "insert"

Cross(q, u, e) ==
    crossed' = IF Rows(u, e) = {} /\ Pending(q, u, e)
               THEN crossed \union {<<u, e>>} ELSE crossed

\* Mutant: a fresh entity in place of the one found.
AnswerResets(s, pc, r, attended) ==
    /\ writer' = [writer EXCEPT ![s] = [@ EXCEPT !.pc = pc, !.row = r,
                                                 !.attended = "unknown"]]
    /\ job' = [job EXCEPT ![s] = StartJob(writer[s].user,
                                          KindOf(writer[s].response, attended))]

\* The answer is set on the row entity and both chains start.
Answer(s, pc, r, attended) ==
    /\ writer' = [writer EXCEPT ![s] = [@ EXCEPT !.pc = pc, !.row = r,
                                                 !.attended = attended]]
    /\ job' = [job EXCEPT ![s] = StartJob(writer[s].user,
                                          KindOf(writer[s].response, attended))]

\* The first row found, or a new one.
FindRsvp(s) ==
    /\ writer[s].pc = "find"
    /\ LET found == Rows(writer[s].user, writer[s].event) IN
         \/ found = {} /\ Answer(s, "insert", s, "unknown")
         \/ \E r \in found : Answer(s, "save", r, rsvp[r].attended)
    /\ Cross(s, writer[s].user, writer[s].event)
    /\ UNCHANGED <<account, rsvp, past, seed, credit, raced, disturbed>>

\* What a step on table rsvp does to the saves between their select and their write.
Disturbs ==
    disturbed' = disturbed \union
        {s \in Submits :
            LET r == writer[s].row IN
            /\ writer[s].pc \in {"update", "insert"} /\ writer'[s] = writer[s]
            /\ \/ (rsvp'[r] = NoRow) # (rsvp[r] = NoRow)
               \/ "response" \notin writer[s].cols /\ rsvp'[r].response # rsvp[r].response}

\* Mutant: an update by id in place of the save; it finds no row that was deleted.
SaveRsvpUpdates(s) ==
    /\ writer[s].pc = "save"
    /\ writer' = [writer EXCEPT ![s].pc = "update", ![s].cols = {"response", "attended"}]
    /\ UNCHANGED <<account, rsvp, past, job, seed, ghosts>>

\* repo.save of a row that was found.  A row deleted meanwhile is inserted anew.
SaveRsvp(s) ==
    /\ writer[s].pc = "save"
    /\ LET stored == rsvp[writer[s].row]
           diff == {c \in {"response", "attended"} : writer[s][c] # stored[c]}
       IN writer' = [writer EXCEPT ![s] =
                       IF stored = NoRow THEN [@ EXCEPT !.pc = "insert"]
                       ELSE IF diff = {} THEN EndWriter(s, "done")
                       ELSE [@ EXCEPT !.pc = "update", !.cols = diff]]
    /\ UNCHANGED <<account, rsvp, past, job, seed, ghosts>>

UpdateRsvp(s) ==
    /\ writer[s].pc = "update"
    /\ LET r == writer[s].row
           column(c) == IF c \in writer[s].cols THEN writer[s][c] ELSE rsvp[r][c]
       IN rsvp' = IF rsvp[r] = NoRow THEN rsvp
                  ELSE [rsvp EXCEPT ![r].response = column("response"),
                                    ![r].attended = column("attended")]
    /\ writer' = [writer EXCEPT ![s] = EndWriter(s, "done")]
    /\ UNCHANGED <<account, past, job, seed, credit, raced, crossed>>
    /\ Disturbs

\* An id that is taken again makes the insert fail; the request then ends in error.
InsertRsvp(s) ==
    /\ writer[s].pc = "insert"
    /\ LET r == writer[s].row IN
         rsvp' = IF rsvp[r] # NoRow THEN rsvp
                 ELSE [rsvp EXCEPT ![r] = [user |-> writer[s].user,
                                           event |-> writer[s].event,
                                           response |-> writer[s].response,
                                           attended |-> writer[s].attended]]
    /\ writer' = [writer EXCEPT ![s] = EndWriter(s, "done")]
    /\ UNCHANGED <<account, past, job, seed, credit, raced, crossed>>
    /\ Disturbs

-----------------------------------------------------------------------------
(* POST /rsvp/updateAbsent: one score chain per id, none awaited.          *)

UpdateAbsentStatusBatch(b, ids, absent) ==
    /\ \A u \in Users : job[<<b, u>>].pc = "idle"
    /\ MayStart
    /\ job' = [j \in Jobs |->
                 IF \E u \in ids : j = <<b, u>>
                 THEN StartJob(j[2], IF absent THEN "none" ELSE "forgive")
                 ELSE job[j]]
    /\ UNCHANGED <<account, rsvp, past, writer, seed, ghosts>>

-----------------------------------------------------------------------------
(* The weekly job, one (user, event) pair: look up, then insert if absent. *)

SeedFindRsvp(w, u, e) ==
    /\ seed[w].pc = "idle"
    /\ MayStart
    /\ e \notin past
    /\ seed' = [seed EXCEPT ![w] =
                  [pc |-> IF Rows(u, e) = {} THEN "insert" ELSE "done",
                   user |-> u, event |-> e]]
    /\ Cross(w, u, e)
    /\ UNCHANGED <<account, rsvp, past, writer, job, credit, raced, disturbed>>

MakeUnknownRsvp(w) ==
    /\ seed[w].pc = "insert"
    /\ rsvp' = [rsvp EXCEPT ![w] = [user |-> seed[w].user, event |-> seed[w].event,
                                    response |-> "unknown", attended |-> "unknown"]]
    /\ seed' = [seed EXCEPT ![w].pc = "done"]
    /\ UNCHANGED <<account, past, writer, job, credit, raced, crossed>>
    /\ Disturbs

-----------------------------------------------------------------------------
(* Coordinators, through the CRUD routes; time; the process.               *)

HeldRow(r) == \E s \in Submits : /\ writer[s].row = r
                                 /\ writer[s].pc \in {"save", "update", "insert"}

MarkAttended(r, attended) ==
    /\ "mark" \in AdminOps /\ attended \in Entered
    /\ rsvp[r] # NoRow
    /\ rsvp[r].attended # attended
    /\ rsvp' = [rsvp EXCEPT ![r].attended = attended]
    /\ crossed' = IF HeldRow(r) THEN crossed \union {<<rsvp[r].user, rsvp[r].event>>}
                  ELSE crossed
    /\ UNCHANGED <<account, past, writer, job, seed, credit, raced, disturbed>>

\* The response of a row, without a score.
EditResponse(r, response) ==
    /\ "edit" \in AdminOps /\ response \in Entered
    /\ rsvp[r] # NoRow
    /\ rsvp[r].response # response
    /\ rsvp' = [rsvp EXCEPT ![r].response = response]
    /\ UNCHANGED <<account, past, writer, job, seed, credit, raced, crossed>>
    /\ Disturbs

\* A row for a pair that nobody looks up first, so that whoever holds a row of that
\* pair, or is about to insert one, is crossed.
CreateRsvp(w, u, e, response) ==
    /\ "create" \in AdminOps /\ response \in Entered
    /\ seed[w].pc = "idle"
    /\ rsvp' = [rsvp EXCEPT ![w] = [user |-> u, event |-> e, response |-> response,
                                    attended |-> "unknown"]]
    /\ seed' = [seed EXCEPT ![w] = [pc |-> "done", user |-> u, event |-> e]]
    /\ crossed' = IF Rows(u, e) # {} \/ Pending(w, u, e) THEN crossed \union {<<u, e>>}
                  ELSE crossed
    /\ UNCHANGED <<account, past, writer, job, credit, raced>>
    /\ Disturbs

DeleteRsvp(r) ==
    /\ "delete" \in AdminOps
    /\ rsvp[r] # NoRow
    /\ rsvp' = [rsvp EXCEPT ![r] = NoRow]
    /\ UNCHANGED <<account, past, writer, job, seed, credit, raced, crossed>>
    /\ Disturbs

EventStarts(e) ==
    /\ e \notin past
    /\ past' = past \union {e}
    /\ UNCHANGED <<account, rsvp, writer, job, seed, ghosts>>

\* Chains in progress die with the process; what they wrote stays.
Crash ==
    /\ CrashAllowed
    /\ InFlight # {}
    /\ job' = [j \in Jobs |-> IF JobActive(j) THEN EndJob(j, "lost") ELSE job[j]]
    /\ writer' = [s \in Submits |-> IF WriterActive(s) THEN EndWriter(s, "lost")
                                    ELSE writer[s]]
    /\ seed' = [w \in Seeds |-> IF SeedActive(w) THEN [seed[w] EXCEPT !.pc = "lost"]
                                ELSE seed[w]]
    /\ UNCHANGED <<account, rsvp, past, ghosts>>

-----------------------------------------------------------------------------
JobStep(j)    == ReadUser(j) \/ SaveUser(j) \/ UpdateUser(j)
WriterStep(s) == FindRsvp(s) \/ SaveRsvp(s) \/ UpdateRsvp(s) \/ InsertRsvp(s)

Next ==
    \/ \E s \in Submits, u \in Users, e \in Events, x \in Responses :
         SubmitRsvp(s, u, e, x)
    \/ \E s \in Submits : WriterStep(s)
    \/ \E j \in Jobs : JobStep(j)
    \/ \E b \in Batches, ids \in (SUBSET Users) \ {{}}, absent \in BOOLEAN :
         UpdateAbsentStatusBatch(b, ids, absent)
    \/ \E w \in Seeds, u \in Users, e \in Events : SeedFindRsvp(w, u, e)
    \/ \E w \in Seeds : MakeUnknownRsvp(w)
    \/ \E r \in RowIds, a \in Responses : MarkAttended(r, a) \/ EditResponse(r, a)
    \/ \E w \in Seeds, u \in Users, e \in Events, x \in Responses : CreateRsvp(w, u, e, x)
    \/ \E r \in RowIds : DeleteRsvp(r)
    \/ \E e \in Events : EventStarts(e)
    \/ Crash

Spec == Init /\ [][Next]_vars

-----------------------------------------------------------------------------
(* Properties.                                                             *)

\* Types of the tables, of the chains in progress and of the history.
TypeOK ==
    /\ account \in [Users -> Account]
    /\ rsvp \in [RowIds -> Row \union {NoRow}]
    /\ past \subseteq Events
    /\ writer \in [Submits -> Writer]
    /\ job \in [Jobs -> Job]
    /\ seed \in [Seeds -> Seed]
    /\ credit \in [Users -> Nat]
    /\ raced \subseteq Users
    /\ crossed \subseteq Users \X Events
    /\ disturbed \subseteq Submits

\* Whatever overlaps and whatever is lost, the score of a member stays between
\* zero and what the counted yes-answers add up to: a stale save can lose an
\* answer, it cannot invent one, and a no never takes the score below zero.
ScoreBounded ==
    \A u \in Users : account[u].rsvpScore \in 0 .. credit[u]

\* The absence columns agree with the score they were derived from: a member
\* is on the absence list only with a score below three and with the moment the
\* absence began.  Holds for every account no two jobs have held at once.
AbsenceJustified ==
    \A u \in Users \ raced :
        account[u].absent => /\ account[u].rsvpScore < AbsentBelow
                             /\ account[u].absentSince # Null

\* While a member stays absent the moment the absence began does not move.
\* Also only for accounts that were never held by two jobs at once.
AbsentSinceStable ==
    [][\A u \in Users \ raced' :
          account[u].absent /\ account'[u].absent
             => account'[u].absentSince = account[u].absentSince]_vars

\* The two-call save is as good as an atomic one for an account that was never
\* held by two jobs at once: what a job writes is its rule applied to the row as
\* it is at that moment, every column of it.
AtomicUnlessRaced ==
    [][\A u \in Users \ raced' :
          account'[u] # account[u] =>
             \E j \in Jobs : /\ job[j].pc = "write" /\ job'[j].pc = "done"
                            /\ job[j].user = u
                            /\ account'[u] = Apply(job[j].kind, account[u], j)]_vars

\* The ledger of ScoreLedger: a job has filed its entry when it starts and has settled
\* it when it ends; a member whose account two jobs held is given up.
ledgerScore   == [u \in Users |-> IF u \in raced THEN 0 ELSE account[u].rsvpScore]
ledgerAbsent  == [u \in Users |-> u \notin raced /\ account[u].absent]
ledgerFiled   == [j \in Jobs |-> IF job[j].pc = "idle" THEN Null
                                 ELSE <<job[j].user, job[j].kind>>]
ledgerSettled == {j \in Jobs : job[j].pc = "done"}

Ledger == INSTANCE ScoreLedger WITH
    Entries <- Jobs, Unfiled <- Null, score <- ledgerScore, absent <- ledgerAbsent,
    filed <- ledgerFiled, settled <- ledgerSettled, spoiled <- raced

\* The score is the one a ledger would hold: each answer counts once, in full,
\* whatever chains a crash cuts short, for every member whose account was never
\* held by two jobs at once.
ImplementsLedger == Ledger!LedgerSpec

\* There is one rsvp row per member and market day, although the table has no
\* unique key: a second row takes two lookups that overlap, or a coordinator who
\* creates it without a lookup.
OneRsvpPerPair ==
    \A q, r \in RowIds :
        q # r /\ rsvp[q] # NoRow /\ rsvp[r] # NoRow
          /\ rsvp[q].user = rsvp[r].user /\ rsvp[q].event = rsvp[r].event
        => <<rsvp[q].user, rsvp[q].event>> \in crossed

\* A member's answer never undoes the attendance mark a coordinator put on the
\* row, unless the mark was made while that answer held the row.
AttendanceKept ==
    [][\A r \in RowIds :
          /\ writer' # writer
          /\ rsvp[r] # NoRow /\ rsvp'[r] # NoRow
          /\ rsvp'[r].attended # rsvp[r].attended
          => <<rsvp[r].user, rsvp[r].event>> \in crossed]_vars

\* An answer that ends is what the table says: there is a row for the member and the
\* market day and none says anything else, whatever overlapping answers, coordinators or
\* an earlier crash left there.  Not so only when the row was deleted, inserted or given
\* another answer between the select and the write of this very save, or when the pair
\* was looked up or created twice.
AnswerIsStored ==
    [][\A s \in Submits \ disturbed', u \in Users, e \in Events :
          /\ WriterActive(s) /\ writer'[s].pc = "done"
          /\ writer[s].user = u /\ writer[s].event = e /\ <<u, e>> \notin crossed'
          => /\ Rows(u, e)' # {}
             /\ \A r \in Rows(u, e)' : rsvp'[r].response = writer[s].response]_vars
=============================================================================

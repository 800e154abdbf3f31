-------------------------- MODULE RsvpScoreProofs --------------------------
(***************************************************************************)
(* Proofs about RsvpScore, for any members, events, requests and bounds.   *)
(***************************************************************************)
EXTENDS RsvpScore, TLAPS

\* A chain in progress knows whom, which event and which row it works on.
JobKnows    == \A j \in Jobs : JobActive(j) => job[j].user \in Users
WriterKnows == \A s \in Submits :
    /\ WriterActive(s) => writer[s].user \in Users /\ writer[s].event \in Events
    /\ writer[s].pc \in {"save", "update", "insert"} => writer[s].row \in RowIds
SeedKnows   == \A w \in Seeds :
    SeedActive(w) => seed[w].user \in Users /\ seed[w].event \in Events

TypeInv == TypeOK /\ JobKnows /\ WriterKnows /\ SeedKnows

-----------------------------------------------------------------------------
(* What the score rules return.                                            *)

\* Applying an answer to an account gives an account.
LEMMA ApplyType ==
    ASSUME NEW kind \in Kinds, NEW a \in Account, NEW j \in Jobs
    PROVE  Apply(kind, a, j) \in Account
<1> USE DEF Account, Stamps
<1> DEFINE n == NewScore(kind, a.rsvpScore)
           b == [a EXCEPT !.rsvpScore = n]
<1>1. n \in Nat
  BY DEF NewScore
<1>2. b \in Account
  BY <1>1
<1> HIDE DEF b
<1>3. checkScore(b, j) \in Account
  BY <1>2 DEF checkScore, AbsentBelow
<1>4. CASE kind = "forgive"
  BY <1>4 DEF Apply
<1>5. CASE kind # "forgive"
  <2>1. Apply(kind, a, j) = checkScore(b, j)
    BY <1>5 DEF Apply, b
  <2> QED
    BY <2>1, <1>3
<1> QED
  BY <1>4, <1>5

\* Only a yes raises the score, by one.
LEMMA ApplyScore ==
    ASSUME NEW kind \in Kinds, NEW a \in Account, NEW j \in Jobs
    PROVE  Apply(kind, a, j).rsvpScore <= IF kind = "yes" THEN a.rsvpScore + 1
                                          ELSE a.rsvpScore
  BY DEF Account, Apply, checkScore, NewScore

\* Saving some columns of an account over an account gives an account.
LEMMA WrittenType ==
    ASSUME NEW a \in Account, NEW b \in Account, NEW cols \in SUBSET Columns
    PROVE  Written(a, b, cols) \in Account
  BY DEF Written, Account

LEMMA KindOfType ==
    ASSUME NEW x, NEW y
    PROVE  KindOf(x, y) \in Kinds
  BY DEF KindOf, Kinds

-----------------------------------------------------------------------------
(* Type correctness.                                                       *)

LEMMA FreshType == Fresh \in Account
  BY DEF Fresh, Account, Stamps

\* A chain that starts, and what is left of one that ended, have their types.
LEMMA StartType ==
    ASSUME NEW u \in Users, NEW kind \in Kinds
    PROVE  StartJob(u, kind) \in Job /\ StartJob(u, kind).user = u
  BY FreshType DEF StartJob, NoJob, Job, JobPcs

LEMMA EndJobType ==
    ASSUME TypeInv, NEW j \in Jobs, NEW how \in {"done", "lost"}
    PROVE  EndJob(j, how) \in Job /\ EndJob(j, how).pc = how
  BY FreshType DEF EndJob, NoJob, Job, JobPcs, TypeInv, TypeOK

LEMMA EndWriterType ==
    ASSUME TypeInv, NEW s \in Submits, NEW how \in {"done", "lost"}
    PROVE  EndWriter(s, how) \in Writer /\ EndWriter(s, how).pc = how
  BY DEF EndWriter, NoWriter, Writer, WriterPcs, Responses, TypeInv, TypeOK

\* Replacing one chain's state keeps the invariant if the new state is a good one.
LEMMA JobSet ==
    ASSUME TypeInv, NEW j \in Jobs, NEW x \in Job,
           x.pc \in {"read", "load", "write"} => x.user \in Users,
           job' = [job EXCEPT ![j] = x]
    PROVE  job' \in [Jobs -> Job] /\ JobKnows'
  BY DEF TypeInv, TypeOK, JobKnows, JobActive

LEMMA WriterSet ==
    ASSUME TypeInv, NEW s \in Submits, NEW x \in Writer,
           x.pc \in {"find", "save", "update", "insert"}
             => x.user \in Users /\ x.event \in Events,
           x.pc \in {"save", "update", "insert"} => x.row \in RowIds,
           writer' = [writer EXCEPT ![s] = x]
    PROVE  writer' \in [Submits -> Writer] /\ WriterKnows'
  BY DEF TypeInv, TypeOK, WriterKnows, WriterActive

LEMMA TypeInit == Init => TypeInv
<1> SUFFICES ASSUME Init PROVE TypeInv
  OBVIOUS
<1> USE DEF Init
<1>1. \A n \in StartScores : Settled(n) \in Account
  BY StartScoresAssumption DEF Settled, AbsentBelow, Account, Stamps
<1>2. account \in [Users -> Account]
  BY <1>1, FreshType
<1>3. credit \in [Users -> Nat]
  BY <1>2 DEF Account
<1>4. NoJob \in Job /\ NoJob.pc = "idle"
  BY FreshType DEF NoJob, Job, JobPcs, Kinds
<1>5. NoWriter \in Writer /\ NoWriter.pc = "idle"
  BY DEF NoWriter, Writer, WriterPcs, Responses
<1>6. NoSeed \in Seed /\ NoSeed.pc = "idle"
  BY DEF NoSeed, Seed, SeedPcs
<1>7. TypeOK
  BY <1>2, <1>3, <1>4, <1>5, <1>6 DEF TypeOK
<1>8. JobKnows /\ WriterKnows /\ SeedKnows
  BY <1>4, <1>5, <1>6
     DEF JobKnows, WriterKnows, SeedKnows, JobActive, WriterActive, SeedActive
<1> QED
  BY <1>7, <1>8 DEF TypeInv

\* Setting the answer on a row keeps both chains typed.
LEMMA TypeAnswer ==
    ASSUME TypeInv, NEW s \in Submits, writer[s].pc = "find",
           NEW pc \in {"insert", "save"}, NEW r \in RowIds, NEW a \in Responses,
           Answer(s, pc, r, a)
    PROVE  /\ job' \in [Jobs -> Job] /\ JobKnows'
           /\ writer' \in [Submits -> Writer] /\ WriterKnows'
<1> DEFINE w == [writer[s] EXCEPT !.pc = pc, !.row = r, !.attended = a]
           x == StartJob(writer[s].user, KindOf(writer[s].response, a))
<1>1. writer[s] \in Writer /\ writer[s].user \in Users /\ writer[s].event \in Events
  BY DEF TypeInv, TypeOK, WriterKnows, WriterActive
<1>2. /\ w \in Writer /\ w.user \in Users /\ w.event \in Events /\ w.row \in RowIds
  BY <1>1 DEF Writer, WriterPcs
<1>3. x \in Job /\ x.user \in Users
  BY <1>1, KindOfType, StartType
<1>4. writer' = [writer EXCEPT ![s] = w] /\ job' = [job EXCEPT ![s] = x]
  BY DEF Answer
<1>5. s \in Jobs
  BY DEF Jobs
<1> HIDE DEF w, x
<1> QED
  BY <1>2, <1>3, <1>4, <1>5, WriterSet, JobSet

LEMMA DisturbsType == ASSUME TypeInv, Disturbs PROVE disturbed' \subseteq Submits
  BY DEF Disturbs, TypeInv, TypeOK

\* The answering chain.
LEMMA TypeFindRsvp == ASSUME TypeInv, NEW s \in Submits, FindRsvp(s) PROVE TypeInv'
<1> DEFINE u == writer[s].user
           e == writer[s].event
<1>1. /\ writer[s].pc = "find" /\ Cross(s, u, e)
      /\ UNCHANGED <<account, rsvp, past, seed, credit, raced, disturbed>>
      /\ \/ Answer(s, "insert", s, "unknown")
         \/ \E r \in Rows(u, e) : Answer(s, "save", r, rsvp[r].attended)
  BY DEF FindRsvp
<1>2. u \in Users /\ e \in Events
  BY <1>1 DEF TypeInv, TypeOK, WriterKnows, WriterActive
<1>3. crossed' \subseteq Users \X Events
  BY <1>1, <1>2 DEF Cross, TypeInv, TypeOK
<1>4. s \in RowIds /\ "unknown" \in Responses
  BY DEF RowIds, Responses
<1>5. \A r \in Rows(u, e) : r \in RowIds /\ rsvp[r].attended \in Responses
  BY DEF Rows, TypeInv, TypeOK, Row, NoRow, Responses
<1>6. /\ job' \in [Jobs -> Job] /\ JobKnows'
      /\ writer' \in [Submits -> Writer] /\ WriterKnows'
  BY <1>1, <1>4, <1>5, TypeAnswer
<1> QED
  BY <1>1, <1>3, <1>6 DEF TypeInv, TypeOK, SeedKnows, SeedActive

LEMMA TypeWriterStep == ASSUME TypeInv, NEW s \in Submits, WriterStep(s) PROVE TypeInv'
<1>1. CASE FindRsvp(s)
  BY <1>1, TypeFindRsvp
<1>2. CASE SaveRsvp(s)
  <2> DEFINE diff == {c \in {"response", "attended"} :
                        writer[s][c] # rsvp[writer[s].row][c]}
             w == IF rsvp[writer[s].row] = NoRow THEN [writer[s] EXCEPT !.pc = "insert"]
                  ELSE IF diff = {} THEN EndWriter(s, "done")
                  ELSE [writer[s] EXCEPT !.pc = "update", !.cols = diff]
  <2>1. diff \in SUBSET {"response", "attended"}
    OBVIOUS
  <2>2. /\ UNCHANGED <<account, rsvp, past, job, seed, credit, raced, crossed, disturbed>>
        /\ writer[s].pc = "save"
        /\ writer' = [writer EXCEPT ![s] = w]
    BY <1>2 DEF SaveRsvp, ghosts
  <2>3. writer[s] \in Writer /\ writer[s].user \in Users /\ writer[s].event \in Events
          /\ writer[s].row \in RowIds
    BY <2>2 DEF TypeInv, TypeOK, WriterKnows, WriterActive
  <2>4. EndWriter(s, "done") \in Writer /\ EndWriter(s, "done").pc = "done"
    BY EndWriterType
  <2>5. /\ w \in Writer
        /\ w.pc # "done" => /\ w.user \in Users /\ w.event \in Events
                            /\ w.row \in RowIds
    <3> HIDE DEF diff
    <3> QED
      BY <2>1, <2>3, <2>4 DEF Writer, WriterPcs
  <2>6. writer' \in [Submits -> Writer] /\ WriterKnows'
    <3> HIDE DEF w
    <3> QED
      BY <2>2, <2>5, WriterSet
  <2> QED
    BY <2>2, <2>6 DEF TypeInv, TypeOK, JobKnows, JobActive, SeedKnows, SeedActive
<1>3. ASSUME writer' = [writer EXCEPT ![s] = EndWriter(s, "done")],
             UNCHANGED <<account, past, job, seed, credit, raced, crossed>>,
             disturbed' \subseteq Submits,
             rsvp' \in [RowIds -> Row \union {NoRow}]
      PROVE  TypeInv'
  <2>1. EndWriter(s, "done") \in Writer /\ EndWriter(s, "done").pc = "done"
    BY EndWriterType
  <2>2. writer' \in [Submits -> Writer] /\ WriterKnows'
    BY <1>3, <2>1, WriterSet
  <2> QED
    BY <1>3, <2>2 DEF TypeInv, TypeOK, JobKnows, JobActive, SeedKnows, SeedActive, ghosts
<1>4. CASE UpdateRsvp(s)
  <2> DEFINE r == writer[s].row
             column(c) == IF c \in writer[s].cols THEN writer[s][c] ELSE rsvp[r][c]
             row == [rsvp[r] EXCEPT !.response = column("response"),
                                    !.attended = column("attended")]
  <2>1. r \in RowIds
    BY <1>4 DEF UpdateRsvp, TypeInv, WriterKnows
  <2>2. rsvp[r] # NoRow => rsvp[r] \in Row
    BY <2>1 DEF TypeInv, TypeOK
  <2>3. writer[s].response \in Responses /\ writer[s].attended \in Responses
    BY DEF TypeInv, TypeOK, Writer
  <2>4. rsvp[r] # NoRow => row \in Row
    BY <2>2, <2>3 DEF Row
  <2>5. rsvp' = IF rsvp[r] = NoRow THEN rsvp ELSE [rsvp EXCEPT ![r] = row]
    BY <1>4, <2>1 DEF UpdateRsvp, TypeInv, TypeOK
  <2>6. rsvp' \in [RowIds -> Row \union {NoRow}]
    <3> HIDE DEF r, row
    <3> QED
      BY <2>1, <2>4, <2>5 DEF TypeInv, TypeOK
  <2> QED
    BY <1>3, <1>4, <2>6, DisturbsType DEF UpdateRsvp
<1>5. CASE InsertRsvp(s)
  <2>1. /\ writer[s].user \in Users /\ writer[s].event \in Events
        /\ writer[s].response \in Responses /\ writer[s].attended \in Responses
    BY <1>5 DEF InsertRsvp, TypeInv, TypeOK, Writer, WriterKnows, WriterActive
  <2>2. rsvp' \in [RowIds -> Row \union {NoRow}]
    BY <1>5, <2>1 DEF InsertRsvp, Row, TypeInv, TypeOK
  <2> QED
    BY <1>3, <1>5, <2>2, DisturbsType DEF InsertRsvp
<1> QED
  BY <1>1, <1>2, <1>4, <1>5 DEF WriterStep

\* The score chain.
LEMMA TypeJobStep == ASSUME TypeInv, NEW j \in Jobs, JobStep(j) PROVE TypeInv'
<1>1. job[j] \in Job
  BY DEF TypeInv, TypeOK
<1>2. job[j].user \in Users
  BY DEF JobStep, ReadUser, SaveUser, UpdateUser, TypeInv, JobKnows, JobActive
<1>3. EndJob(j, "done") \in Job /\ EndJob(j, "done").pc = "done"
  BY EndJobType
<1>4. account[job[j].user] \in Account
  BY <1>2 DEF TypeInv, TypeOK
<1>5. CASE ReadUser(j)
  <2> DEFINE u == job[j].user
             a == Apply(job[j].kind, account[u], j)
             x == [job[j] EXCEPT !.pc = "load", !.copy = a]
  <2>1. a \in Account
    BY <1>1, <1>4, ApplyType DEF Job
  <2>2. x \in Job /\ x.user = u
    <3> HIDE DEF a
    <3> QED
      BY <1>1, <2>1 DEF Job, JobPcs
  <2>3. job' = [job EXCEPT ![j] = x]
    BY <1>5 DEF ReadUser
  <2>4. job' \in [Jobs -> Job] /\ JobKnows'
    <3> HIDE DEF x
    <3> QED
      BY <1>2, <2>2, <2>3, JobSet
  <2>5. credit' \in [Users -> Nat] /\ raced' \subseteq Users
    BY <1>2, <1>5 DEF ReadUser, TypeInv, TypeOK
  <2>6. UNCHANGED <<account, rsvp, past, writer, seed, crossed, disturbed>>
    BY <1>5 DEF ReadUser
  <2> QED
    BY <2>4, <2>5, <2>6
       DEF TypeInv, TypeOK, WriterKnows, WriterActive, SeedKnows, SeedActive
<1>6. CASE SaveUser(j)
  <2> DEFINE diff == Diff(job[j].copy, account[job[j].user])
             x == IF diff = {} THEN EndJob(j, "done")
                  ELSE [job[j] EXCEPT !.pc = "write", !.cols = diff]
  <2>1. diff \in SUBSET Columns
    BY DEF Diff
  <2>2. x \in Job /\ (x.pc # "done" => x.user \in Users)
    <3> HIDE DEF diff
    <3> QED
      BY <1>1, <1>2, <1>3, <2>1 DEF Job, JobPcs
  <2>3. /\ job' = [job EXCEPT ![j] = x]
        /\ UNCHANGED <<account, rsvp, past, writer, seed, ghosts>>
    BY <1>6 DEF SaveUser
  <2>4. job' \in [Jobs -> Job] /\ JobKnows'
    <3> HIDE DEF x
    <3> QED
      BY <2>2, <2>3, JobSet
  <2> QED
    BY <2>3, <2>4
       DEF TypeInv, TypeOK, WriterKnows, WriterActive, SeedKnows, SeedActive, ghosts
<1>7. CASE UpdateUser(j)
  <2>1. Written(account[job[j].user], job[j].copy, job[j].cols) \in Account
    BY <1>1, <1>4, WrittenType DEF Job
  <2>2. account' \in [Users -> Account]
    BY <1>7, <2>1 DEF UpdateUser, TypeInv, TypeOK
  <2>3. job' \in [Jobs -> Job] /\ JobKnows'
    BY <1>3, <1>7, JobSet DEF UpdateUser
  <2> QED
    BY <1>7, <2>2, <2>3
       DEF UpdateUser, TypeInv, TypeOK, WriterKnows, WriterActive, SeedKnows, SeedActive,
           ghosts
<1> QED
  BY <1>5, <1>6, <1>7 DEF JobStep

\* Requests that come in, coordinators, time and crashes.
LEMMA TypeOther ==
    ASSUME TypeInv, [Next]_vars,
           ~ \E s \in Submits : WriterStep(s), ~ \E j \in Jobs : JobStep(j)
    PROVE  TypeInv'
<1> USE DEF TypeInv, TypeOK
<1>1. ASSUME NEW s \in Submits, NEW u \in Users, NEW e \in Events, NEW x \in Responses,
             SubmitRsvp(s, u, e, x)
      PROVE  TypeInv'
  <2> DEFINE w == [NoWriter EXCEPT !.pc = IF e \in past THEN "refused" ELSE "find",
                                   !.user = u, !.event = e, !.response = x]
  <2>1. /\ w \in Writer /\ w.user \in Users /\ w.event \in Events
        /\ w.pc \in {"refused", "find"}
    BY DEF NoWriter, Writer, WriterPcs, Responses
  <2>2. /\ writer' = [writer EXCEPT ![s] = w]
        /\ UNCHANGED <<account, rsvp, past, job, seed, ghosts>>
    BY <1>1 DEF SubmitRsvp
  <2>3. writer' \in [Submits -> Writer] /\ WriterKnows'
    <3> HIDE DEF w
    <3> QED
      BY <2>1, <2>2, WriterSet
  <2> QED
    BY <2>2, <2>3 DEF JobKnows, JobActive, SeedKnows, SeedActive, ghosts
<1>2. ASSUME NEW b \in Batches, NEW ids \in SUBSET Users, NEW absent \in BOOLEAN,
             UpdateAbsentStatusBatch(b, ids, absent)
      PROVE  TypeInv'
  <2> DEFINE kind == IF absent THEN "none" ELSE "forgive"
             x(j) == StartJob(j[2], kind)
  <2>1. \A j \in Jobs : (\E u \in ids : j = <<b, u>>) => j[2] \in Users
    OBVIOUS
  <2>2. \A j \in Jobs : (\E u \in ids : j = <<b, u>>) => x(j) \in Job /\ x(j).user \in Users
    BY <2>1, StartType DEF Kinds
  <2>3. /\ UNCHANGED <<account, rsvp, past, writer, seed, credit, raced, crossed, disturbed>>
        /\ job' = [j \in Jobs |-> IF \E u \in ids : j = <<b, u>> THEN x(j) ELSE job[j]]
    BY <1>2 DEF UpdateAbsentStatusBatch, ghosts
  <2> HIDE DEF x
  <2>4. job' \in [Jobs -> Job] /\ JobKnows'
    BY <2>2, <2>3 DEF JobKnows, JobActive
  <2> QED
    BY <2>3, <2>4 DEF WriterKnows, WriterActive, SeedKnows, SeedActive
<1>3. ASSUME NEW w \in Seeds, NEW u \in Users, NEW e \in Events, SeedFindRsvp(w, u, e)
      PROVE  TypeInv'
  <2>1. seed' \in [Seeds -> Seed] /\ SeedKnows'
    BY <1>3 DEF SeedFindRsvp, Seed, SeedPcs, SeedKnows, SeedActive
  <2>2. crossed' \subseteq Users \X Events
    BY <1>3 DEF SeedFindRsvp, Cross
  <2> QED
    BY <1>3, <2>1, <2>2
       DEF SeedFindRsvp, JobKnows, JobActive, WriterKnows, WriterActive
<1>4. ASSUME NEW w \in Seeds, MakeUnknownRsvp(w) PROVE TypeInv'
  <2>1. seed' \in [Seeds -> Seed] /\ SeedKnows'
    BY <1>4 DEF MakeUnknownRsvp, Seed, SeedPcs, SeedKnows, SeedActive
  <2>2. rsvp' \in [RowIds -> Row \union {NoRow}]
    BY <1>4 DEF MakeUnknownRsvp, Row, Responses, SeedKnows, SeedActive, RowIds
  <2> QED
    BY <1>4, <2>1, <2>2, DisturbsType
       DEF MakeUnknownRsvp, JobKnows, JobActive, WriterKnows, WriterActive, ghosts
<1>5. ASSUME NEW r \in RowIds, NEW a \in Responses, MarkAttended(r, a) PROVE TypeInv'
  <2>1. rsvp' \in [RowIds -> Row \union {NoRow}]
    BY <1>5 DEF MarkAttended, Row
  <2>2. crossed' \subseteq Users \X Events
    BY <1>5 DEF MarkAttended, Row
  <2> QED
    BY <1>5, <2>1, <2>2
       DEF MarkAttended, JobKnows, JobActive, WriterKnows, WriterActive, SeedKnows, SeedActive
<1>6. ASSUME NEW r \in RowIds, DeleteRsvp(r) PROVE TypeInv'
  BY <1>6, DisturbsType DEF DeleteRsvp, JobKnows, JobActive, WriterKnows, WriterActive, SeedKnows,
              SeedActive, ghosts
<1>7. ASSUME NEW e \in Events, EventStarts(e) PROVE TypeInv'
  BY <1>7 DEF EventStarts, JobKnows, JobActive, WriterKnows, WriterActive, SeedKnows,
              SeedActive, ghosts
<1>8. CASE Crash
  <2>1. /\ UNCHANGED <<account, rsvp, past, credit, raced, crossed, disturbed>>
        /\ job' = [j \in Jobs |-> IF JobActive(j) THEN EndJob(j, "lost") ELSE job[j]]
        /\ writer' = [s \in Submits |-> IF WriterActive(s) THEN EndWriter(s, "lost")
                                        ELSE writer[s]]
        /\ seed' = [w \in Seeds |-> IF SeedActive(w) THEN [seed[w] EXCEPT !.pc = "lost"]
                                    ELSE seed[w]]
    BY <1>8 DEF Crash, ghosts
  <2>2. job' \in [Jobs -> Job] /\ JobKnows'
    BY <2>1, EndJobType DEF JobKnows, JobActive
  <2>3. writer' \in [Submits -> Writer] /\ WriterKnows'
    BY <2>1, EndWriterType DEF WriterKnows, WriterActive
  <2>4. seed' \in [Seeds -> Seed] /\ SeedKnows'
    BY <2>1 DEF Seed, SeedPcs, SeedKnows, SeedActive
  <2> QED
    BY <2>1, <2>2, <2>3, <2>4
<1>9. CASE UNCHANGED vars
  BY <1>9 DEF vars, JobKnows, JobActive, WriterKnows, WriterActive, SeedKnows, SeedActive
<1>10. ASSUME NEW r \in RowIds, NEW x \in Responses, EditResponse(r, x) PROVE TypeInv'
  <2>1. rsvp' \in [RowIds -> Row \union {NoRow}]
    BY <1>10 DEF EditResponse, Row
  <2> QED
    BY <1>10, <2>1, DisturbsType DEF EditResponse, JobKnows, JobActive, WriterKnows, WriterActive, SeedKnows,
                       SeedActive, ghosts
<1>11. ASSUME NEW w \in Seeds, NEW u \in Users, NEW e \in Events, NEW x \in Responses,
              CreateRsvp(w, u, e, x)
       PROVE  TypeInv'
  <2>1. seed' \in [Seeds -> Seed] /\ SeedKnows'
    BY <1>11 DEF CreateRsvp, Seed, SeedPcs, SeedKnows, SeedActive
  <2>2. crossed' \subseteq Users \X Events
    BY <1>11 DEF CreateRsvp
  <2>3. rsvp' \in [RowIds -> Row \union {NoRow}]
    BY <1>11 DEF CreateRsvp, Row, Responses, RowIds
  <2> QED
    BY <1>11, <2>1, <2>2, <2>3, DisturbsType
       DEF CreateRsvp, JobKnows, JobActive, WriterKnows, WriterActive
<1> QED
  BY <1>1, <1>2, <1>3, <1>4, <1>5, <1>6, <1>7, <1>8, <1>9, <1>10, <1>11 DEF Next

LEMMA TypeStep == TypeInv /\ [Next]_vars => TypeInv'
  BY TypeWriterStep, TypeJobStep, TypeOther

\* Every reachable state is well typed, and every chain in progress knows its
\* member, event and row.
THEOREM TypeCorrect == Spec => []TypeOK
<1>1. TypeInv => TypeOK
  BY DEF TypeInv
<1> QED
  BY TypeInit, TypeStep, <1>1, PTL DEF Spec

-----------------------------------------------------------------------------
(* The score and the absence columns.                                      *)
(*                                                                         *)
(* Neither ScoreBounded nor AbsenceJustified is inductive: a job in        *)
(* progress may be about to write anything.  What is, is that a copy held  *)
(* by a job is within the credit of its member and, as long as no other    *)
(* job held the account meanwhile, still what a fresh read would give.     *)

Holds(j, u) == job[j].user = u /\ job[j].pc \in {"load", "write"}

\* A stored score, and a score about to be stored, is within the credit.
CreditInv ==
    /\ \A u \in Users : account[u].rsvpScore <= credit[u]
    /\ \A j \in Jobs, u \in Users : Holds(j, u) => job[j].copy.rsvpScore <= credit[u]

Justified(a) == a.absent => a.rsvpScore < AbsentBelow /\ a.absentSince # Null

\* An account never raced for has one holder at most, whose copy is up to date.
HoldInv ==
    \A u \in Users \ raced :
        /\ Justified(account[u])
        /\ \A j \in Jobs : Holds(j, u) =>
             /\ \A k \in Jobs : Holds(k, u) => k = j
             /\ job[j].copy = Apply(job[j].kind, account[u], j)
             /\ job[j].pc = "write" => job[j].cols = Diff(job[j].copy, account[u])

\* An answer applied to a justified absence leaves a justified absence, and
\* keeps its starting moment if it goes on.
LEMMA ApplyJustified ==
    ASSUME NEW kind \in Kinds, NEW a \in Account, NEW j \in Jobs, Justified(a)
    PROVE  /\ Justified(Apply(kind, a, j))
           /\ a.absent /\ Apply(kind, a, j).absent
                => Apply(kind, a, j).absentSince = a.absentSince
<1> USE DEF Account, Justified
<1> DEFINE b == [a EXCEPT !.rsvpScore = NewScore(kind, a.rsvpScore)]
<1>1. /\ b.absent = a.absent /\ b.absentSince = a.absentSince
      /\ b.absent \in BOOLEAN /\ b.rsvpScore \in Nat
  BY DEF NewScore
<1>2. j # Null
  BY NullAssumption DEF Jobs
<1> HIDE DEF b
<1>3. /\ checkScore(b, j).absent =>
            checkScore(b, j).rsvpScore < 3 /\ checkScore(b, j).absentSince # Null
      /\ a.absent /\ checkScore(b, j).absent => checkScore(b, j).absentSince = a.absentSince
  BY <1>1, <1>2 DEF checkScore, AbsentBelow
<1>4. CASE kind = "forgive"
  BY <1>4 DEF Apply
<1>5. CASE kind # "forgive"
  <2>1. Apply(kind, a, j) = checkScore(b, j)
    BY <1>5 DEF Apply, b
  <2> QED
    BY <2>1, <1>3 DEF AbsentBelow
<1> QED
  BY <1>4, <1>5

\* Writing every column in which an entity differs from its row stores the entity.
LEMMA WrittenAll ==
    ASSUME NEW a \in Account, NEW b \in Account
    PROVE  Written(a, b, Diff(b, a)) = b
  BY DEF Written, Diff, Columns, Account

\* If no column differs the row already is the entity.
LEMMA NoDiff ==
    ASSUME NEW a \in Account, NEW b \in Account, Diff(b, a) = {}
    PROVE  b = a
  BY DEF Diff, Columns, Account

\* A written score is that of the row or that of the entity.
LEMMA WrittenScore ==
    ASSUME NEW a \in Account, NEW b \in Account, NEW cols
    PROVE  Written(a, b, cols).rsvpScore \in {a.rsvpScore, b.rsvpScore}
  BY DEF Written

LEMMA ScoreInit == Init => CreditInv /\ HoldInv
<1> SUFFICES ASSUME Init PROVE CreditInv /\ HoldInv
  OBVIOUS
<1>1. TypeInv
  BY TypeInit
<1>2. \A j \in Jobs, u \in Users : ~Holds(j, u)
  BY DEF Init, Holds, NoJob
<1>3. \A u \in Users : account[u].rsvpScore <= credit[u]
  BY <1>1 DEF Init, TypeInv, TypeOK, Account
<1>4. \A u \in Users : account[u] = Fresh \/ \E n \in StartScores : account[u] = Settled(n)
  BY DEF Init
<1>5. Justified(Fresh) /\ \A n \in StartScores : Justified(Settled(n))
  <2>1. Before # Null
    BY NullAssumption DEF Before
  <2> QED
    BY <2>1, StartScoresAssumption DEF Justified, Fresh, Settled, AbsentBelow
<1>6. \A u \in Users : Justified(account[u])
  BY <1>4, <1>5
<1> QED
  BY <1>2, <1>3, <1>6 DEF CreditInv, HoldInv

\* Only the score chain moves accounts, and only it takes hold of one.
LEMMA OtherSteps ==
    ASSUME TypeInv, [Next]_vars, ~ \E j \in Jobs : JobStep(j)
    PROVE  /\ UNCHANGED <<account, credit, raced>>
           /\ \A j \in Jobs, u \in Users : Holds(j, u)' => Holds(j, u) /\ job'[j] = job[j]
<1> DEFINE Good == /\ UNCHANGED <<account, credit, raced>>
                   /\ \A j \in Jobs : job'[j] = job[j] \/ job'[j].pc \in {"read", "lost"}
<1>1. ASSUME NEW s \in Submits, WriterStep(s) PROVE Good
  <2>1. CASE FindRsvp(s)
    <3>1. \A u, kind : StartJob(u, kind).pc = "read"
      BY DEF StartJob, NoJob
    <3>2. UNCHANGED <<account, credit, raced>> /\ \E x : /\ x.pc = "read"
                                                         /\ job' = [job EXCEPT ![s] = x]
      BY <2>1, <3>1 DEF FindRsvp, Answer
    <3> QED
      BY <3>2 DEF TypeInv, TypeOK
  <2>2. CASE SaveRsvp(s) \/ UpdateRsvp(s) \/ InsertRsvp(s)
    BY <2>2 DEF SaveRsvp, UpdateRsvp, InsertRsvp, ghosts
  <2> QED
    BY <1>1, <2>1, <2>2 DEF WriterStep
<1>2. ASSUME NEW s \in Submits, NEW u \in Users, NEW e \in Events, NEW x \in Responses,
             SubmitRsvp(s, u, e, x)
      PROVE  Good
  BY <1>2 DEF SubmitRsvp, ghosts
<1>3. ASSUME NEW b \in Batches, NEW ids \in SUBSET Users, NEW absent \in BOOLEAN,
             UpdateAbsentStatusBatch(b, ids, absent)
      PROVE  Good
  BY <1>3 DEF UpdateAbsentStatusBatch, StartJob, NoJob, ghosts
<1>4. ASSUME NEW w \in Seeds, NEW u \in Users, NEW e \in Events, SeedFindRsvp(w, u, e)
      PROVE  Good
  BY <1>4 DEF SeedFindRsvp
<1>5. ASSUME NEW w \in Seeds, MakeUnknownRsvp(w) PROVE Good
  BY <1>5 DEF MakeUnknownRsvp, ghosts
<1>6. ASSUME NEW r \in RowIds, NEW a \in Responses, MarkAttended(r, a) PROVE Good
  BY <1>6 DEF MarkAttended
<1>7. ASSUME NEW r \in RowIds, DeleteRsvp(r) PROVE Good
  BY <1>7 DEF DeleteRsvp, ghosts
<1>8. ASSUME NEW e \in Events, EventStarts(e) PROVE Good
  BY <1>8 DEF EventStarts, ghosts
<1>9. ASSUME Crash PROVE Good
  BY <1>9, EndJobType DEF Crash, ghosts
<1>10. ASSUME UNCHANGED vars PROVE Good
  BY <1>10 DEF vars
<1>12. ASSUME NEW r \in RowIds, NEW x \in Responses, EditResponse(r, x) PROVE Good
  BY <1>12 DEF EditResponse, ghosts
<1>13. ASSUME NEW w \in Seeds, NEW u \in Users, NEW e \in Events, NEW x \in Responses,
              CreateRsvp(w, u, e, x)
       PROVE  Good
  BY <1>13 DEF CreateRsvp
<1>11. Good
  BY <1>1, <1>2, <1>3, <1>4, <1>5, <1>6, <1>7, <1>8, <1>9, <1>10, <1>12, <1>13 DEF Next
<1> QED
  BY <1>11 DEF Holds

ScoreInv == TypeInv /\ CreditInv /\ HoldInv

\* The three steps of a score job.  Jobs other than the one that moves keep
\* their state, so only its own member needs care.
LEMMA ScoreJobStep ==
    ASSUME ScoreInv, NEW j \in Jobs, JobStep(j)
    PROVE  (CreditInv /\ HoldInv)'
<1> DEFINE u == job[j].user
           a == account[u]
<1>1. /\ job \in [Jobs -> Job] /\ account \in [Users -> Account]
      /\ credit \in [Users -> Nat] /\ raced \subseteq Users
  BY DEF ScoreInv, TypeInv, TypeOK
<1>2. u \in Users
  BY DEF ScoreInv, TypeInv, JobStep, ReadUser, SaveUser, UpdateUser, JobKnows, JobActive
<1>3. /\ a \in Account /\ a.rsvpScore \in Nat
      /\ job[j].copy \in Account /\ job[j].copy.rsvpScore \in Nat /\ job[j].kind \in Kinds
  BY <1>1, <1>2 DEF Job, Account
<1>4. EndJob(j, "done").pc = "done"
  BY DEF EndJob
<1>5. CASE ReadUser(j)
  <2> DEFINE c == Apply(job[j].kind, a, j)
  <2>1. /\ job' = [job EXCEPT ![j].pc = "load", ![j].copy = c]
        /\ credit' = [credit EXCEPT ![u] = IF job[j].kind = "yes" THEN @ + 1 ELSE @]
        /\ raced' = IF Held(j, u) THEN raced \union {u} ELSE raced
        /\ account' = account /\ job[j].pc = "read"
    BY <1>5 DEF ReadUser
  <2>2. c \in Account /\ c.rsvpScore \in Nat
    BY <1>3, ApplyType DEF Account
  <2>3. c.rsvpScore <= credit'[u]
    <3>1. c.rsvpScore <= IF job[j].kind = "yes" THEN a.rsvpScore + 1 ELSE a.rsvpScore
      BY <1>3, ApplyScore
    <3>2. a.rsvpScore <= credit[u] /\ credit[u] \in Nat
      BY <1>1, <1>2 DEF ScoreInv, CreditInv
    <3> HIDE DEF c
    <3> QED
      BY <1>1, <1>2, <1>3, <2>1, <2>2, <3>1, <3>2
  <2>4. \A v \in Users : credit[v] <= credit'[v] /\ credit[v] \in Nat /\ credit'[v] \in Nat
    BY <1>1, <1>2, <2>1
  <2>5. \A k \in Jobs : k # j => job'[k] = job[k]
    BY <1>1, <2>1
  <2>6. /\ job'[j].user = u /\ job'[j].copy = c /\ job'[j].pc = "load"
        /\ job'[j].kind = job[j].kind
    BY <1>1, <2>1 DEF Job
  <2> HIDE DEF c
  <2>7. CreditInv'
    <3>1. ASSUME NEW v \in Users PROVE account'[v].rsvpScore <= credit'[v]
      <4>1. account[v].rsvpScore <= credit[v] /\ account[v].rsvpScore \in Nat
        BY <1>1 DEF ScoreInv, CreditInv, Account
      <4> QED
        BY <2>1, <2>4, <4>1
    <3>2. ASSUME NEW k \in Jobs, NEW v \in Users, Holds(k, v)'
          PROVE  job'[k].copy.rsvpScore <= credit'[v]
      <4>1. CASE k = j
        BY <3>2, <4>1, <2>3, <2>6 DEF Holds
      <4>2. CASE k # j
        <5>1. job[k].copy.rsvpScore <= credit[v] /\ job[k].copy.rsvpScore \in Nat
          BY <1>1, <3>2, <4>2, <2>5 DEF ScoreInv, CreditInv, Holds, Job, Account
        <5> QED
          BY <2>4, <2>5, <4>2, <5>1
      <4> QED
        BY <4>1, <4>2
    <3> QED
      BY <3>1, <3>2 DEF CreditInv
  <2>8. HoldInv'
    <3> SUFFICES ASSUME NEW v \in Users \ raced'
                 PROVE  /\ Justified(account'[v])
                        /\ \A i \in Jobs : Holds(i, v)' =>
                             /\ \A k \in Jobs : Holds(k, v)' => k = i
                             /\ job'[i].copy = Apply(job'[i].kind, account'[v], i)
                             /\ job'[i].pc = "write" =>
                                  job'[i].cols = Diff(job'[i].copy, account'[v])
      BY DEF HoldInv, Justified, Holds
    <3>1. v \in Users \ raced
      BY <2>1
    <3>2. Justified(account'[v])
      BY <2>1, <3>1 DEF ScoreInv, HoldInv
    <3>3. CASE v # u
      <4>1. \A k \in Jobs : Holds(k, v)' => k # j /\ Holds(k, v)
        BY <2>5, <2>6, <3>3 DEF Holds
      <4> QED
        BY <2>1, <2>5, <3>1, <3>2, <4>1 DEF ScoreInv, HoldInv
    <3>4. CASE v = u
      <4>1. \A k \in Jobs \ {j} : ~Holds(k, u)
        BY <2>1, <3>4 DEF Held, Holds
      <4>2. \A k \in Jobs : Holds(k, v)' => k = j
        BY <2>5, <3>4, <4>1 DEF Holds
      <4> QED
        BY <2>1, <2>6, <3>2, <3>4, <4>2 DEF c
    <3> QED
      BY <3>3, <3>4
  <2> QED
    BY <2>7, <2>8
<1>6. CASE SaveUser(j)
  <2>1. /\ job[j].pc = "load" /\ UNCHANGED <<account, credit, raced>>
        /\ job' = [job EXCEPT ![j] =
                     IF Diff(job[j].copy, a) = {} THEN EndJob(j, "done")
                     ELSE [job[j] EXCEPT !.pc = "write", !.cols = Diff(job[j].copy, a)]]
    BY <1>6 DEF SaveUser, ghosts
  <2>2. \A k \in Jobs : k # j => job'[k] = job[k]
    BY <1>1, <2>1
  <2>3. \/ job'[j].pc = "done"
        \/ /\ job'[j].user = u /\ job'[j].copy = job[j].copy /\ job'[j].kind = job[j].kind
           /\ job'[j].cols = Diff(job[j].copy, a) /\ job'[j].pc = "write"
    <3>1. CASE Diff(job[j].copy, a) = {}
      BY <1>1, <1>4, <2>1, <3>1
    <3>2. CASE Diff(job[j].copy, a) # {}
      BY <1>1, <2>1, <3>2 DEF Job
    <3> QED
      BY <3>1, <3>2
  <2>4. \A k \in Jobs, v \in Users : Holds(k, v)' =>
          /\ Holds(k, v) /\ job'[k].copy = job[k].copy /\ job'[k].kind = job[k].kind
          /\ k = j => job'[k].cols = Diff(job[k].copy, account[v])
    BY <2>1, <2>2, <2>3 DEF Holds
  <2>5. CreditInv'
    BY <2>1, <2>4 DEF ScoreInv, CreditInv
  <2>6. HoldInv'
    BY <2>1, <2>2, <2>4 DEF ScoreInv, HoldInv, Justified
  <2> QED
    BY <2>5, <2>6
<1>7. CASE UpdateUser(j)
  <2> DEFINE b == Written(a, job[j].copy, job[j].cols)
  <2>1. /\ job[j].pc = "write" /\ UNCHANGED <<credit, raced>>
        /\ account' = [account EXCEPT ![u] = b]
        /\ job' = [job EXCEPT ![j] = EndJob(j, "done")]
    BY <1>7 DEF UpdateUser, ghosts
  <2>2. \A k \in Jobs : k # j => job'[k] = job[k]
    BY <1>1, <2>1
  <2>3. \A k \in Jobs, v \in Users : Holds(k, v)' => k # j /\ Holds(k, v) /\ job'[k] = job[k]
    BY <1>1, <1>4, <2>1, <2>2 DEF Holds
  <2>4. Holds(j, u)
    BY <2>1 DEF Holds
  <2>5. CreditInv'
    <3>1. b.rsvpScore <= credit[u]
      BY <1>2, <2>4, WrittenScore, <1>3 DEF ScoreInv, CreditInv
    <3> HIDE DEF b
    <3>2. \A v \in Users : account'[v].rsvpScore <= credit'[v]
      BY <1>1, <1>2, <2>1, <3>1 DEF ScoreInv, CreditInv
    <3> QED
      BY <2>1, <2>3, <3>2 DEF ScoreInv, CreditInv
  <2>6. HoldInv'
    <3> SUFFICES ASSUME NEW v \in Users \ raced
                 PROVE  /\ Justified(account'[v])
                        /\ \A i \in Jobs : Holds(i, v)' =>
                             /\ \A k \in Jobs : Holds(k, v)' => k = i
                             /\ job'[i].copy = Apply(job'[i].kind, account'[v], i)
                             /\ job'[i].pc = "write" =>
                                  job'[i].cols = Diff(job'[i].copy, account'[v])
      BY <2>1 DEF HoldInv, Justified, Holds
    <3>1. CASE v # u
      <4>1. account'[v] = account[v]
        <5> HIDE DEF b
        <5> QED
          BY <1>1, <2>1, <3>1
      <4> QED
        BY <2>3, <4>1 DEF ScoreInv, HoldInv
    <3>2. CASE v = u
      <4>1. /\ \A k \in Jobs : Holds(k, u) => k = j
            /\ job[j].copy = Apply(job[j].kind, a, j)
            /\ job[j].cols = Diff(job[j].copy, a)
            /\ Justified(a)
        BY <2>1, <2>4, <3>2 DEF ScoreInv, HoldInv
      <4>2. b = job[j].copy
        BY <1>3, <4>1, WrittenAll
      <4>3. Justified(b)
        BY <1>3, <4>1, <4>2, ApplyJustified
      <4>4. account'[v] = b
        <5> HIDE DEF b
        <5> QED
          BY <1>1, <2>1, <3>2
      <4>5. \A k \in Jobs : ~Holds(k, v)'
        BY <2>3, <3>2, <4>1
      <4> QED
        BY <4>3, <4>4, <4>5
    <3> QED
      BY <3>1, <3>2
  <2> QED
    BY <2>5, <2>6
<1> QED
  BY <1>5, <1>6, <1>7 DEF JobStep

LEMMA ScoreStep == ScoreInv /\ [Next]_vars => ScoreInv'
<1> SUFFICES ASSUME ScoreInv, [Next]_vars PROVE ScoreInv'
  OBVIOUS
<1>1. TypeInv'
  BY TypeStep DEF ScoreInv
<1>2. CASE \E j \in Jobs : JobStep(j)
  BY <1>1, <1>2, ScoreJobStep DEF ScoreInv
<1>3. CASE ~ \E j \in Jobs : JobStep(j)
  <2>1. /\ UNCHANGED <<account, credit, raced>>
        /\ \A j \in Jobs, u \in Users : Holds(j, u)' => Holds(j, u) /\ job'[j] = job[j]
    BY <1>3, OtherSteps DEF ScoreInv
  <2>2. CreditInv'
    BY <2>1 DEF ScoreInv, CreditInv
  <2>3. HoldInv'
    BY <2>1 DEF ScoreInv, HoldInv, Justified
  <2> QED
    BY <1>1, <2>2, <2>3 DEF ScoreInv
<1> QED
  BY <1>2, <1>3

LEMMA ScoreInvariant == Spec => []ScoreInv
<1>1. Init => ScoreInv
  BY TypeInit, ScoreInit DEF ScoreInv
<1> QED
  BY <1>1, ScoreStep, PTL DEF Spec

\* No interleaving and no crash takes a score below zero or above what the
\* counted yes-answers add up to.
THEOREM ScoreIsBounded == Spec => []ScoreBounded
<1>1. ScoreInv => ScoreBounded
  <2> SUFFICES ASSUME ScoreInv, NEW u \in Users
               PROVE  account[u].rsvpScore \in 0 .. credit[u]
    BY DEF ScoreBounded
  <2>1. account[u].rsvpScore \in Nat /\ credit[u] \in Nat
    BY DEF ScoreInv, TypeInv, TypeOK, Account
  <2> QED
    BY <2>1 DEF ScoreInv, CreditInv
<1> QED
  BY <1>1, ScoreInvariant, PTL

\* An account that no two jobs held at once never says absent without a low
\* score and a starting moment.
THEOREM AbsenceIsJustified == Spec => []AbsenceJustified
<1>1. ScoreInv => AbsenceJustified
  BY DEF ScoreInv, HoldInv, Justified, AbsenceJustified
<1> QED
  BY <1>1, ScoreInvariant, PTL

\* What a job writes over an account that no two jobs held at once.
LEMMA UnracedWrite ==
    ASSUME ScoreInv, NEW j \in Jobs, UpdateUser(j), job[j].user \notin raced
    PROVE  LET u == job[j].user IN
           /\ u \in Users /\ account[u] \in Account /\ job[j].kind \in Kinds
           /\ Justified(account[u])
           /\ account'[u] = Apply(job[j].kind, account[u], j)
           /\ \A v \in Users \ {u} : account'[v] = account[v]
           /\ job[j].pc = "write" /\ job'[j].pc = "done"
<1> DEFINE u == job[j].user
<1>1. job \in [Jobs -> Job] /\ account \in [Users -> Account]
  BY DEF ScoreInv, TypeInv, TypeOK
<1>2. job[j].pc = "write"
  BY DEF UpdateUser
<1>3. u \in Users
  BY <1>2 DEF ScoreInv, TypeInv, JobKnows, JobActive
<1>4. job[j].copy \in Account /\ account[u] \in Account /\ job[j].kind \in Kinds
  BY <1>1, <1>3 DEF Job
<1>5. /\ job[j].copy = Apply(job[j].kind, account[u], j)
      /\ job[j].cols = Diff(job[j].copy, account[u])
      /\ Justified(account[u])
  BY <1>2, <1>3 DEF ScoreInv, HoldInv, Holds
<1>6. account' = [account EXCEPT ![u] = Written(account[u], job[j].copy, job[j].cols)]
  BY DEF UpdateUser
<1>7. account'[u] = job[j].copy
  BY <1>1, <1>3, <1>4, <1>5, <1>6, WrittenAll
<1>8. \A v \in Users \ {u} : account'[v] = account[v]
  BY <1>1, <1>6
<1>9. job'[j].pc = "done"
  BY <1>1 DEF UpdateUser, EndJob
<1> QED
  BY <1>2, <1>3, <1>4, <1>5, <1>7, <1>8, <1>9

\* A step that changes an account no two jobs held at once is the write of a job.
LEMMA OnlyWrites ==
    ASSUME ScoreInv, [Next]_vars, NEW u \in Users \ raced', account'[u] # account[u]
    PROVE  \E j \in Jobs : UpdateUser(j) /\ job[j].user = u /\ u \notin raced
<1>1. PICK j \in Jobs : JobStep(j)
  BY OtherSteps DEF ScoreInv
<1>2. UpdateUser(j)
  BY <1>1 DEF JobStep, ReadUser, SaveUser
<1>3. raced' = raced /\ account \in [Users -> Account]
  BY <1>2 DEF UpdateUser, ghosts, ScoreInv, TypeInv, TypeOK
<1>4. job[j].user = u
  BY <1>2, <1>3 DEF UpdateUser
<1> QED
  BY <1>2, <1>3, <1>4

\* ... and is then changed as by one atomic application of a rule.
THEOREM SavesAreAtomic == Spec => AtomicUnlessRaced
<1> DEFINE Step == \A u \in Users \ raced' :
          account'[u] # account[u] =>
             \E j \in Jobs : /\ job[j].pc = "write" /\ job'[j].pc = "done"
                            /\ job[j].user = u
                            /\ account'[u] = Apply(job[j].kind, account[u], j)
<1>1. ScoreInv /\ [Next]_vars => Step
  BY OnlyWrites, UnracedWrite
<1> QED
  BY <1>1, ScoreInvariant, PTL DEF Spec, AtomicUnlessRaced

\* ... and keeps the moment an absence began for as long as it lasts.
THEOREM AbsentSinceIsStable == Spec => AbsentSinceStable
<1> DEFINE Step == \A u \in Users \ raced' :
                     account[u].absent /\ account'[u].absent
                       => account'[u].absentSince = account[u].absentSince
<1>1. ScoreInv /\ [Next]_vars => Step
  <2> SUFFICES ASSUME ScoreInv, [Next]_vars, NEW u \in Users \ raced',
                      account[u].absent, account'[u].absent, account'[u] # account[u]
               PROVE  account'[u].absentSince = account[u].absentSince
    OBVIOUS
  <2>1. PICK j \in Jobs : UpdateUser(j) /\ job[j].user = u /\ u \notin raced
    BY OnlyWrites
  <2> QED
    BY <2>1, UnracedWrite, ApplyJustified
<1> QED
  BY <1>1, ScoreInvariant, PTL DEF Spec, AbsentSinceStable

-----------------------------------------------------------------------------
(* The table of answers.  What rows a pair of member and market day may come to have: *)
(* those it has, and those that a chain holds or is about to insert.                  *)

Claim(u, e, r) ==
    \/ rsvp[r].user = u /\ rsvp[r].event = e
    \/ \E s \in Submits : /\ writer[s].user = u /\ writer[s].event = e
                          /\ writer[s].pc \in {"save", "insert"} /\ writer[s].row = r
    \/ r \in Seeds /\ seed[r].user = u /\ seed[r].event = e /\ seed[r].pc = "insert"

ClaimInv ==
    \A u \in Users, e \in Events : <<u, e>> \notin crossed =>
        \A q, r \in RowIds : Claim(u, e, q) /\ Claim(u, e, r) => q = r

\* What the table and the chains that hold a row have as its pair and its mark.
HasRow(s, r) == writer[s].row = r /\ writer[s].pc \in {"save", "update", "insert"}

View(r, u, e, a) ==
    \/ rsvp[r] # NoRow /\ rsvp[r].user = u /\ rsvp[r].event = e /\ rsvp[r].attended = a
    \/ \E s \in Submits : /\ HasRow(s, r)
                          /\ writer[s].user = u /\ writer[s].event = e /\ writer[s].attended = a

ViewInv ==
    \A r \in RowIds : \A u, e, a, x, y, z : View(r, u, e, a) /\ View(r, x, y, z) =>
        u = x /\ e = y /\ (<<u, e>> \in crossed \/ a = z)

LEMMA PairSeen ==
    ASSUME ViewInv, NEW r \in RowIds, rsvp[r] # NoRow, NEW u, NEW e, NEW a, View(r, u, e, a)
    PROVE  u = rsvp[r].user /\ e = rsvp[r].event
<1>1. \A x, y, z : View(r, x, y, z) => x = u /\ y = e
  BY DEF ViewInv
<1> QED
  BY <1>1 DEF View

\* A row that its chain has not inserted yet is in nobody's hands.
Unborn(r) ==
    \/ r \in Submits /\ writer[r].pc \in {"idle", "refused", "find"}
    \/ r \in Seeds /\ seed[r].pc \in {"idle", "insert"}

BirthInv == \A r \in RowIds : Unborn(r) => \A u, e, a : ~View(r, u, e, a)

RowsInv == ClaimInv /\ ViewInv /\ BirthInv

LEMMA RowsInit == Init => RowsInv
<1> SUFFICES ASSUME Init PROVE RowsInv
  OBVIOUS
<1>1. \A r \in RowIds : rsvp[r] = NoRow
  BY DEF Init
<1>2. \A s \in Submits : writer[s].pc = "idle"
  BY DEF Init, NoWriter
<1>3. \A w \in Seeds : seed[w].pc = "idle"
  BY DEF Init, NoSeed
<1>4. \A r \in RowIds : \A u, e, a : ~View(r, u, e, a)
  BY <1>1, <1>2 DEF View, HasRow
<1>5. \A u \in Users, e \in Events : \A r \in RowIds : ~Claim(u, e, r)
  BY <1>1, <1>2, <1>3, NullAssumption DEF Claim, NoRow
<1> QED
  BY <1>4, <1>5 DEF RowsInv, ClaimInv, ViewInv, BirthInv

\* A step that adds no row, no holder and no view.
LEMMA RowsKept ==
    ASSUME RowsInv, crossed \subseteq crossed',
           \A u \in Users, e \in Events : \A r \in RowIds : Claim(u, e, r)' => Claim(u, e, r),
           \A r \in RowIds : \A u, e, a : View(r, u, e, a)' => View(r, u, e, a),
           \A r \in RowIds : Unborn(r)' => Unborn(r)
    PROVE  RowsInv'
<1>1. ClaimInv'
  BY DEF RowsInv, ClaimInv
<1>2. ASSUME NEW r \in RowIds, NEW u, NEW e, NEW a, NEW x, NEW y, NEW z,
             View(r, u, e, a)', View(r, x, y, z)'
      PROVE  u = x /\ e = y /\ (<<u, e>> \in crossed' \/ a = z)
  <2>1. View(r, u, e, a) /\ View(r, x, y, z)
    BY <1>2
  <2> QED
    BY <2>1 DEF RowsInv, ViewInv
<1>3. BirthInv'
  BY DEF RowsInv, BirthInv
<1> QED
  BY <1>1, <1>2, <1>3 DEF RowsInv, ViewInv

\* A look-up that found nothing, of a pair that nobody else is about to insert.
LEMMA ClaimNew ==
    ASSUME TypeInv, ClaimInv, NEW n \in RowIds, NEW u \in Users, NEW e \in Events,
           crossed \subseteq crossed',
           <<u, e>> \notin crossed' => Rows(u, e) = {} /\ ~Pending(n, u, e), n \in Submits => writer[n].pc \notin {"save", "insert"},
           n \in Seeds => seed[n].pc # "insert",
           \A x \in Users, y \in Events : \A r \in RowIds :
              Claim(x, y, r)' => Claim(x, y, r) \/ (x = u /\ y = e /\ r = n)
    PROVE  ClaimInv'
<1>1. ASSUME <<u, e>> \notin crossed' PROVE \A r \in RowIds : ~Claim(u, e, r)
  <2>1. Rows(u, e) = {} /\ ~Pending(n, u, e)
    BY <1>1
  <2> QED
    BY <2>1 DEF Pending, Claim, Rows
<1>3. ASSUME NEW x \in Users, NEW y \in Events, <<x, y>> \notin crossed',
             NEW q \in RowIds, NEW r \in RowIds, Claim(x, y, q)', Claim(x, y, r)'
      PROVE  q = r
  BY <1>1, <1>3 DEF ClaimInv
<1> QED
  BY <1>3 DEF ClaimInv

\* A row that nobody has seen is born, in the hands of its chain or in the table.
LEMMA ViewNew ==
    ASSUME ViewInv, BirthInv, NEW n \in RowIds, Unborn(n), ~Unborn(n)', NEW u, NEW e, NEW a,
           crossed \subseteq crossed',
           \A r \in RowIds : \A x, y, z :
              View(r, x, y, z)' => View(r, x, y, z) \/ (r = n /\ x = u /\ y = e /\ z = a),
           \A r \in RowIds : Unborn(r)' => Unborn(r)
    PROVE  ViewInv' /\ BirthInv'
<1>1. \A x, y, z : ~View(n, x, y, z)
  BY DEF BirthInv
<1>2. ASSUME NEW r \in RowIds, NEW x, NEW y, NEW z, NEW f, NEW g, NEW h,
             View(r, x, y, z)', View(r, f, g, h)'
      PROVE  x = f /\ y = g /\ (<<x, y>> \in crossed' \/ z = h)
  <2>1. CASE r = n
    BY <1>1, <1>2, <2>1
  <2>2. CASE r # n
    <3>1. View(r, x, y, z) /\ View(r, f, g, h)
      BY <1>2, <2>2
    <3> QED
      BY <3>1 DEF ViewInv
  <2> QED
    BY <2>1, <2>2
<1>3. BirthInv'
  BY DEF BirthInv
<1> QED
  BY <1>2, <1>3 DEF ViewInv

\* Neither the table of answers nor the chains on it.
LEMMA RowsElsewhere ==
    ASSUME RowsInv, UNCHANGED <<rsvp, writer, seed, crossed>>
    PROVE  RowsInv'
  BY RowsKept DEF Claim, View, HasRow, Unborn

\* A chain that ends, or a request that is not there yet.
LEMMA RowsEnded ==
    ASSUME TypeInv, RowsInv, UNCHANGED <<rsvp, seed>>, crossed \subseteq crossed',
           \A s \in Submits :
              \/ writer'[s] = writer[s]
              \/ writer'[s].pc \in {"done", "lost"}
              \/ writer'[s].pc \in {"find", "refused"} /\ writer[s].pc = "idle"
    PROVE  RowsInv'
<1>1. \A u \in Users, e \in Events : \A r \in RowIds : Claim(u, e, r)' => Claim(u, e, r)
  BY DEF Claim
<1>2. \A r \in RowIds : \A u, e, a : View(r, u, e, a)' => View(r, u, e, a)
  BY DEF View, HasRow
<1>3. \A r \in RowIds : Unborn(r)' => Unborn(r)
  BY DEF Unborn
<1> QED
  BY <1>1, <1>2, <1>3, RowsKept

LEMMA RowsFound ==
    ASSUME TypeInv, RowsInv, NEW s \in Submits, FindRsvp(s)
    PROVE  RowsInv'
<1> DEFINE u == writer[s].user
           e == writer[s].event
<1>1. writer[s].pc = "find" /\ Cross(s, u, e) /\ UNCHANGED <<rsvp, seed>>
  BY DEF FindRsvp
<1>2. u \in Users /\ e \in Events /\ s \in RowIds /\ writer[s] \in Writer /\ s \notin Seeds
  BY <1>1, RowNames DEF TypeInv, TypeOK, WriterKnows, WriterActive, RowIds
<1>3. crossed \subseteq crossed'
  BY <1>1 DEF Cross
<1>4. ASSUME NEW pc \in {"insert", "save"}, NEW n \in RowIds, NEW a, Answer(s, pc, n, a)
      PROVE  /\ writer'[s].pc = pc /\ writer'[s].row = n /\ writer'[s].attended = a
             /\ writer'[s].user = u /\ writer'[s].event = e
             /\ \A t \in Submits \ {s} : writer'[t] = writer[t]
  BY <1>2, <1>4 DEF Answer, TypeInv, TypeOK, Writer
<1>5. CASE Rows(u, e) = {} /\ Answer(s, "insert", s, "unknown")
  <2>1. /\ writer'[s].pc = "insert" /\ writer'[s].row = s /\ writer'[s].attended = "unknown"
        /\ writer'[s].user = u /\ writer'[s].event = e
        /\ \A t \in Submits \ {s} : writer'[t] = writer[t]
    BY <1>2, <1>4, <1>5
  <2> HIDE DEF u, e
  <2>2. ASSUME NEW x \in Users, NEW y \in Events, NEW r \in RowIds, Claim(x, y, r)'
        PROVE  Claim(x, y, r) \/ (x = u /\ y = e /\ r = s)
    BY <1>1, <2>1, <2>2 DEF Claim
  <2>7. <<u, e>> \notin crossed' => Rows(u, e) = {} /\ ~Pending(s, u, e)
    BY <1>1, <1>5 DEF Cross, u, e
  <2>3. ClaimInv'
    BY <1>1, <1>2, <1>3, <1>5, <2>2, <2>7, ClaimNew DEF RowsInv
  <2>4. ASSUME NEW r \in RowIds, NEW x, NEW y, NEW z, View(r, x, y, z)'
        PROVE  View(r, x, y, z) \/ (r = s /\ x = u /\ y = e /\ z = "unknown")
    BY <1>1, <2>1, <2>4 DEF View, HasRow
  <2>5. Unborn(s) /\ ~Unborn(s)' /\ \A r \in RowIds : Unborn(r)' => Unborn(r)
    BY <1>1, <1>2, <2>1 DEF Unborn
  <2>6. ViewInv' /\ BirthInv'
    BY <1>2, <1>3, <2>4, <2>5, ViewNew DEF RowsInv
  <2> QED
    BY <2>3, <2>6 DEF RowsInv
<1>6. ASSUME NEW n \in Rows(u, e), Answer(s, "save", n, rsvp[n].attended) PROVE RowsInv'
  <2>1. n \in RowIds /\ rsvp[n].user = u /\ rsvp[n].event = e /\ rsvp[n] # NoRow
    BY <1>2, NullAssumption DEF Rows, NoRow
  <2>2. /\ writer'[s].pc = "save" /\ writer'[s].row = n /\ writer'[s].attended = rsvp[n].attended
        /\ writer'[s].user = u /\ writer'[s].event = e
        /\ \A t \in Submits \ {s} : writer'[t] = writer[t]
    BY <1>4, <1>6, <2>1
  <2> HIDE DEF u, e
  <2>3. \A x \in Users, y \in Events : \A r \in RowIds : Claim(x, y, r)' => Claim(x, y, r)
    BY <1>1, <2>1, <2>2 DEF Claim
  <2>4. \A r \in RowIds : \A x, y, z : View(r, x, y, z)' => View(r, x, y, z)
    BY <1>1, <2>1, <2>2 DEF View, HasRow
  <2>5. \A r \in RowIds : Unborn(r)' => Unborn(r)
    BY <1>1, <2>2 DEF Unborn
  <2> QED
    BY <1>3, <2>3, <2>4, <2>5, RowsKept
<1> QED
  BY <1>5, <1>6 DEF FindRsvp

LEMMA RowsSaved ==
    ASSUME TypeInv, RowsInv, NEW s \in Submits, SaveRsvp(s)
    PROVE  RowsInv'
<1>1. /\ writer[s].pc = "save" /\ writer[s] \in Writer /\ UNCHANGED <<rsvp, seed, crossed>>
  BY DEF SaveRsvp, ghosts, TypeInv, TypeOK
<1>2. EndWriter(s, "done").pc = "done"
  BY EndWriterType
<1>3. ASSUME NEW cols
      PROVE  LET x == [writer[s] EXCEPT !.pc = "update", !.cols = cols] IN
               /\ x.pc = "update" /\ x.row = writer[s].row /\ x.user = writer[s].user
               /\ x.event = writer[s].event /\ x.attended = writer[s].attended
  BY <1>1 DEF Writer
<1>4. LET x == [writer[s] EXCEPT !.pc = "insert"] IN
        /\ x.pc = "insert" /\ x.row = writer[s].row /\ x.user = writer[s].user
        /\ x.event = writer[s].event /\ x.attended = writer[s].attended
  BY <1>1 DEF Writer
<1>5. \A t \in Submits \ {s} : writer'[t] = writer[t]
  BY DEF SaveRsvp, TypeInv, TypeOK
<1>6. \/ writer'[s].pc = "done"
      \/ /\ writer'[s].pc \in {"update", "insert"} /\ writer'[s].row = writer[s].row
         /\ writer'[s].user = writer[s].user /\ writer'[s].event = writer[s].event
         /\ writer'[s].attended = writer[s].attended
  BY <1>2, <1>3, <1>4 DEF SaveRsvp, TypeInv, TypeOK
<1>7. \A u \in Users, e \in Events : \A r \in RowIds : Claim(u, e, r)' => Claim(u, e, r)
  BY <1>1, <1>5, <1>6 DEF Claim
<1>8. \A r \in RowIds : \A u, e, a : View(r, u, e, a)' => View(r, u, e, a)
  BY <1>1, <1>5, <1>6 DEF View, HasRow
<1>9. \A r \in RowIds : Unborn(r)' => Unborn(r)
  BY <1>1, <1>5, <1>6 DEF Unborn
<1> QED
  BY <1>1, <1>7, <1>8, <1>9, RowsKept

\* The chain that ends writes what it held, or what the row had.
LEMMA RowsWritten ==
    ASSUME TypeInv, RowsInv, NEW s \in Submits, UpdateRsvp(s) \/ InsertRsvp(s)
    PROVE  /\ RowsInv'
           /\ \A q \in RowIds : \A u, e, a : View(q, u, e, a)' => View(q, u, e, a)
<1> DEFINE r == writer[s].row
<1>1. /\ writer' = [writer EXCEPT ![s] = EndWriter(s, "done")] /\ UNCHANGED <<seed, crossed>>
      /\ r \in RowIds /\ writer[s] \in Writer
  BY DEF UpdateRsvp, InsertRsvp, ghosts, TypeInv, TypeOK, WriterKnows
<1>2. writer'[s].pc = "done" /\ \A t \in Submits \ {s} : writer'[t] = writer[t]
  BY <1>1, EndWriterType DEF TypeInv, TypeOK
<1>3. \/ rsvp' = rsvp
      \/ /\ UpdateRsvp(s) /\ \A q \in RowIds \ {r} : rsvp'[q] = rsvp[q]
         /\ rsvp[r] # NoRow /\ rsvp'[r].user = rsvp[r].user /\ rsvp'[r].event = rsvp[r].event
         /\ rsvp'[r].attended \in {rsvp[r].attended, writer[s].attended}
      \/ /\ InsertRsvp(s) /\ \A q \in RowIds \ {r} : rsvp'[q] = rsvp[q]
         /\ rsvp'[r].user = writer[s].user /\ rsvp'[r].event = writer[s].event
         /\ rsvp'[r].attended = writer[s].attended
  <2>1. CASE InsertRsvp(s)
    BY <1>1, <2>1 DEF InsertRsvp, TypeInv, TypeOK
  <2>2. CASE UpdateRsvp(s)
    <3>1. CASE rsvp[r] = NoRow
      BY <2>2, <3>1 DEF UpdateRsvp
    <3>2. CASE rsvp[r] # NoRow
      <4>1. rsvp[r] \in Row
        BY <1>1, <3>2 DEF TypeInv, TypeOK
      <4> DEFINE column(c) == IF c \in writer[s].cols THEN writer[s][c] ELSE rsvp[r][c]
                 row == [rsvp[r] EXCEPT !.response = column("response"),
                                        !.attended = column("attended")]
      <4>2. rsvp' = [rsvp EXCEPT ![r] = row]
        BY <1>1, <2>2, <3>2 DEF UpdateRsvp, TypeInv, TypeOK
      <4>3. /\ row.user = rsvp[r].user /\ row.event = rsvp[r].event
            /\ row.attended = column("attended")
        BY <4>1 DEF Row
      <4>4. column("attended") \in {rsvp[r].attended, writer[s].attended}
        OBVIOUS
      <4> HIDE DEF row, column
      <4> QED
        BY <1>1, <2>2, <3>2, <4>2, <4>3, <4>4 DEF TypeInv, TypeOK
    <3> QED
      BY <3>1, <3>2
  <2> QED
    BY <2>1, <2>2
<1>4. HasRow(s, r)
  BY DEF UpdateRsvp, InsertRsvp, HasRow
<1>5. ASSUME UpdateRsvp(s), rsvp[r] # NoRow
      PROVE  rsvp[r].user = writer[s].user /\ rsvp[r].event = writer[s].event
  <2>1. /\ View(r, rsvp[r].user, rsvp[r].event, rsvp[r].attended)
        /\ View(r, writer[s].user, writer[s].event, writer[s].attended)
    BY <1>4, <1>5 DEF View
  <2>2. \A u, e, a, x, y, z : View(r, u, e, a) /\ View(r, x, y, z) => u = x /\ e = y
    <3> HIDE DEF r
    <3> SUFFICES ASSUME NEW u, NEW e, NEW a, NEW x, NEW y, NEW z, View(r, u, e, a), View(r, x, y, z)
                 PROVE  u = x /\ e = y
      OBVIOUS
    <3> QED
      BY <1>1 DEF RowsInv, ViewInv
  <2> QED
    BY <2>1, <2>2
<1>6. InsertRsvp(s) => writer[s].pc = "insert"
  BY DEF InsertRsvp
<1> HIDE DEF r
<1>7. ASSUME NEW u \in Users, NEW e \in Events, NEW q \in RowIds, Claim(u, e, q)'
      PROVE  Claim(u, e, q)
  <2>1. CASE rsvp'[q].user = u /\ rsvp'[q].event = e
    BY <1>1, <1>3, <1>6, <2>1 DEF Claim, r
  <2>2. CASE ~(rsvp'[q].user = u /\ rsvp'[q].event = e)
    BY <1>1, <1>2, <1>7, <2>2 DEF Claim
  <2> QED
    BY <2>1, <2>2
<1>8. ASSUME NEW q \in RowIds, NEW u, NEW e, NEW a, View(q, u, e, a)'
      PROVE  View(q, u, e, a)
  <2>1. ASSUME NEW t \in Submits, HasRow(t, q)',
               writer'[t].user = u, writer'[t].event = e, writer'[t].attended = a
        PROVE  View(q, u, e, a)
    BY <1>2, <2>1 DEF View, HasRow
  <2>2. ASSUME rsvp'[q] # NoRow, rsvp'[q].user = u, rsvp'[q].event = e, rsvp'[q].attended = a
        PROVE  View(q, u, e, a)
    BY <1>1, <1>3, <1>4, <1>5, <2>2 DEF View
  <2> QED
    BY <1>8, <2>1, <2>2 DEF View
<1>9. \A q \in RowIds : Unborn(q)' => Unborn(q)
  BY <1>1, <1>2 DEF Unborn
<1>10. crossed \subseteq crossed'
  BY <1>1
<1> QED
  BY <1>7, <1>8, <1>9, <1>10, RowsKept

\* The weekly job.
LEMMA RowsSeeded ==
    ASSUME TypeInv, RowsInv, NEW w \in Seeds, NEW u \in Users, NEW e \in Events,
           SeedFindRsvp(w, u, e)
    PROVE  RowsInv'
<1>1. /\ seed[w].pc = "idle" /\ Cross(w, u, e) /\ UNCHANGED <<rsvp, writer>>
      /\ w \in RowIds /\ w \notin Submits
  BY RowNames DEF SeedFindRsvp, RowIds
<1>2. /\ seed'[w].pc = IF Rows(u, e) = {} THEN "insert" ELSE "done"
      /\ seed'[w].user = u /\ seed'[w].event = e
      /\ \A v \in Seeds \ {w} : seed'[v] = seed[v]
  BY DEF SeedFindRsvp, TypeInv, TypeOK
<1>3. crossed \subseteq crossed'
  BY <1>1 DEF Cross
<1>4. ClaimInv'
  <2>1. CASE Rows(u, e) = {}
    <3>1. \A x \in Users, y \in Events : \A r \in RowIds :
              Claim(x, y, r)' => Claim(x, y, r) \/ (x = u /\ y = e /\ r = w)
      BY <1>1, <1>2 DEF Claim
    <3>2. <<u, e>> \notin crossed' => Rows(u, e) = {} /\ ~Pending(w, u, e)
      BY <1>1, <2>1 DEF Cross
    <3> QED
      BY <1>1, <1>3, <2>1, <3>1, <3>2, ClaimNew DEF RowsInv
  <2>2. CASE Rows(u, e) # {}
    <3>1. \A x \in Users, y \in Events : \A r \in RowIds : Claim(x, y, r)' => Claim(x, y, r)
      BY <1>1, <1>2, <2>2 DEF Claim
    <3> QED
      BY <1>3, <3>1 DEF RowsInv, ClaimInv
  <2> QED
    BY <2>1, <2>2
<1>5. \A r \in RowIds : \A x, y, z : View(r, x, y, z)' <=> View(r, x, y, z)
  BY <1>1 DEF View, HasRow
<1>6. \A r \in RowIds : Unborn(r)' => Unborn(r)
  BY <1>1, <1>2 DEF Unborn
<1>7. ASSUME NEW r \in RowIds, NEW f, NEW g, NEW a, NEW x, NEW y, NEW z,
             View(r, f, g, a)', View(r, x, y, z)'
      PROVE  f = x /\ g = y /\ (<<f, g>> \in crossed' \/ a = z)
  <2>1. View(r, f, g, a) /\ View(r, x, y, z)
    BY <1>5, <1>7
  <2> QED
    BY <1>3, <2>1 DEF RowsInv, ViewInv
<1>8. BirthInv'
  BY <1>5, <1>6 DEF RowsInv, BirthInv
<1> QED
  BY <1>4, <1>7, <1>8 DEF RowsInv, ViewInv

LEMMA RowsMade ==
    ASSUME TypeInv, RowsInv, NEW w \in Seeds, MakeUnknownRsvp(w)
    PROVE  RowsInv'
<1> DEFINE u == seed[w].user
           e == seed[w].event
<1>1. /\ seed[w].pc = "insert" /\ UNCHANGED <<writer, crossed>> /\ w \in RowIds /\ w \notin Submits
      /\ seed'[w].pc = "done" /\ \A v \in Seeds \ {w} : seed'[v] = seed[v]
  BY RowNames DEF MakeUnknownRsvp, ghosts, RowIds, TypeInv, TypeOK, Seed
<1>2. /\ rsvp'[w].user = u /\ rsvp'[w].event = e /\ rsvp'[w].attended = "unknown"
      /\ \A r \in RowIds \ {w} : rsvp'[r] = rsvp[r]
  BY <1>1 DEF MakeUnknownRsvp, TypeInv, TypeOK
<1> HIDE DEF u, e
<1>3. \A x \in Users, y \in Events : \A r \in RowIds : Claim(x, y, r)' => Claim(x, y, r)
  BY <1>1, <1>2 DEF Claim, u, e
<1>4. ClaimInv'
  BY <1>1, <1>3 DEF RowsInv, ClaimInv
<1>5. \A r \in RowIds : \A x, y, z :
        View(r, x, y, z)' => View(r, x, y, z) \/ (r = w /\ x = u /\ y = e /\ z = "unknown")
  BY <1>1, <1>2 DEF View, HasRow
<1>6. Unborn(w) /\ ~Unborn(w)' /\ \A r \in RowIds : Unborn(r)' => Unborn(r)
  BY <1>1 DEF Unborn
<1>7. ViewInv' /\ BirthInv'
  BY <1>1, <1>5, <1>6, ViewNew DEF RowsInv
<1> QED
  BY <1>4, <1>7 DEF RowsInv

\* Coordinators.
LEMMA RowsMarked ==
    ASSUME TypeInv, RowsInv, NEW n \in RowIds, NEW mark, MarkAttended(n, mark)
    PROVE  RowsInv'
<1>1. /\ UNCHANGED <<writer, seed>> /\ rsvp[n] # NoRow
      /\ crossed' = IF HeldRow(n) THEN crossed \union {<<rsvp[n].user, rsvp[n].event>>}
                    ELSE crossed
  BY DEF MarkAttended
<1>2. rsvp[n] \in Row
  BY <1>1 DEF TypeInv, TypeOK
<1>3. /\ rsvp'[n].user = rsvp[n].user /\ rsvp'[n].event = rsvp[n].event
      /\ \A r \in RowIds \ {n} : rsvp'[r] = rsvp[r]
  BY <1>2 DEF MarkAttended, TypeInv, TypeOK, Row
<1>4. \A x \in Users, y \in Events : \A r \in RowIds : Claim(x, y, r)' => Claim(x, y, r)
  BY <1>1, <1>3 DEF Claim
<1>5. ClaimInv'
  BY <1>1, <1>4 DEF RowsInv, ClaimInv
<1>6. \A r \in RowIds : Unborn(r)' => Unborn(r)
  BY <1>1 DEF Unborn
<1>7. \A r \in RowIds \ {n} : \A x, y, z : View(r, x, y, z)' => View(r, x, y, z)
  BY <1>1, <1>3 DEF View, HasRow
<1>8. \A x, y, z : View(n, x, y, z)' => \E a : View(n, x, y, a)
  BY <1>1, <1>3 DEF View, HasRow
<1>9. BirthInv'
  BY <1>6, <1>7, <1>8 DEF RowsInv, BirthInv
<1>11. \A x, y, z : View(n, x, y, z)' => x = rsvp[n].user /\ y = rsvp[n].event
  BY <1>1, <1>8, PairSeen DEF RowsInv
<1>10. ASSUME NEW r \in RowIds, NEW f, NEW g, NEW a, NEW x, NEW y, NEW z,
              View(r, f, g, a)', View(r, x, y, z)'
       PROVE  f = x /\ g = y /\ (<<f, g>> \in crossed' \/ a = z)
  <2>1. CASE r # n
    <3>1. View(r, f, g, a) /\ View(r, x, y, z)
      BY <1>7, <1>10, <2>1
    <3> QED
      BY <1>1, <3>1 DEF RowsInv, ViewInv
  <2>2. CASE r = n
    <3>2. f = rsvp[n].user /\ g = rsvp[n].event /\ x = rsvp[n].user /\ y = rsvp[n].event
      BY <1>10, <1>11, <2>2
    <3>3. HeldRow(n) => <<f, g>> \in crossed'
      BY <1>1, <3>2
    <3>4. ~HeldRow(n) => a = rsvp'[n].attended /\ z = rsvp'[n].attended
      BY <1>1, <1>10, <2>2 DEF View, HasRow, HeldRow
    <3> QED
      BY <3>2, <3>3, <3>4
  <2> QED
    BY <2>1, <2>2
<1> QED
  BY <1>5, <1>9, <1>10 DEF RowsInv, ViewInv

LEMMA RowsEdited ==
    ASSUME TypeInv, RowsInv, NEW n \in RowIds, NEW x \in Responses, EditResponse(n, x)
    PROVE  RowsInv'
<1>1. UNCHANGED <<writer, seed, crossed>> /\ rsvp[n] # NoRow /\ rsvp[n] \in Row
  BY DEF EditResponse, ghosts, TypeInv, TypeOK
<1>2. /\ rsvp'[n].user = rsvp[n].user /\ rsvp'[n].event = rsvp[n].event
      /\ rsvp'[n].attended = rsvp[n].attended
      /\ \A r \in RowIds \ {n} : rsvp'[r] = rsvp[r]
  BY <1>1 DEF EditResponse, TypeInv, TypeOK, Row
<1>3. \A y \in Users, z \in Events : \A r \in RowIds : Claim(y, z, r)' => Claim(y, z, r)
  BY <1>1, <1>2 DEF Claim
<1>4. \A r \in RowIds : \A y, z, a : View(r, y, z, a)' => View(r, y, z, a)
  BY <1>1, <1>2 DEF View, HasRow
<1>5. \A r \in RowIds : Unborn(r)' => Unborn(r)
  BY <1>1 DEF Unborn
<1> QED
  BY <1>1, <1>3, <1>4, <1>5, RowsKept

LEMMA RowsCreated ==
    ASSUME TypeInv, RowsInv, NEW w \in Seeds, NEW u \in Users, NEW e \in Events,
           NEW response \in Responses, CreateRsvp(w, u, e, response)
    PROVE  RowsInv'
<1>1. /\ seed[w].pc = "idle" /\ UNCHANGED writer /\ w \in RowIds /\ w \notin Submits
      /\ seed'[w].pc = "done" /\ \A v \in Seeds \ {w} : seed'[v] = seed[v]
  BY RowNames DEF CreateRsvp, RowIds, TypeInv, TypeOK, Seed
<1>2. /\ rsvp'[w].user = u /\ rsvp'[w].event = e /\ rsvp'[w].attended = "unknown"
      /\ \A r \in RowIds \ {w} : rsvp'[r] = rsvp[r]
  BY <1>1 DEF CreateRsvp, TypeInv, TypeOK
<1>3. /\ crossed \subseteq crossed'
      /\ <<u, e>> \notin crossed' => Rows(u, e) = {} /\ ~Pending(w, u, e)
  BY DEF CreateRsvp
<1>4. \A x \in Users, y \in Events : \A r \in RowIds :
        Claim(x, y, r)' => Claim(x, y, r) \/ (x = u /\ y = e /\ r = w)
  BY <1>1, <1>2 DEF Claim
<1>5. ClaimInv'
  BY <1>1, <1>3, <1>4, ClaimNew DEF RowsInv
<1>6. \A r \in RowIds : \A x, y, z :
        View(r, x, y, z)' => View(r, x, y, z) \/ (r = w /\ x = u /\ y = e /\ z = "unknown")
  BY <1>1, <1>2 DEF View, HasRow
<1>7. Unborn(w) /\ ~Unborn(w)' /\ \A r \in RowIds : Unborn(r)' => Unborn(r)
  BY <1>1 DEF Unborn
<1>8. ViewInv' /\ BirthInv'
  BY <1>1, <1>3, <1>6, <1>7, ViewNew DEF RowsInv
<1> QED
  BY <1>5, <1>8 DEF RowsInv

LEMMA RowsDeleted ==
    ASSUME TypeInv, RowsInv, NEW n \in RowIds, DeleteRsvp(n)
    PROVE  RowsInv'
<1>1. /\ UNCHANGED <<writer, seed, crossed>> /\ rsvp'[n] = NoRow
      /\ \A r \in RowIds \ {n} : rsvp'[r] = rsvp[r]
  BY DEF DeleteRsvp, ghosts, TypeInv, TypeOK
<1>2. \A x \in Users, y \in Events : \A r \in RowIds : Claim(x, y, r)' => Claim(x, y, r)
  BY <1>1, NullAssumption DEF Claim, NoRow
<1>3. \A r \in RowIds : \A x, y, z : View(r, x, y, z)' => View(r, x, y, z)
  BY <1>1 DEF View, HasRow
<1>4. \A r \in RowIds : Unborn(r)' => Unborn(r)
  BY <1>1 DEF Unborn
<1> QED
  BY <1>1, <1>2, <1>3, <1>4, RowsKept

LEMMA RowsCrash == ASSUME TypeInv, RowsInv, Crash PROVE RowsInv'
<1>1. \A s \in Submits : writer'[s] = writer[s] \/ writer'[s].pc = "lost"
  BY EndWriterType DEF Crash
<1>2. \A w \in Seeds : seed'[w] = seed[w] \/ seed'[w].pc = "lost"
  BY DEF Crash, TypeInv, TypeOK, Seed
<1>3. UNCHANGED <<rsvp, crossed>>
  BY DEF Crash, ghosts
<1>4. \A x \in Users, y \in Events : \A r \in RowIds : Claim(x, y, r)' => Claim(x, y, r)
  BY <1>1, <1>2, <1>3 DEF Claim
<1>5. \A r \in RowIds : \A x, y, z : View(r, x, y, z)' => View(r, x, y, z)
  BY <1>1, <1>3 DEF View, HasRow
<1>6. \A r \in RowIds : Unborn(r)' => Unborn(r)
  BY <1>1, <1>2 DEF Unborn
<1> QED
  BY <1>3, <1>4, <1>5, <1>6, RowsKept

LEMMA RowsNext == TypeInv /\ RowsInv /\ [Next]_vars => RowsInv'
<1> SUFFICES ASSUME TypeInv, RowsInv, [Next]_vars PROVE RowsInv'
  OBVIOUS
<1>1. ASSUME NEW s \in Submits, NEW u \in Users, NEW e \in Events, NEW x \in Responses,
             SubmitRsvp(s, u, e, x)
      PROVE  RowsInv'
  <2> DEFINE w == [NoWriter EXCEPT !.pc = IF e \in past THEN "refused" ELSE "find",
                                   !.user = u, !.event = e, !.response = x]
  <2>1. w.pc \in {"find", "refused"}
    BY DEF NoWriter
  <2>2. /\ writer[s].pc = "idle" /\ writer' = [writer EXCEPT ![s] = w]
        /\ UNCHANGED <<rsvp, seed, crossed>>
    BY <1>1 DEF SubmitRsvp, ghosts
  <2> HIDE DEF w
  <2>3. writer'[s] = w /\ \A t \in Submits \ {s} : writer'[t] = writer[t]
    BY <2>2 DEF TypeInv, TypeOK
  <2> QED
    BY <2>1, <2>2, <2>3, RowsEnded
<1>2. ASSUME NEW s \in Submits, WriterStep(s) PROVE RowsInv'
  BY <1>2, RowsFound, RowsSaved, RowsWritten DEF WriterStep
<1>3. ASSUME NEW j \in Jobs, JobStep(j) PROVE RowsInv'
  BY <1>3, RowsElsewhere DEF JobStep, ReadUser, SaveUser, UpdateUser, ghosts
<1>4. ASSUME NEW b \in Batches, NEW ids, NEW absent, UpdateAbsentStatusBatch(b, ids, absent)
      PROVE  RowsInv'
  BY <1>4, RowsElsewhere DEF UpdateAbsentStatusBatch, ghosts
<1>5. ASSUME NEW e \in Events, EventStarts(e) PROVE RowsInv'
  BY <1>5, RowsElsewhere DEF EventStarts, ghosts
<1>6. CASE UNCHANGED vars
  BY <1>6, RowsElsewhere DEF vars
<1> QED
  BY <1>1, <1>2, <1>3, <1>4, <1>5, <1>6, RowsSeeded, RowsMade, RowsMarked, RowsEdited,
     RowsCreated, RowsDeleted, RowsCrash DEF Next

LEMMA RowsInvariant == Spec => [](TypeInv /\ RowsInv)
<1>1. Init => TypeInv /\ RowsInv
  BY TypeInit, RowsInit
<1>2. (TypeInv /\ RowsInv) /\ [Next]_vars => (TypeInv /\ RowsInv)'
  BY TypeStep, RowsNext
<1> QED
  BY <1>1, <1>2, PTL DEF Spec

\* A member has one row for a market day, whatever is answered, seeded, deleted and
\* lost, unless two chains looked it up at the same time.
THEOREM OneRowPerPair == Spec => []OneRsvpPerPair
<1>1. TypeInv /\ RowsInv => OneRsvpPerPair
  <2> SUFFICES ASSUME TypeInv, RowsInv, NEW q \in RowIds, NEW r \in RowIds, q # r,
                      rsvp[q] # NoRow, rsvp[r] # NoRow,
                      rsvp[q].user = rsvp[r].user, rsvp[q].event = rsvp[r].event
               PROVE  <<rsvp[q].user, rsvp[q].event>> \in crossed
    BY DEF OneRsvpPerPair
  <2>1. PICK u \in Users, e \in Events : u = rsvp[q].user /\ e = rsvp[q].event
    BY DEF TypeInv, TypeOK, Row
  <2>2. Claim(u, e, q) /\ Claim(u, e, r)
    BY <2>1 DEF Claim
  <2> QED
    BY <2>1, <2>2 DEF RowsInv, ClaimInv
<1> QED
  BY <1>1, RowsInvariant, PTL

LEMMA WrittenMark ==
    ASSUME TypeInv, RowsInv, [Next]_vars, writer' # writer, NEW r \in RowIds,
           rsvp[r] # NoRow, rsvp'[r] # NoRow, rsvp'[r].attended # rsvp[r].attended
    PROVE  <<rsvp[r].user, rsvp[r].event>> \in crossed
<1>1. PICK s \in Submits : UpdateRsvp(s) \/ InsertRsvp(s)
  BY DEF Next, vars, SubmitRsvp, WriterStep, FindRsvp, SaveRsvp, JobStep, ReadUser, SaveUser,
         UpdateUser, UpdateAbsentStatusBatch, SeedFindRsvp, MakeUnknownRsvp, MarkAttended,
         EditResponse, CreateRsvp, DeleteRsvp, EventStarts, Crash
<1>2. View(r, rsvp[r].user, rsvp[r].event, rsvp[r].attended)
  BY DEF View
<1>3. View(r, rsvp'[r].user, rsvp'[r].event, rsvp'[r].attended)
  <2>1. \A u, e, a : View(r, u, e, a)' => View(r, u, e, a)
    BY <1>1, RowsWritten
  <2>2. \A u, e, a : rsvp'[r].user = u /\ rsvp'[r].event = e /\ rsvp'[r].attended = a
          => View(r, u, e, a)'
    BY DEF View
  <2> QED
    BY <2>1, <2>2
<1>4. \A u, e, a, x, y, z : View(r, u, e, a) /\ View(r, x, y, z) =>
        <<u, e>> \in crossed \/ a = z
  BY DEF RowsInv, ViewInv
<1> QED
  BY <1>2, <1>3, <1>4

\* An answer does not undo a mark, unless the mark was made, or two rows were looked
\* up, while the answer held the row.
THEOREM MarksAreKept == Spec => AttendanceKept
<1>1. TypeInv /\ RowsInv /\ [Next]_vars =>
        [\A r \in RowIds :
          /\ writer' # writer
          /\ rsvp[r] # NoRow /\ rsvp'[r] # NoRow
          /\ rsvp'[r].attended # rsvp[r].attended
          => <<rsvp[r].user, rsvp[r].event>> \in crossed]_vars
  BY WrittenMark
<1> QED
  BY <1>1, RowsInvariant, PTL DEF Spec, AttendanceKept

-----------------------------------------------------------------------------
(* What an answer leaves on the table.                                     *)

\* What a save found when it selected its row still holds.
UpToDate(s) ==
    LET r == writer[s].row IN
    /\ writer[s].pc = "update" =>
         /\ rsvp[r] # NoRow
         /\ "response" \in writer[s].cols \/ rsvp[r].response = writer[s].response
    /\ writer[s].pc = "insert" => rsvp[r] = NoRow

StoreInv == \A s \in Submits \ disturbed : UpToDate(s)

\* A step either keeps the answers that are on the table, or says whose save it disturbs.
Noticed ==
    \/ Disturbs
    \/ /\ disturbed' = disturbed
       /\ \A r \in RowIds : \/ rsvp'[r] = rsvp[r]
                            \/ /\ rsvp'[r] # NoRow /\ rsvp[r] # NoRow
                               /\ rsvp'[r].response = rsvp[r].response

LEMMA NothingUnnoticed == ASSUME TypeInv, [Next]_vars PROVE Noticed
<1>1. ASSUME NEW n \in RowIds, NEW a, MarkAttended(n, a) PROVE Noticed
  <2>1. rsvp[n] \in Row /\ rsvp[n] # NoRow /\ disturbed' = disturbed
    BY <1>1 DEF MarkAttended, TypeInv, TypeOK
  <2>2. /\ rsvp'[n].response = rsvp[n].response /\ rsvp'[n].user = rsvp[n].user
        /\ \A r \in RowIds \ {n} : rsvp'[r] = rsvp[r]
    BY <1>1, <2>1 DEF MarkAttended, TypeInv, TypeOK, Row
  <2>3. rsvp'[n] # NoRow
    BY <2>1, <2>2, NullAssumption DEF Row, NoRow
  <2> QED
    BY <2>1, <2>2, <2>3 DEF Noticed
<1>2. ASSUME NEW s \in Submits, WriterStep(s) PROVE Noticed
  BY <1>2 DEF Noticed, WriterStep, FindRsvp, SaveRsvp, UpdateRsvp, InsertRsvp, ghosts
<1>3. ASSUME NEW j \in Jobs, JobStep(j) PROVE Noticed
  BY <1>3 DEF Noticed, JobStep, ReadUser, SaveUser, UpdateUser, ghosts
<1>4. ASSUME \/ \E s \in Submits, u \in Users, e \in Events, x \in Responses :
                  SubmitRsvp(s, u, e, x)
             \/ \E b \in Batches, ids \in (SUBSET Users) \ {{}}, absent \in BOOLEAN :
                  UpdateAbsentStatusBatch(b, ids, absent)
             \/ \E w \in Seeds, u \in Users, e \in Events : SeedFindRsvp(w, u, e)
             \/ \E e \in Events : EventStarts(e)
             \/ Crash
             \/ UNCHANGED vars
      PROVE  UNCHANGED <<rsvp, disturbed>>
  BY <1>4 DEF SubmitRsvp, UpdateAbsentStatusBatch, SeedFindRsvp, EventStarts, Crash, ghosts, vars
<1>5. ASSUME \/ \E w \in Seeds : MakeUnknownRsvp(w)
             \/ \E r \in RowIds, x \in Responses : EditResponse(r, x)
             \/ \E w \in Seeds, u \in Users, e \in Events, x \in Responses : CreateRsvp(w, u, e, x)
             \/ \E r \in RowIds : DeleteRsvp(r)
      PROVE  Disturbs
  BY <1>5 DEF MakeUnknownRsvp, EditResponse, CreateRsvp, DeleteRsvp
<1>6. UNCHANGED <<rsvp, disturbed>> => Noticed
  BY DEF Noticed
<1> QED
  BY <1>1, <1>2, <1>3, <1>4, <1>5, <1>6 DEF Next, Noticed

\* A save that waits stays up to date, or is disturbed.
LEMMA StoreKept ==
    ASSUME TypeInv, StoreInv, Noticed, NEW s \in Submits \ disturbed', writer'[s] = writer[s]
    PROVE  UpToDate(s)'
<1> DEFINE r == writer[s].row
<1>1. s \notin disturbed
  BY DEF Noticed, Disturbs
<1>2. UpToDate(s)
  BY <1>1 DEF StoreInv
<1>3. writer[s].pc \in {"update", "insert"} => r \in RowIds
  BY DEF TypeInv, WriterKnows
<1>4. CASE Disturbs
  <2>1. writer[s].pc \in {"update", "insert"} =>
          /\ (rsvp'[r] = NoRow) = (rsvp[r] = NoRow)
          /\ "response" \in writer[s].cols \/ rsvp'[r].response = rsvp[r].response
    BY <1>4 DEF Disturbs
  <2> QED
    BY <1>2, <2>1 DEF UpToDate
<1>5. CASE ~Disturbs
  <2>1. writer[s].pc \in {"update", "insert"} =>
          \/ rsvp'[r] = rsvp[r]
          \/ rsvp'[r] # NoRow /\ rsvp[r] # NoRow /\ rsvp'[r].response = rsvp[r].response
    BY <1>3, <1>5 DEF Noticed
  <2> QED
    BY <1>2, <2>1 DEF UpToDate
<1> QED
  BY <1>4, <1>5

\* A chain that moves to its write has just seen the row it is about to write.
LEMMA StoreMoves ==
    ASSUME TypeInv, RowsInv, NEW s \in Submits, WriterStep(s)
    PROVE  /\ UpToDate(s)'
           /\ \A t \in Submits \ {s} : writer'[t] = writer[t]
<1>1. writer[s] \in Writer /\ writer \in [Submits -> Writer]
  BY DEF TypeInv, TypeOK
<1>2. EndWriter(s, "done").pc = "done"
  BY EndWriterType
<1>3. CASE FindRsvp(s)
  <2>1. PICK pc, n, a : /\ pc \in {"insert", "save"}
                          /\ Answer(s, pc, n, a) /\ (pc = "insert" => n = s)
    BY <1>3 DEF FindRsvp
  <2>2. /\ writer'[s].pc = pc /\ writer'[s].row = n
        /\ \A t \in Submits \ {s} : writer'[t] = writer[t]
    BY <1>1, <2>1 DEF Answer, Writer
  <2>3. s \in RowIds /\ Unborn(s)
    BY <1>3 DEF FindRsvp, RowIds, Unborn
  <2>4. rsvp[s] = NoRow
    BY <2>3 DEF RowsInv, BirthInv, View
  <2>5. rsvp' = rsvp
    BY <1>3 DEF FindRsvp
  <2> QED
    BY <2>1, <2>2, <2>4, <2>5 DEF UpToDate
<1>4. CASE SaveRsvp(s)
  <2> DEFINE r == writer[s].row
             diff == {c \in {"response", "attended"} : writer[s][c] # rsvp[r][c]}
             x == IF rsvp[r] = NoRow THEN [writer[s] EXCEPT !.pc = "insert"]
                  ELSE IF diff = {} THEN EndWriter(s, "done")
                  ELSE [writer[s] EXCEPT !.pc = "update", !.cols = diff]
  <2>1. writer' = [writer EXCEPT ![s] = x] /\ rsvp' = rsvp
    BY <1>4 DEF SaveRsvp
  <2>2. "response" \in diff \/ rsvp[r].response = writer[s].response
    OBVIOUS
  <2> HIDE DEF diff
  <2>3. \/ rsvp[r] = NoRow /\ x.pc = "insert" /\ x.row = r
        \/ x.pc = "done"
        \/ /\ rsvp[r] # NoRow /\ x.pc = "update" /\ x.row = r /\ x.cols = diff
           /\ x.response = writer[s].response
    BY <1>1, <1>2 DEF Writer
  <2> HIDE DEF x
  <2>4. writer'[s] = x /\ \A t \in Submits \ {s} : writer'[t] = writer[t]
    BY <1>1, <2>1
  <2> QED
    BY <2>1, <2>2, <2>3, <2>4 DEF UpToDate
<1>5. CASE UpdateRsvp(s) \/ InsertRsvp(s)
  <2>1. writer' = [writer EXCEPT ![s] = EndWriter(s, "done")]
    BY <1>5 DEF UpdateRsvp, InsertRsvp
  <2> QED
    BY <1>1, <1>2, <2>1 DEF UpToDate
<1> QED
  BY <1>3, <1>4, <1>5 DEF WriterStep

\* Steps that are not of a chain on the table start no write.
LEMMA WritersElsewhere ==
    ASSUME TypeInv, [Next]_vars, ~ \E s \in Submits : WriterStep(s), NEW t \in Submits
    PROVE  writer'[t] = writer[t] \/ writer'[t].pc \in {"find", "refused", "lost"}
<1>1. ASSUME NEW s \in Submits, NEW u \in Users, NEW e \in Events, NEW x \in Responses,
             SubmitRsvp(s, u, e, x)
      PROVE  writer'[t] = writer[t] \/ writer'[t].pc \in {"find", "refused"}
  <2> DEFINE w == [NoWriter EXCEPT !.pc = IF e \in past THEN "refused" ELSE "find",
                                   !.user = u, !.event = e, !.response = x]
  <2>1. w.pc \in {"find", "refused"} /\ writer' = [writer EXCEPT ![s] = w]
    BY <1>1 DEF SubmitRsvp, NoWriter
  <2> HIDE DEF w
  <2> QED
    BY <2>1 DEF TypeInv, TypeOK
<1>2. ASSUME Crash PROVE writer'[t] = writer[t] \/ writer'[t].pc = "lost"
  BY <1>2, EndWriterType DEF Crash
<1>3. CASE UNCHANGED writer
  BY <1>3
<1>4. ASSUME NEW j \in Jobs, JobStep(j) PROVE UNCHANGED writer
  BY <1>4 DEF JobStep, ReadUser, SaveUser, UpdateUser
<1>5. ASSUME \/ \E b \in Batches, ids \in (SUBSET Users) \ {{}}, absent \in BOOLEAN :
                  UpdateAbsentStatusBatch(b, ids, absent)
             \/ \E w \in Seeds, u \in Users, e \in Events : SeedFindRsvp(w, u, e)
             \/ \E w \in Seeds : MakeUnknownRsvp(w)
             \/ \E r \in RowIds, a \in Responses : MarkAttended(r, a) \/ EditResponse(r, a)
             \/ \E w \in Seeds, u \in Users, e \in Events, x \in Responses : CreateRsvp(w, u, e, x)
             \/ \E r \in RowIds : DeleteRsvp(r)
             \/ \E e \in Events : EventStarts(e)
             \/ UNCHANGED vars
      PROVE  UNCHANGED writer
  BY <1>5 DEF UpdateAbsentStatusBatch, SeedFindRsvp, MakeUnknownRsvp, MarkAttended, EditResponse,
              CreateRsvp, DeleteRsvp, EventStarts, vars
<1> QED
  BY <1>1, <1>2, <1>3, <1>4, <1>5 DEF Next

LEMMA StoreStep == TypeInv /\ RowsInv /\ StoreInv /\ [Next]_vars => StoreInv'
<1> SUFFICES ASSUME TypeInv, RowsInv, StoreInv, [Next]_vars, NEW t \in Submits \ disturbed'
             PROVE  UpToDate(t)'
  BY DEF StoreInv
<1>1. Noticed
  BY NothingUnnoticed
<1>2. writer'[t] = writer[t] => UpToDate(t)'
  BY <1>1, StoreKept
<1>3. ASSUME NEW s \in Submits, WriterStep(s) PROVE UpToDate(t)'
  BY <1>2, <1>3, StoreMoves
<1>4. CASE ~ \E s \in Submits : WriterStep(s)
  <2>1. writer'[t] = writer[t] \/ writer'[t].pc \in {"find", "refused", "lost"}
    BY <1>4, WritersElsewhere
  <2> QED
    BY <1>2, <2>1 DEF UpToDate
<1> QED
  BY <1>3, <1>4

\* The step that ends an undisturbed answer leaves it on the row it held.
LEMMA AnswerWritten ==
    ASSUME TypeInv, RowsInv, StoreInv, NEW s \in Submits \ disturbed',
           SaveRsvp(s) \/ UpdateRsvp(s) \/ InsertRsvp(s), writer'[s].pc = "done"
    PROVE  LET r == writer[s].row IN
             /\ r \in RowIds
             /\ rsvp'[r].user = writer[s].user /\ rsvp'[r].event = writer[s].event
             /\ rsvp'[r].response = writer[s].response
<1> DEFINE r == writer[s].row
<1>1. r \in RowIds /\ writer[s] \in Writer /\ HasRow(s, r) /\ rsvp \in [RowIds -> Row \union {NoRow}]
  BY DEF SaveRsvp, UpdateRsvp, InsertRsvp, TypeInv, TypeOK, WriterKnows, HasRow
<1>2. rsvp[r] # NoRow => rsvp[r].user = writer[s].user /\ rsvp[r].event = writer[s].event
  <2>1. View(r, writer[s].user, writer[s].event, writer[s].attended)
    BY <1>1 DEF View
  <2> QED
    BY <1>1, <2>1, PairSeen DEF RowsInv
<1>3. UpToDate(s)
  BY DEF SaveRsvp, UpdateRsvp, InsertRsvp, Disturbs, ghosts, StoreInv
<1>4. CASE SaveRsvp(s)
  <2> DEFINE diff == {c \in {"response", "attended"} : writer[s][c] # rsvp[r][c]}
  <2>1. /\ rsvp' = rsvp
        /\ writer' = [writer EXCEPT ![s] = IF rsvp[r] = NoRow THEN [@ EXCEPT !.pc = "insert"]
                                           ELSE IF diff = {} THEN EndWriter(s, "done")
                                           ELSE [@ EXCEPT !.pc = "update", !.cols = diff]]
    BY <1>4 DEF SaveRsvp
  <2>2. rsvp[r] # NoRow /\ diff = {}
    <3> HIDE DEF diff, r
    <3> QED
      BY <1>1, <2>1 DEF TypeInv, TypeOK, Writer
  <2>3. rsvp[r].response = writer[s].response
    BY <2>2
  <2> QED
    BY <1>1, <1>2, <2>1, <2>2, <2>3
<1>5. CASE UpdateRsvp(s)
  <2> DEFINE column(c) == IF c \in writer[s].cols THEN writer[s][c] ELSE rsvp[r][c]
             row == [rsvp[r] EXCEPT !.response = column("response"),
                                    !.attended = column("attended")]
  <2>1. rsvp[r] # NoRow /\ rsvp[r] \in Row
    BY <1>1, <1>3, <1>5 DEF UpdateRsvp, UpToDate
  <2>2. column("response") = writer[s].response
    BY <1>3, <1>5 DEF UpdateRsvp, UpToDate
  <2>3. rsvp' = [rsvp EXCEPT ![r] = row]
    BY <1>1, <1>5, <2>1 DEF UpdateRsvp
  <2>4. row.user = rsvp[r].user /\ row.event = rsvp[r].event /\ row.response = column("response")
    BY <2>1 DEF Row
  <2> HIDE DEF row, column
  <2> QED
    BY <1>1, <1>2, <2>1, <2>2, <2>3, <2>4
<1>6. CASE InsertRsvp(s)
  <2>1. rsvp[r] = NoRow
    BY <1>3, <1>6 DEF InsertRsvp, UpToDate
  <2> QED
    BY <1>1, <1>6, <2>1 DEF InsertRsvp
<1> QED
  BY <1>4, <1>5, <1>6

\* An answer that ends, and whose row nobody touched between the select and the write of
\* its save, is what the table says of its member and market day (submitRsvp, repo.save).
THEOREM AnswersAreStored == Spec => AnswerIsStored
<1> DEFINE Stored ==
      \A s \in Submits \ disturbed', u \in Users, e \in Events :
          /\ WriterActive(s) /\ writer'[s].pc = "done"
          /\ writer[s].user = u /\ writer[s].event = e /\ <<u, e>> \notin crossed'
          => /\ Rows(u, e)' # {}
             /\ \A r \in Rows(u, e)' : rsvp'[r].response = writer[s].response
<1>1. TypeInv /\ RowsInv /\ StoreInv /\ (TypeInv /\ RowsInv)' /\ [Next]_vars => Stored
  <2> SUFFICES ASSUME TypeInv, RowsInv, StoreInv, (TypeInv /\ RowsInv)', [Next]_vars,
                      NEW s \in Submits \ disturbed', NEW u \in Users, NEW e \in Events,
                      WriterActive(s), writer'[s].pc = "done",
                      writer[s].user = u, writer[s].event = e, <<u, e>> \notin crossed'
               PROVE  /\ Rows(u, e)' # {}
                      /\ \A r \in Rows(u, e)' : rsvp'[r].response = writer[s].response
    OBVIOUS
  <2>1. \E t \in Submits : WriterStep(t)
    BY WritersElsewhere DEF WriterActive
  <2>2. WriterStep(s)
    BY <2>1, StoreMoves DEF WriterActive
  <2>3. ASSUME FindRsvp(s) PROVE FALSE
    <3>1. PICK pc, n, a : pc \in {"insert", "save"} /\ Answer(s, pc, n, a)
      BY <2>3 DEF FindRsvp
    <3>2. writer'[s].pc = pc
      BY <3>1 DEF Answer, TypeInv, TypeOK, Writer
    <3> QED
      BY <3>1, <3>2
  <2>4. PICK n \in RowIds : /\ rsvp'[n].user = u /\ rsvp'[n].event = e
                            /\ rsvp'[n].response = writer[s].response
    BY <2>2, <2>3, AnswerWritten DEF WriterStep
  <2>5. n \in Rows(u, e)'
    BY <2>4 DEF Rows
  <2>6. ASSUME NEW r \in Rows(u, e)' PROVE r = n
    <3>1. r \in RowIds /\ Claim(u, e, r)' /\ Claim(u, e, n)'
      BY <2>4, <2>6 DEF Claim, Rows
    <3> QED
      BY <2>4, <3>1 DEF RowsInv, ClaimInv
  <2> QED
    BY <2>4, <2>5, <2>6
<1>2. Init => StoreInv
  BY DEF Init, NoWriter, StoreInv, UpToDate
<1>3. Spec => []StoreInv
  BY <1>2, StoreStep, RowsInvariant, PTL DEF Spec
<1>4. Stored => [Stored]_vars
  OBVIOUS
<1>5. Spec => [][Stored]_vars
  BY <1>1, <1>3, RowsInvariant, PTL DEF Spec
<1> QED
  BY <1>5 DEF AnswerIsStored

-----------------------------------------------------------------------------
(* The ledger.                                                             *)

\* An answer that has not looked for its row has not started its score chain.
IdleInv == \A s \in Submits : writer[s].pc \in {"idle", "find"} => job[s].pc = "idle"

LEMMA IdleStep == TypeInv /\ IdleInv /\ [Next]_vars => IdleInv'
<1> SUFFICES ASSUME TypeInv, IdleInv, [Next]_vars PROVE IdleInv'
  OBVIOUS
<1> USE DEF TypeInv, TypeOK, IdleInv
<1>1. ASSUME NEW s \in Submits, WriterStep(s) PROVE IdleInv'
  <2> DEFINE Moved == /\ writer'[s].pc \notin {"idle", "find"}
                      /\ \A q \in Submits \ {s} : writer'[q] = writer[q] /\ job'[q] = job[q]
  <2>1. EndWriter(s, "done").pc = "done"
    BY DEF EndWriter, NoWriter
  <2>2. CASE FindRsvp(s)
    <3>1. PICK pc, r, a : pc \in {"insert", "save"} /\ Answer(s, pc, r, a)
      BY <2>2 DEF FindRsvp
    <3> QED
      BY <3>1 DEF Answer
  <2>3. CASE SaveRsvp(s)
    <3> DEFINE diff == {c \in {"response", "attended"} : writer[s][c] # rsvp[writer[s].row][c]}
               x == IF rsvp[writer[s].row] = NoRow THEN [writer[s] EXCEPT !.pc = "insert"]
                    ELSE IF diff = {} THEN EndWriter(s, "done")
                    ELSE [writer[s] EXCEPT !.pc = "update", !.cols = diff]
    <3>1. writer' = [writer EXCEPT ![s] = x] /\ job' = job
      BY <2>3 DEF SaveRsvp
    <3>2. writer[s] \in Writer
      OBVIOUS
    <3>3. x.pc \in {"insert", "done", "update"}
      BY <2>1, <3>2 DEF Writer
    <3> HIDE DEF x
    <3> QED
      BY <3>1, <3>3
  <2>4. CASE UpdateRsvp(s)
    BY <2>1, <2>4 DEF UpdateRsvp, ghosts
  <2>5. CASE InsertRsvp(s)
    BY <2>1, <2>5 DEF InsertRsvp, ghosts
  <2> QED
    BY <1>1, <2>2, <2>3, <2>4, <2>5 DEF WriterStep
<1>2. ASSUME NEW j \in Jobs, JobStep(j) PROVE IdleInv'
  <2>1. job[j].pc # "idle" /\ writer' = writer
    BY <1>2 DEF JobStep, ReadUser, SaveUser, UpdateUser, ghosts
  <2>2. \A k \in Jobs \ {j} : job'[k] = job[k]
    BY <1>2 DEF JobStep, ReadUser, SaveUser, UpdateUser
  <2> QED
    BY <2>1, <2>2 DEF Jobs
<1>3. ASSUME NEW s \in Submits, NEW u \in Users, NEW e \in Events, NEW x \in Responses,
             SubmitRsvp(s, u, e, x)
      PROVE  IdleInv'
  BY <1>3 DEF SubmitRsvp, ghosts
<1>4. ASSUME NEW b \in Batches, NEW ids \in SUBSET Users, NEW absent \in BOOLEAN,
             UpdateAbsentStatusBatch(b, ids, absent)
      PROVE  IdleInv'
  <2>1. \A s \in Submits : \A u \in ids : s # <<b, u>>
    BY JobNames
  <2>2. \A s \in Submits : job'[s] = job[s]
    BY <1>4, <2>1 DEF UpdateAbsentStatusBatch, Jobs
  <2> QED
    BY <1>4, <2>2 DEF UpdateAbsentStatusBatch
<1>5. CASE Crash
  <2>1. \A s \in Submits : writer'[s].pc \in {"idle", "find"} => writer'[s] = writer[s]
    BY <1>5, EndWriterType DEF Crash
  <2>2. \A s \in Submits : job[s].pc = "idle" => job'[s] = job[s]
    BY <1>5 DEF Crash, JobActive, Jobs
  <2> QED
    BY <2>1, <2>2
<1>6. CASE UNCHANGED <<writer, job>>
  BY <1>6
<1>7. ASSUME NEW w \in Seeds, NEW u \in Users, NEW e \in Events, SeedFindRsvp(w, u, e)
      PROVE  UNCHANGED <<writer, job>>
  BY <1>7 DEF SeedFindRsvp
<1>8. ASSUME NEW w \in Seeds, MakeUnknownRsvp(w) PROVE UNCHANGED <<writer, job>>
  BY <1>8 DEF MakeUnknownRsvp
<1>9. ASSUME NEW r \in RowIds, NEW a \in Responses, MarkAttended(r, a)
      PROVE  UNCHANGED <<writer, job>>
  BY <1>9 DEF MarkAttended
<1>10. ASSUME NEW r \in RowIds, DeleteRsvp(r) PROVE UNCHANGED <<writer, job>>
  BY <1>10 DEF DeleteRsvp
<1>11. ASSUME NEW e \in Events, EventStarts(e) PROVE UNCHANGED <<writer, job>>
  BY <1>11 DEF EventStarts
<1>12. CASE UNCHANGED vars
  BY <1>12 DEF vars
<1>13. ASSUME NEW r \in RowIds, NEW x \in Responses, EditResponse(r, x)
       PROVE  UNCHANGED <<writer, job>>
  BY <1>13 DEF EditResponse
<1>14. ASSUME NEW w \in Seeds, NEW u \in Users, NEW e \in Events, NEW x \in Responses,
              CreateRsvp(w, u, e, x)
       PROVE  UNCHANGED <<writer, job>>
  BY <1>14 DEF CreateRsvp
<1> QED
  BY <1>1, <1>2, <1>3, <1>4, <1>5, <1>6, <1>7, <1>8, <1>9, <1>10, <1>11, <1>12, <1>13, <1>14
     DEF Next

\* What the rules do to score and absence is what the ledger does to them.
LEMMA RuleOfLedger ==
    ASSUME NEW kind \in Kinds, NEW a \in Account, NEW j
    PROVE  LET n == IF kind = "yes" THEN a.rsvpScore + 1
                    ELSE IF kind = "no" THEN (IF a.rsvpScore > 0 THEN a.rsvpScore - 1 ELSE 0)
                    ELSE a.rsvpScore
           IN /\ Apply(kind, a, j).rsvpScore = n
              /\ Apply(kind, a, j).absent = (kind # "forgive" /\ n < 3)
<1> DEFINE n == IF kind = "yes" THEN a.rsvpScore + 1
                ELSE IF kind = "no" THEN (IF a.rsvpScore > 0 THEN a.rsvpScore - 1 ELSE 0)
                ELSE a.rsvpScore
           b == [a EXCEPT !.rsvpScore = NewScore(kind, a.rsvpScore)]
<1>1. a.rsvpScore \in Nat /\ a.absent \in BOOLEAN
  BY DEF Account
<1>2. NewScore(kind, a.rsvpScore) = n
  BY <1>1 DEF NewScore
<1>3. b.rsvpScore = n /\ b.absent = a.absent
  BY <1>2 DEF Account
<1>4. n \in Nat
  BY <1>1
<1> HIDE DEF b, n
<1>5. CASE kind = "forgive"
  <2>1. Apply(kind, a, j).rsvpScore = a.rsvpScore /\ Apply(kind, a, j).absent = FALSE
    BY <1>5 DEF Apply, Account
  <2>2. n = a.rsvpScore
    BY <1>5 DEF n
  <2> QED
    BY <1>5, <2>1, <2>2 DEF n
<1>6. CASE kind # "forgive"
  <2>1. Apply(kind, a, j) = checkScore(b, j)
    BY <1>6 DEF Apply, b
  <2>2. checkScore(b, j).rsvpScore = n
    BY <1>3 DEF checkScore
  <2>3. CASE n < 3
    <3>1. checkScore(b, j).absent = TRUE
      BY <1>1, <1>3, <1>4, <2>3 DEF checkScore, AbsentBelow
    <3> QED
      BY <1>6, <2>1, <2>2, <2>3, <3>1, Zenon DEF n
  <2>4. CASE ~(n < 3)
    <3>1. checkScore(b, j).absent = FALSE
      BY <1>1, <1>3, <1>4, <2>4 DEF checkScore, AbsentBelow
    <3> QED
      BY <1>6, <2>1, <2>2, <2>4, <3>1, Zenon DEF n
  <2> QED
    BY <2>3, <2>4
<1> QED
  BY <1>5, <1>6

\* The step that ends a score chain settles its entry.
LEMMA LedgerSettles ==
    ASSUME ScoreInv, NEW j \in Jobs, job[j].pc \in {"load", "write"},
           job' = [job EXCEPT ![j] = EndJob(j, "done")], raced' = raced,
           \A v \in Users \ {job[j].user} : account'[v] = account[v],
           job[j].user \notin raced
             => account'[job[j].user] = Apply(job[j].kind, account[job[j].user], j)
    PROVE  Ledger!Settle(j)
<1> DEFINE u == job[j].user
           kind == job[j].kind
           a == account[u]
<1>1. job \in [Jobs -> Job] /\ account \in [Users -> Account]
  BY DEF ScoreInv, TypeInv, TypeOK
<1>2. u \in Users /\ kind \in Kinds
  BY <1>1 DEF ScoreInv, TypeInv, JobKnows, JobActive, Job
<1>3. a \in Account /\ a.rsvpScore \in Nat
  BY <1>1, <1>2 DEF Account
<1>4. /\ job'[j].pc = "done" /\ job'[j].user = u /\ job'[j].kind = kind
      /\ \A k \in Jobs \ {j} : job'[k] = job[k]
  BY <1>1 DEF EndJob, NoJob
<1>5. ledgerFiled[j] = <<u, kind>> /\ ledgerFiled[j] # Null
  BY <1>2, KindNames DEF ledgerFiled
<1>6. ledgerFiled' = ledgerFiled
  BY <1>4 DEF ledgerFiled
<1>7. j \notin ledgerSettled /\ ledgerSettled' = ledgerSettled \union {j}
  BY <1>4 DEF ledgerSettled
<1>8. CASE u \in raced
  <2>1. ledgerScore' = ledgerScore
    BY <1>8 DEF ledgerScore
  <2>2. ledgerAbsent' = ledgerAbsent
    BY <1>8 DEF ledgerAbsent
  <2> QED
    BY <1>5, <1>6, <1>7, <1>8, <2>1, <2>2 DEF Ledger!Settle
<1>9. CASE u \notin raced
  <2> DEFINE down == IF a.rsvpScore > 0 THEN a.rsvpScore - 1 ELSE 0
             n == IF kind = "yes" THEN a.rsvpScore + 1
                  ELSE IF kind = "no" THEN down ELSE a.rsvpScore
  <2>1. /\ account'[u].rsvpScore = n
        /\ account'[u].absent = (kind # "forgive" /\ n < 3)
    BY <1>2, <1>3, <1>9, RuleOfLedger
  <2>2. ledgerScore[u] = a.rsvpScore
    BY <1>2, <1>9 DEF ledgerScore
  <2> HIDE DEF n
  <2>3. ledgerScore' = [ledgerScore EXCEPT ![u] = n]
    BY <1>2, <1>9, <2>1 DEF ledgerScore
  <2>4. ledgerAbsent' = [ledgerAbsent EXCEPT ![u] = kind # "forgive" /\ n < 3]
    <3>1. \A v \in Users \ {u} : ledgerAbsent'[v] = ledgerAbsent[v]
      BY <1>2 DEF ledgerAbsent
    <3>2. ledgerAbsent'[u] = (kind # "forgive" /\ n < 3)
      <4>1. ledgerAbsent'[u] = (u \notin raced' /\ account'[u].absent)
        BY <1>2 DEF ledgerAbsent
      <4>2. u \notin raced'
        BY <1>9
      <4> QED
        BY <2>1, <4>1, <4>2, Zenon
    <3> QED
      BY <1>2, <3>1, <3>2 DEF ledgerAbsent
  <2>5. /\ ledgerFiled[j][1] = u /\ ledgerFiled[j][2] = kind
    BY <1>5
  <2> QED
    BY <1>5, <1>6, <1>7, <1>9, <2>2, <2>3, <2>4, <2>5 DEF n, Ledger!Settle, Ledger!AbsentBelow
<1> QED
  BY <1>8, <1>9

\* A score chain: reading gives up a member at most, saving settles or says nothing yet.
LEMMA LedgerJobStep ==
    ASSUME ScoreInv, NEW j \in Jobs, JobStep(j)
    PROVE  [Ledger!LedgerNext]_(Ledger!lvars)
<1> DEFINE u == job[j].user
<1>1. job \in [Jobs -> Job] /\ account \in [Users -> Account]
  BY DEF ScoreInv, TypeInv, TypeOK
<1>2. u \in Users
  BY DEF JobStep, ReadUser, SaveUser, UpdateUser, ScoreInv, TypeInv, JobKnows, JobActive
<1>3. CASE ReadUser(j)
  <2>1. /\ account' = account
        /\ raced' = raced \/ raced' = raced \union {u}
    BY <1>3 DEF ReadUser
  <2>2. /\ job'[j].pc = "load" /\ job'[j].user = u /\ job'[j].kind = job[j].kind
        /\ job[j].pc = "read"
        /\ \A k \in Jobs \ {j} : job'[k] = job[k]
    BY <1>1, <1>3 DEF ReadUser, Job
  <2>3. ledgerFiled' = ledgerFiled
    BY <2>2 DEF ledgerFiled
  <2>4. ledgerSettled' = ledgerSettled
    BY <2>2 DEF ledgerSettled
  <2>5. CASE raced' = raced
    <3>1. ledgerScore' = ledgerScore /\ ledgerAbsent' = ledgerAbsent
      BY <2>1, <2>5 DEF ledgerScore, ledgerAbsent
    <3> QED
      BY <2>3, <2>4, <2>5, <3>1 DEF Ledger!lvars
  <2>6. CASE raced' = raced \union {u} /\ u \notin raced
    <3>1. ledgerScore' = [ledgerScore EXCEPT ![u] = 0]
      BY <1>2, <2>1, <2>6 DEF ledgerScore
    <3>2. ledgerAbsent' = [ledgerAbsent EXCEPT ![u] = FALSE]
      BY <1>2, <2>1, <2>6 DEF ledgerAbsent
    <3>3. Ledger!GiveUp(u)
      BY <2>3, <2>4, <2>6, <3>1, <3>2 DEF Ledger!GiveUp
    <3> QED
      BY <1>2, <3>3 DEF Ledger!LedgerNext
  <2> QED
    BY <2>1, <2>5, <2>6
<1>4. CASE SaveUser(j) /\ Diff(job[j].copy, account[u]) = {}
  <2>1. /\ job[j].pc = "load" /\ raced' = raced /\ account' = account
        /\ job' = [job EXCEPT ![j] = EndJob(j, "done")]
    BY <1>4 DEF SaveUser, ghosts
  <2>2. job[j].copy \in Account /\ account[u] \in Account
    BY <1>1, <1>2 DEF Job
  <2>3. job[j].copy = account[u]
    BY <1>4, <2>2, NoDiff
  <2>4. u \notin raced => account[u] = Apply(job[j].kind, account[u], j)
    BY <1>2, <2>1, <2>3 DEF ScoreInv, HoldInv, Holds
  <2>5. Ledger!Settle(j)
    BY <2>1, <2>4, LedgerSettles
  <2> QED
    BY <2>5 DEF Ledger!LedgerNext
<1>5. CASE SaveUser(j) /\ Diff(job[j].copy, account[u]) # {}
  <2>1. /\ job[j].pc = "load" /\ raced' = raced /\ account' = account
        /\ job'[j].pc = "write" /\ job'[j].user = u /\ job'[j].kind = job[j].kind
        /\ \A k \in Jobs \ {j} : job'[k] = job[k]
    BY <1>1, <1>5 DEF SaveUser, ghosts, Job
  <2>2. ledgerFiled' = ledgerFiled /\ ledgerSettled' = ledgerSettled
    BY <2>1 DEF ledgerFiled, ledgerSettled
  <2>3. ledgerScore' = ledgerScore /\ ledgerAbsent' = ledgerAbsent
    BY <2>1 DEF ledgerScore, ledgerAbsent
  <2> QED
    BY <2>1, <2>2, <2>3 DEF Ledger!lvars
<1>6. CASE UpdateUser(j)
  <2>1. /\ job[j].pc = "write" /\ raced' = raced
        /\ job' = [job EXCEPT ![j] = EndJob(j, "done")]
        /\ \A v \in Users \ {u} : account'[v] = account[v]
    BY <1>1, <1>6 DEF UpdateUser, ghosts
  <2>2. u \notin raced => account'[u] = Apply(job[j].kind, account[u], j)
    BY <1>6, UnracedWrite
  <2>3. Ledger!Settle(j)
    BY <2>1, <2>2, LedgerSettles
  <2> QED
    BY <2>3 DEF Ledger!LedgerNext
<1> QED
  BY <1>3, <1>4, <1>5, <1>6 DEF JobStep

\* Chains that start file their entries.
LEMMA LedgerFiles ==
    ASSUME TypeInv, NEW new \in SUBSET Jobs, new # {},
           UNCHANGED <<account, raced>>,
           \A j \in new : job[j].pc = "idle" /\ job'[j].pc = "read"
                          /\ job'[j].user \in Users /\ job'[j].kind \in Kinds,
           \A j \in Jobs \ new : job'[j] = job[j]
    PROVE  Ledger!LedgerNext
<1>1. /\ ledgerScore' = ledgerScore /\ ledgerAbsent' = ledgerAbsent
      /\ ledgerSettled' = ledgerSettled
  BY DEF ledgerScore, ledgerAbsent, ledgerSettled
<1>2. \A j \in new : ledgerFiled[j] = Null /\ ledgerFiled'[j] \in Users \X Kinds
  BY DEF ledgerFiled
<1>3. \A j \in Jobs \ new : ledgerFiled'[j] = ledgerFiled[j]
  BY DEF ledgerFiled
<1>4. DOMAIN ledgerFiled' = Jobs
  BY DEF ledgerFiled
<1>5. new \in SUBSET {q \in Jobs : ledgerFiled[q] = Null}
  BY <1>2
<1>6. Ledger!File
  BY <1>1, <1>2, <1>3, <1>4, <1>5 DEF Ledger!File, Ledger!Effects, Kinds
<1> QED
  BY <1>6 DEF Ledger!LedgerNext

\* Every step is a step of the ledger or none.
LEMMA LedgerStep ==
    ASSUME ScoreInv, IdleInv, [Next]_vars
    PROVE  [Ledger!LedgerNext]_(Ledger!lvars)
<1> DEFINE Quiet == /\ UNCHANGED <<account, raced>>
                    /\ \A j \in Jobs : job'[j] = job[j] \/ ( /\ job[j].pc \notin {"idle", "done"}
                                                             /\ job'[j] = EndJob(j, "lost") )
<1>1. job \in [Jobs -> Job] /\ TypeInv
  BY DEF ScoreInv, TypeInv, TypeOK
<1>2. Quiet => UNCHANGED Ledger!lvars
  <2> SUFFICES ASSUME Quiet PROVE UNCHANGED Ledger!lvars
    OBVIOUS
  <2>1. ledgerScore' = ledgerScore /\ ledgerAbsent' = ledgerAbsent
    BY DEF ledgerScore, ledgerAbsent
  <2>2. \A j \in Jobs : /\ job'[j].user = job[j].user /\ job'[j].kind = job[j].kind
                        /\ job'[j].pc = "idle" <=> job[j].pc = "idle"
                        /\ job'[j].pc = "done" <=> job[j].pc = "done"
    BY DEF EndJob, NoJob
  <2>3. ledgerFiled' = ledgerFiled /\ ledgerSettled' = ledgerSettled
    BY <2>2 DEF ledgerFiled, ledgerSettled
  <2> QED
    BY <2>1, <2>3 DEF Ledger!lvars
<1>3. CASE \E j \in Jobs : JobStep(j)
  BY <1>3, LedgerJobStep
<1>4. ASSUME NEW s \in Submits, WriterStep(s) PROVE Quiet \/ Ledger!LedgerNext
  <2>1. CASE FindRsvp(s)
    <3>1. PICK x, y : job' = [job EXCEPT ![s] = StartJob(writer[s].user, KindOf(x, y))]
      BY <2>1 DEF FindRsvp, Answer
    <3>2. writer[s].user \in Users /\ job[s].pc = "idle" /\ s \in Jobs
      BY <1>1, <2>1 DEF FindRsvp, TypeInv, WriterKnows, WriterActive, IdleInv, Jobs
    <3>3. KindOf(x, y) \in Kinds
      BY KindOfType
    <3>4. /\ job'[s].pc = "read" /\ job'[s].user \in Users /\ job'[s].kind \in Kinds
          /\ \A j \in Jobs \ {s} : job'[j] = job[j]
      BY <1>1, <3>1, <3>2, <3>3 DEF StartJob, NoJob
    <3>5. UNCHANGED <<account, raced>>
      BY <2>1 DEF FindRsvp
    <3> QED
      BY <1>1, <3>2, <3>4, <3>5, LedgerFiles
  <2>2. CASE SaveRsvp(s) \/ UpdateRsvp(s) \/ InsertRsvp(s)
    BY <2>2 DEF SaveRsvp, UpdateRsvp, InsertRsvp, ghosts
  <2> QED
    BY <1>4, <2>1, <2>2 DEF WriterStep
<1>5. ASSUME NEW b \in Batches, NEW ids \in (SUBSET Users) \ {{}}, NEW absent \in BOOLEAN,
             UpdateAbsentStatusBatch(b, ids, absent)
      PROVE  Ledger!LedgerNext
  <2> DEFINE new == {j \in Jobs : \E u \in ids : j = <<b, u>>}
             kind == IF absent THEN "none" ELSE "forgive"
  <2>1. new \in SUBSET Jobs /\ new # {}
    BY DEF Jobs
  <2>2. \A j \in new : job[j].pc = "idle" /\ j[2] \in Users
    BY <1>5 DEF UpdateAbsentStatusBatch
  <2>3. /\ \A j \in new : job'[j] = StartJob(j[2], kind)
        /\ \A j \in Jobs \ new : job'[j] = job[j]
    BY <1>5 DEF UpdateAbsentStatusBatch
  <2>4. \A j \in new : /\ job'[j].pc = "read" /\ job'[j].user \in Users
                       /\ job'[j].kind \in Kinds
    <3>1. kind \in Kinds
      BY DEF Kinds
    <3>2. \A u : \A k : /\ StartJob(u, k).pc = "read" /\ StartJob(u, k).user = u
                       /\ StartJob(u, k).kind = k
      BY DEF StartJob, NoJob
    <3> HIDE DEF kind, new
    <3> QED
      BY <2>2, <2>3, <3>1, <3>2
  <2>5. UNCHANGED <<account, raced>>
    BY <1>5 DEF UpdateAbsentStatusBatch, ghosts
  <2> HIDE DEF new
  <2> QED
    BY <1>1, <2>1, <2>2, <2>3, <2>4, <2>5, LedgerFiles
<1>6. ASSUME Crash PROVE Quiet
  BY <1>6 DEF Crash, JobActive, ghosts
<1>7. ASSUME NEW s \in Submits, NEW u \in Users, NEW e \in Events, NEW x \in Responses,
             SubmitRsvp(s, u, e, x)
      PROVE  Quiet
  BY <1>7 DEF SubmitRsvp, ghosts
<1>8. ASSUME NEW w \in Seeds, NEW u \in Users, NEW e \in Events, SeedFindRsvp(w, u, e)
      PROVE  Quiet
  BY <1>8 DEF SeedFindRsvp
<1>9. ASSUME NEW w \in Seeds, MakeUnknownRsvp(w) PROVE Quiet
  BY <1>9 DEF MakeUnknownRsvp, ghosts
<1>10. ASSUME NEW r \in RowIds, NEW a \in Responses, MarkAttended(r, a) PROVE Quiet
  BY <1>10 DEF MarkAttended
<1>11. ASSUME NEW r \in RowIds, DeleteRsvp(r) PROVE Quiet
  BY <1>11 DEF DeleteRsvp, ghosts
<1>12. ASSUME NEW e \in Events, EventStarts(e) PROVE Quiet
  BY <1>12 DEF EventStarts, ghosts
<1>13. ASSUME UNCHANGED vars PROVE Quiet
  BY <1>13 DEF vars
<1>15. ASSUME NEW r \in RowIds, NEW x \in Responses, EditResponse(r, x) PROVE Quiet
  BY <1>15 DEF EditResponse, ghosts
<1>16. ASSUME NEW w \in Seeds, NEW u \in Users, NEW e \in Events, NEW x \in Responses,
              CreateRsvp(w, u, e, x)
       PROVE  Quiet
  BY <1>16 DEF CreateRsvp
<1>14. Quiet \/ Ledger!LedgerNext \/ \E j \in Jobs : JobStep(j)
  BY <1>4, <1>5, <1>6, <1>7, <1>8, <1>9, <1>10, <1>11, <1>12, <1>13, <1>15, <1>16
     DEF Next
<1> HIDE DEF Quiet
<1> QED
  BY <1>2, <1>3, <1>14

LEMMA LedgerStart == Init => Ledger!LedgerInit
<1> SUFFICES ASSUME Init PROVE Ledger!LedgerInit
  OBVIOUS
<1>1. TypeInv
  BY TypeInit
<1>2. \A u \in Users : account[u].rsvpScore \in Nat /\ account[u].absent \in BOOLEAN
  BY <1>1 DEF TypeInv, TypeOK, Account
<1>3. \A j \in Jobs : job[j].pc = "idle"
  BY DEF Init, NoJob
<1>4. ledgerScore \in [Users -> Nat]
  BY <1>2 DEF ledgerScore
<1>5. ledgerAbsent \in [Users -> BOOLEAN]
  BY <1>2 DEF ledgerAbsent
<1>6. ledgerFiled = [j \in Jobs |-> Null] /\ ledgerSettled = {} /\ raced = {}
  BY <1>3 DEF ledgerFiled, ledgerSettled, Init
<1> QED
  BY <1>4, <1>5, <1>6 DEF Ledger!LedgerInit

\* Every behaviour of answers, batches, coordinators and crashes is one of the ledger:
\* ImplementsLedger, a refinement under the mapping of RsvpScore.
THEOREM ScoreImplementsLedger == Spec => ImplementsLedger
<1>1. Init => IdleInv
  BY DEF Init, IdleInv, NoJob, Jobs
<1>2. ScoreInv => TypeInv
  BY DEF ScoreInv
<1>3. Init => Ledger!LedgerInit
  BY LedgerStart
<1>4. ScoreInv /\ IdleInv /\ [Next]_vars => [Ledger!LedgerNext]_(Ledger!lvars)
  BY LedgerStep
<1>5. Spec => []IdleInv
  BY <1>1, <1>2, IdleStep, ScoreInvariant, PTL DEF Spec
<1> QED
  BY <1>3, <1>4, <1>5, ScoreInvariant, PTL DEF Spec, ImplementsLedger, Ledger!LedgerSpec
=============================================================================

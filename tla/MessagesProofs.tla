---------------------------- MODULE MessagesProofs ----------------------------
(***************************************************************************)
(* Proofs about the mail queue, that Messages only uses it as MailQueue    *)
(* says, and who is mailed how often.                                      *)
(*                                                                         *)
(* The argument: a run of a job that has ended is counted as a failure, as *)
(* a stall, or as the one run that was answered.  Every time the server    *)
(* takes a mail, or still may, stands for one run of its own.              *)
(***************************************************************************)
EXTENDS Messages, FiniteSetTheorems, TLAPS

\* The run that the server has taken and whose answer is not lost, if there is one.
Current(m) == IF mail[m].pc = "sent" \/ (mail[m].pc = "active" /\ mail[m].accepted)
              THEN 1 ELSE 0

\* A job that goes on has attempts left; one that ended has ended for a reason.
AttemptsLeft(m) ==
    /\ mail[m].pc # "dropped" => mail[m].failures < Attempts /\ mail[m].stalls <= MaxStalls
    /\ mail[m].pc = "dropped" =>
         mail[m].failures + mail[m].stalls <= Attempts + MaxStalls

MailInv(m) ==
    /\ copies[m] + loose[m] <= mail[m].failures + mail[m].stalls + Current(m)
    /\ copies[m] + loose[m] <= lost[m] + Current(m)
    /\ AttemptsLeft(m)

QueueInv == QueueTypeOK /\ \A m \in Mails : MailInv(m)

\* What the steps make of a job is a job.
LEMMA RetriedIsJob == ASSUME NEW j \in MailJob PROVE Retried(j) \in MailJob
<1> DEFINE p == IF j.failures + 1 < Attempts THEN "delayed" ELSE "dropped"
<1>1. p \in JobPcs /\ j.failures + 1 \in Nat /\ j.stalls \in Nat
  BY DEF MailJob, JobPcs
<1>2. Retried(j) = [j EXCEPT !.failures = j.failures + 1, !.stalls = j.stalls, !.pc = p]
  BY DEF Retried, MailJob
<1> HIDE DEF p
<1>3. [j EXCEPT !.failures = j.failures + 1, !.stalls = j.stalls, !.pc = p] \in MailJob
  BY <1>1 DEF MailJob
<1> QED
  BY <1>2, <1>3

LEMMA StalledIsJob == ASSUME NEW j \in MailJob PROVE Stalled(j) \in MailJob
<1> DEFINE p == IF j.stalls < MaxStalls THEN "waiting" ELSE "dropped"
<1>1. p \in JobPcs /\ j.failures \in Nat /\ j.stalls + 1 \in Nat
  BY DEF MailJob, JobPcs
<1>2. CASE j.pc = "active"
  <2>1. Stalled(j) = [j EXCEPT !.failures = j.failures, !.stalls = j.stalls + 1, !.pc = p]
    BY <1>2 DEF Stalled, MailJob
  <2> HIDE DEF p
  <2>2. [j EXCEPT !.failures = j.failures, !.stalls = j.stalls + 1, !.pc = p] \in MailJob
    BY <1>1 DEF MailJob
  <2> QED
    BY <2>1, <2>2
<1>3. CASE j.pc # "active"
  BY <1>3 DEF Stalled
<1> QED
  BY <1>2, <1>3

LEMMA QueueInitInv == QueueInit => QueueInv
  BY QueueAssumption
  DEF QueueInit, QueueInv, MailInv, QueueTypeOK, MailJob, NoMailJob, JobPcs, Current, AttemptsLeft

LEMMA QueueNextInv == QueueInv /\ [QueueNext]_queueVars => QueueInv'
<1> SUFFICES ASSUME QueueInv, [QueueNext]_queueVars PROVE QueueInv'
  OBVIOUS
<1> USE QueueAssumption DEF QueueTypeOK, MailJob, JobPcs
<1>1. ASSUME NEW m \in Mails, AddToQueue(m) PROVE QueueInv'
  <2>1. QueueTypeOK'
    BY <1>1 DEF QueueInv, AddToQueue
  <2>2. ASSUME NEW n \in Mails PROVE MailInv(n)'
    <3>1. MailInv(n)
      BY DEF QueueInv
    <3>2. CASE n = m
      BY <1>1, <3>1, <3>2 DEF QueueInv, MailInv, Current, AttemptsLeft, AddToQueue
    <3>3. CASE n # m
      BY <1>1, <3>1, <3>3 DEF QueueInv, MailInv, Current, AttemptsLeft, AddToQueue
    <3> QED
      BY <3>2, <3>3
  <2> QED
    BY <2>1, <2>2 DEF QueueInv
<1>2. ASSUME NEW m \in Mails, SendEmail(m) PROVE QueueInv'
  <2>1. QueueTypeOK'
    BY <1>2 DEF QueueInv, SendEmail
  <2>2. ASSUME NEW n \in Mails PROVE MailInv(n)'
    <3>1. MailInv(n)
      BY DEF QueueInv
    <3>2. CASE n = m
      BY <1>2, <3>1, <3>2 DEF QueueInv, MailInv, Current, AttemptsLeft, SendEmail
    <3>3. CASE n # m
      BY <1>2, <3>1, <3>3 DEF QueueInv, MailInv, Current, AttemptsLeft, SendEmail
    <3> QED
      BY <3>2, <3>3
  <2> QED
    BY <2>1, <2>2 DEF QueueInv
<1>3. ASSUME NEW m \in Mails, Accept(m) PROVE QueueInv'
  <2>1. QueueTypeOK'
    <3>1. CASE mail[m].pc = "active" /\ mail' = [mail EXCEPT ![m].accepted = TRUE]
               /\ UNCHANGED loose
      <4>1. mail' \in [Mails -> MailJob]
        BY <3>1 DEF QueueInv
      <4>2. loose' = loose /\ lost' = lost /\ faults' = faults
            /\ copies' = [copies EXCEPT ![m] = copies[m] + 1]
        BY <1>3, <3>1 DEF Accept
      <4> HIDE DEF MailJob
      <4> QED
        BY <4>1, <4>2 DEF QueueInv
    <3>2. CASE loose[m] > 0 /\ loose' = [loose EXCEPT ![m] = @ - 1] /\ UNCHANGED mail
      BY <1>3, <3>2 DEF QueueInv, Accept
    <3> QED
      BY <1>3, <3>1, <3>2 DEF Accept
  <2>2. ASSUME NEW n \in Mails PROVE MailInv(n)'
    <3>1. MailInv(n)
      BY DEF QueueInv
    <3>2. CASE n = m
      BY <1>3, <3>1, <3>2 DEF QueueInv, MailInv, Current, AttemptsLeft, Accept
    <3>3. CASE n # m
      BY <1>3, <3>1, <3>3 DEF QueueInv, MailInv, Current, AttemptsLeft, Accept
    <3> QED
      BY <3>2, <3>3
  <2> QED
    BY <2>1, <2>2 DEF QueueInv
<1>4. ASSUME NEW m \in Mails, Complete(m) PROVE QueueInv'
  <2>1. QueueTypeOK'
    BY <1>4 DEF QueueInv, Complete
  <2>2. ASSUME NEW n \in Mails PROVE MailInv(n)'
    <3>1. MailInv(n)
      BY DEF QueueInv
    <3>2. CASE n = m
      BY <1>4, <3>1, <3>2 DEF QueueInv, MailInv, Current, AttemptsLeft, Complete
    <3>3. CASE n # m
      BY <1>4, <3>1, <3>3 DEF QueueInv, MailInv, Current, AttemptsLeft, Complete
    <3> QED
      BY <3>2, <3>3
  <2> QED
    BY <2>1, <2>2 DEF QueueInv
<1>5. ASSUME NEW m \in Mails, Fail(m) PROVE QueueInv'
  <2>1. QueueTypeOK'
    <3>1. mail[m] \in MailJob /\ faults' \in 0 .. MaxFaults
      BY <1>5 DEF QueueInv, Fail, Fault
    <3>2. Retried(mail[m]) \in MailJob
      BY <3>1, RetriedIsJob
    <3>3. mail' \in [Mails -> MailJob]
      <4>1. mail' = [mail EXCEPT ![m] = Retried(mail[m])]
        BY <1>5 DEF Fail
      <4>2. mail \in [Mails -> MailJob]
        BY DEF QueueInv
      <4> HIDE DEF MailJob
      <4> QED
        BY <4>1, <4>2, <3>2
    <3> QED
      BY <1>5, <3>1, <3>3 DEF QueueInv, Fail
  <2>2. ASSUME NEW n \in Mails PROVE MailInv(n)'
    <3>1. MailInv(n)
      BY DEF QueueInv
    <3>2. CASE n = m
      BY <1>5, <3>1, <3>2 DEF QueueInv, MailInv, Current, AttemptsLeft, Fail, Fault, Retried
    <3>3. CASE n # m
      BY <1>5, <3>1, <3>3 DEF QueueInv, MailInv, Current, AttemptsLeft, Fail, Fault, Retried
    <3> QED
      BY <3>2, <3>3
  <2> QED
    BY <2>1, <2>2 DEF QueueInv
<1>6. ASSUME NEW m \in Mails, Timeout(m) PROVE QueueInv'
  <2>1. QueueTypeOK'
    <3>1. mail[m] \in MailJob /\ faults' \in 0 .. MaxFaults
      BY <1>6 DEF QueueInv, Timeout, Fault
    <3>2. Retried(mail[m]) \in MailJob
      BY <3>1, RetriedIsJob
    <3>3. mail' \in [Mails -> MailJob]
      <4>1. mail' = [mail EXCEPT ![m] = Retried(mail[m])]
        BY <1>6 DEF Timeout
      <4>2. mail \in [Mails -> MailJob]
        BY DEF QueueInv
      <4> HIDE DEF MailJob
      <4> QED
        BY <4>1, <4>2, <3>2
    <3> QED
      BY <1>6, <3>1, <3>3 DEF QueueInv, Timeout
  <2>2. ASSUME NEW n \in Mails PROVE MailInv(n)'
    <3>1. MailInv(n)
      BY DEF QueueInv
    <3>2. CASE n = m
      BY <1>6, <3>1, <3>2 DEF QueueInv, MailInv, Current, AttemptsLeft, Timeout, Fault, Retried
    <3>3. CASE n # m
      BY <1>6, <3>1, <3>3 DEF QueueInv, MailInv, Current, AttemptsLeft, Timeout, Fault, Retried
    <3> QED
      BY <3>2, <3>3
  <2> QED
    BY <2>1, <2>2 DEF QueueInv
<1>7. ASSUME NEW m \in Mails, LooseEnds(m) PROVE QueueInv'
  <2>1. QueueTypeOK'
    BY <1>7 DEF QueueInv, LooseEnds
  <2>2. ASSUME NEW n \in Mails PROVE MailInv(n)'
    <3>1. MailInv(n)
      BY DEF QueueInv
    <3>2. CASE n = m
      BY <1>7, <3>1, <3>2 DEF QueueInv, MailInv, Current, AttemptsLeft, LooseEnds
    <3>3. CASE n # m
      BY <1>7, <3>1, <3>3 DEF QueueInv, MailInv, Current, AttemptsLeft, LooseEnds
    <3> QED
      BY <3>2, <3>3
  <2> QED
    BY <2>1, <2>2 DEF QueueInv
<1>8. ASSUME NEW m \in Mails, Backoff(m) PROVE QueueInv'
  <2>1. QueueTypeOK'
    BY <1>8 DEF QueueInv, Backoff
  <2>2. ASSUME NEW n \in Mails PROVE MailInv(n)'
    <3>1. MailInv(n)
      BY DEF QueueInv
    <3>2. CASE n = m
      BY <1>8, <3>1, <3>2 DEF QueueInv, MailInv, Current, AttemptsLeft, Backoff
    <3>3. CASE n # m
      BY <1>8, <3>1, <3>3 DEF QueueInv, MailInv, Current, AttemptsLeft, Backoff
    <3> QED
      BY <3>2, <3>3
  <2> QED
    BY <2>1, <2>2 DEF QueueInv
<1>9. CASE Unreachable
  BY <1>9 DEF QueueInv, MailInv, Current, AttemptsLeft, Unreachable, Fault
<1>10. CASE QueueCrash
  <2>1. QueueTypeOK'
    <3>1. mail' \in [Mails -> MailJob]
      <4>1. mail' = [n \in Mails |-> Stalled(mail[n])] /\ \A n \in Mails : mail[n] \in MailJob
        BY <1>10 DEF QueueInv, QueueCrash
      <4> HIDE DEF MailJob
      <4> QED
        BY <4>1, StalledIsJob
    <3> QED
      BY <1>10, <3>1 DEF QueueInv, QueueCrash, Fault
  <2>2. ASSUME NEW n \in Mails PROVE MailInv(n)'
    <3>1. MailInv(n) /\ mail[n] \in MailJob
      BY DEF QueueInv
    <3>2. /\ mail'[n] = Stalled(mail[n]) /\ loose'[n] = 0 /\ copies'[n] = copies[n]
          /\ lost'[n] = IF mail[n].pc = "active" /\ mail[n].accepted
                        THEN lost[n] + 1 ELSE lost[n]
      BY <1>10 DEF QueueCrash
    <3>3. CASE mail[n].pc = "active"
      BY <3>1, <3>2, <3>3 DEF QueueInv, MailInv, Current, AttemptsLeft, Stalled
    <3>4. CASE mail[n].pc # "active"
      BY <3>1, <3>2, <3>4 DEF QueueInv, MailInv, Current, AttemptsLeft, Stalled
    <3> QED
      BY <3>3, <3>4
  <2> QED
    BY <2>1, <2>2 DEF QueueInv
<1>11. CASE UNCHANGED queueVars
  BY <1>11 DEF QueueInv, MailInv, Current, AttemptsLeft, queueVars
<1> QED
  BY <1>1, <1>2, <1>3, <1>4, <1>5, <1>6, <1>7, <1>8, <1>9, <1>10, <1>11
  DEF QueueNext, QueueStep

LEMMA QueueInductive == QueueSpec => []QueueInv
  BY QueueInitInv, QueueNextInv, PTL DEF QueueSpec

\* Every reachable state of the queue is well typed.
THEOREM QueueTypeCorrect == QueueSpec => []QueueTypeOK
<1>1. QueueInv => QueueTypeOK
  BY DEF QueueInv
<1> QED
  BY <1>1, QueueInductive, PTL

\* However many runs of a job fail, time out or stall, the mail leaves at most as often
\* as there are attempts and stalls that are forgiven.
THEOREM MailIsBounded == QueueSpec => []CopiesBounded
<1>1. ASSUME QueueInv, NEW m \in Mails PROVE copies[m] <= Attempts + MaxStalls
  <2>1. MailInv(m) /\ mail[m] \in MailJob /\ copies[m] \in Nat /\ loose[m] \in Nat
    BY <1>1 DEF QueueInv, QueueTypeOK
  <2> QED
    BY <2>1, QueueAssumption DEF MailInv, MailJob, Current, AttemptsLeft
<1>2. QueueInv => CopiesBounded
  BY <1>1 DEF CopiesBounded
<1> QED
  BY <1>2, QueueInductive, PTL

\* A mail leaves again only for an answer that was lost.
THEOREM MailIsRepeatedForLostAnswers == QueueSpec => []AgainOnlyIfLost
<1>1. ASSUME QueueInv, NEW m \in Mails PROVE copies[m] <= 1 + lost[m]
  <2>1. /\ MailInv(m) /\ lost[m] \in Nat
        /\ copies[m] \in Nat /\ loose[m] \in Nat
    BY <1>1 DEF QueueInv, QueueTypeOK
  <2> QED
    BY <2>1 DEF MailInv, Current
<1>2. QueueInv => AgainOnlyIfLost
  BY <1>1 DEF AgainOnlyIfLost
<1> QED
  BY <1>2, QueueInductive, PTL

-----------------------------------------------------------------------------
\* Every step of the messages is a step of the queue, or leaves it alone.
LEMMA MessagesStepQueue == [Next]_vars => [QueueNext]_queueVars
<1> SUFFICES ASSUME [Next]_vars PROVE [QueueNext]_queueVars
  OBVIOUS
<1>1. ASSUME NEW r \in Requests, RequestStep(r) PROVE [QueueNext]_queueVars
  BY <1>1 DEF RequestStep, SaveMessage, JoinRelatedUsers, SaveStaffMessage,
              CreateMailQueue, LogQueueError, QueueNext
<1>2. ASSUME NEW m \in Mails, QueueRuns(m) PROVE [QueueNext]_queueVars
  BY <1>2 DEF QueueRuns, QueueNext
<1>3. CASE Crash
  BY <1>3 DEF Crash, QueueNext
<1>4. CASE UNCHANGED vars
  BY <1>4 DEF vars, queueVars
<1> QED
  BY <1>1, <1>2, <1>3, <1>4
  DEF Next, StaffMessageController, EventMessageController, AddMessage, AddStaffMessage,
      DeleteMessage, DeleteUser, MoveMember, DeleteEvent, HandOver, Answer, OtherVars

\* The messages, with crashes and edits, implement the specification of the queue, so
\* that what is proved of the queue holds for every mail they send.
THEOREM MessagesImplementQueue == Spec => QueueSpec
<1>1. Init => QueueInit
  BY DEF Init
<1> QED
  BY <1>1, MessagesStepQueue, PTL DEF Spec, QueueSpec

\* No mail of a message leaves more than three times with the two attempts and the one
\* stall of the code.
THEOREM MessagesAreBounded == Spec => []CopiesBounded
  BY MessagesImplementQueue, MailIsBounded, PTL

-----------------------------------------------------------------------------
(* Who is mailed.  A mail that waits to be queued, or was ever queued, belongs to a   *)
(* message that was stored, and is the second one of its recipient only if two        *)
(* answers of that recipient were read.                                               *)

Pending(m) == mail[m].pc # "none" \/ m \in todo[m[1]]

\* What a request knows before it queues.
Prepared(r) ==
    /\ At(r, "event", "join") => stored[r] # "none"
    /\ At(r, "staff", "sender") => \A u \in Users : recipients[r][u] \in 0 .. 1
    /\ \A m \in todo[r] : m[1] = r

\* What stands behind a mail.
Grounded(m) ==
    Pending(m) => stored[m[1]] # "none" /\ (m[3] # 1 => <<m[1], m[2]>> \in twice)

RequestInv ==
    /\ TypeOK
    /\ \A r \in Requests : Prepared(r)
    /\ \A m \in Mails : Grounded(m)

\* A call in progress, and what is left of it, are requests.
LEMMA EndedIsRequest ==
    ASSUME NEW q \in Request, NEW pc \in Pcs
    PROVE  [NoRequest EXCEPT !.pc = pc, !.kind = q.kind] \in Request
  BY DEF Request, NoRequest

LEMMA GoneOnIsRequest ==
    ASSUME NEW q \in Request, NEW pc \in Pcs
    PROVE  [q EXCEPT !.pc = pc] \in Request
  BY DEF Request

\* Only a member with two answers is twice among the recipients, and then only in the
\* group of those who attend.
LEMMA TwiceMeansTwoAnswers ==
    ASSUME NEW e, NEW g \in Groups \union {Null}, NEW u \in Users,
           2 <= GetRecipients(e, g)[u]
    PROVE  g = "attending" /\ Cardinality(Rsvps(u, e, {"yes"})) >= 2
<1>1. \A S : Once(S)[u] \in {0, 1}
  BY DEF Once
<1>2. CASE g = "attending"
  <2>1. GetRecipients(e, g) = Attending(e)
    BY <1>2, MessagesNull DEF GetRecipients
  <2>2. GetRecipients(e, g)[u] = Cardinality(Rsvps(u, e, {"yes"}))
    BY <2>1 DEF Attending
  <2> QED
    BY <1>2, <2>2
<1>3. CASE g # "attending"
  <2>1. GetRecipients(e, g)[u] \in {0, 1}
    BY <1>1, <1>3 DEF GetRecipients, GetTeamAndSubstituteAttendees, Nobody, Groups
  <2> QED
    BY <2>1
<1> QED
  BY <1>2, <1>3

\* A recipient is counted at most as often as there may be rows of it.
LEMMA AtMostTwoAnswers ==
    ASSUME TypeOK, NEW u \in Users, NEW e
    PROVE  Attending(e)[u] \in 0 .. RowsPerMember
<1> DEFINE row(n) == [n |-> n, user |-> u, event |-> e, response |-> "yes"]
           S == {row(1)} \union {row(2)}
<1>1. ASSUME NEW w \in Rsvps(u, e, {"yes"}) PROVE w \in S
  <2>1. w \in Row /\ w.user = u /\ w.event = e /\ w.response = "yes" /\ w.n \in 1 .. 2
    BY <1>1 DEF Rsvps, TypeOK, Row, RowsPerMember
  <2>2. w = [n |-> w.n, user |-> w.user, event |-> w.event, response |-> w.response]
    BY <2>1 DEF Row
  <2>3. w.n = 1 \/ w.n = 2
    BY <2>1
  <2> QED
    BY <2>1, <2>2, <2>3
<1>2. IsFiniteSet(S) /\ Cardinality(S) <= 2
  <2>1. IsFiniteSet({row(1)}) /\ Cardinality({row(1)}) = 1
    BY FS_Singleton
  <2> HIDE DEF row
  <2> QED
    BY <2>1, FS_AddElement
<1> HIDE DEF S
<1>3. Rsvps(u, e, {"yes"}) \in SUBSET S
  BY <1>1
<1>4. IsFiniteSet(Rsvps(u, e, {"yes"})) /\ Cardinality(Rsvps(u, e, {"yes"})) <= 2
  BY <1>2, <1>3, FS_Subset, FS_CardinalityType
<1>5. Cardinality(Rsvps(u, e, {"yes"})) \in Nat
  BY <1>4, FS_CardinalityType
<1> QED
  BY <1>4, <1>5 DEF Attending, RowsPerMember

LEMMA OnceIsCount == ASSUME NEW S PROVE Once(S) \in Counts
  BY DEF Once, Counts, RowsPerMember

LEMMA RecipientsAreCounts ==
    ASSUME TypeOK, NEW e, NEW g \in Groups \union {Null}
    PROVE  GetRecipients(e, g) \in Counts
<1>1. Attending(e) \in Counts
  <2>1. Attending(e) = [u \in Users |-> Attending(e)[u]]
    BY DEF Attending
  <2> QED
    BY <2>1, AtMostTwoAnswers DEF Counts
<1>2. Nobody \in Counts
  BY DEF Nobody, Counts, RowsPerMember
<1> QED
  BY <1>1, <1>2, OnceIsCount DEF GetRecipients, GetTeamAndSubstituteAttendees, Groups

LEMMA RequestInitInv == Init => RequestInv
<1> SUFFICES ASSUME Init PROVE RequestInv
  OBVIOUS
<1>1. TypeOK
  <2>1. recipients \in [Requests -> Counts]
    BY DEF Init, Nobody, Counts, RowsPerMember
  <2>2. request \in [Requests -> Request]
    BY DEF Init, NoRequest, Request, Pcs
  <2>3. team \in [Users -> Places] /\ duty \in [Events -> Places] /\ rows \subseteq Row
    BY MessagesTeams, MessagesRows DEF Init, Places
  <2>4. edits \in 0 .. MaxEdits
    BY MessagesEdits DEF Init
  <2> QED
    BY <2>1, <2>2, <2>3, <2>4 DEF Init, TypeOK
<1>2. \A r \in Requests : Prepared(r)
  BY DEF Init, Prepared, At, NoRequest
<1>3. ASSUME NEW m \in Mails PROVE ~Pending(m)
  BY <1>3, MessagesMails DEF Init, QueueInit, Pending, NoMailJob
<1> QED
  BY <1>1, <1>2, <1>3 DEF RequestInv, Grounded

\* What queueing, ending and going on leave well typed.
LEMMA QueueTypes ==
    ASSUME TypeOK, NEW r \in Requests, NEW count \in Counts, Queue(r, count)
    PROVE  /\ request' \in [Requests -> Request]
           /\ recipients' \in [Requests -> Counts]
           /\ todo' \in [Requests -> SUBSET Mails]
<1> DEFINE pc == IF count = Nobody THEN "done" ELSE "queue"
           q  == [NoRequest EXCEPT !.pc = pc, !.kind = request[r].kind]
<1>1. pc \in Pcs
  BY DEF Pcs
<1>2. q \in Request
  <2> HIDE DEF pc
  <2> QED
    BY <1>1, EndedIsRequest DEF TypeOK
<1>3. request' = [request EXCEPT ![r] = q]
  BY DEF Queue, End
<1>4. recipients' = [recipients EXCEPT ![r] = count]
      /\ todo' = [todo EXCEPT ![r] = {m \in Mails : m[1] = r /\ m[3] <= count[m[2]]}]
  BY DEF Queue
<1> HIDE DEF q
<1> QED
  BY <1>2, <1>3, <1>4 DEF TypeOK

LEMMA EndTypes ==
    ASSUME TypeOK, NEW r \in Requests, NEW pc \in Pcs, End(r, pc)
    PROVE  request' \in [Requests -> Request]
<1> DEFINE q == [NoRequest EXCEPT !.pc = pc, !.kind = request[r].kind]
<1>1. q \in Request
  BY EndedIsRequest DEF TypeOK
<1>2. request' = [request EXCEPT ![r] = q]
  BY DEF End
<1> HIDE DEF q
<1> QED
  BY <1>1, <1>2 DEF TypeOK

LEMMA GoTypes ==
    ASSUME TypeOK, NEW r \in Requests, NEW pc \in Pcs, Go(r, pc)
    PROVE  request' \in [Requests -> Request]
<1> DEFINE q == [request[r] EXCEPT !.pc = pc]
<1>1. q \in Request
  BY GoneOnIsRequest DEF TypeOK
<1>2. request' = [request EXCEPT ![r] = q]
  BY DEF Go, TypeOK
<1> HIDE DEF q
<1> QED
  BY <1>1, <1>2 DEF TypeOK

LEMMA RequestStepTypes ==
    ASSUME TypeOK, NEW r \in Requests, RequestStep(r)
    PROVE  TypeOK'
<1> USE DEF tables, ghosts
<1>1. CASE SaveMessage(r)
  <2>1. request' \in [Requests -> Request]
    BY <1>1, GoTypes, EndTypes DEF SaveMessage, Pcs
  <2>2. request[r].group \in Groups \union {Null}
    BY DEF TypeOK, Request
  <2>3. stored' \in [Requests -> Groups \union {"none", "staff", "deleted"}]
    BY <1>1, <2>2 DEF SaveMessage, StoredGroup, TypeOK, Groups
  <2> QED
    BY <1>1, <2>1, <2>3 DEF SaveMessage, TypeOK
<1>2. CASE JoinRelatedUsers(r)
  <2> DEFINE e == request[r].event
             g == request[r].group
  <2>1. g \in Groups \union {Null}
    BY DEF TypeOK, Request
  <2>2. GetRecipients(e, g) \in Counts
    BY <2>1, RecipientsAreCounts
  <2>3. /\ UNCHANGED <<team, duty, rows, stored, edits, failed>>
        /\ \/ Queue(r, GetRecipients(e, g)) /\ twice' \subseteq Requests \X Users
           \/ End(r, "failed") /\ UNCHANGED <<recipients, todo, twice>>
    BY <1>2 DEF JoinRelatedUsers, TypeOK
  <2> HIDE DEF e, g
  <2>4. CASE Queue(r, GetRecipients(e, g)) /\ twice' \subseteq Requests \X Users
    BY <2>2, <2>3, <2>4, QueueTypes DEF TypeOK
  <2>5. CASE End(r, "failed") /\ UNCHANGED <<recipients, todo, twice>>
    BY <2>3, <2>5, EndTypes DEF TypeOK, Pcs
  <2> QED
    BY <2>3, <2>4, <2>5
<1>3. CASE SaveStaffMessage(r)
  <2>1. recipients[r] \in Counts
    BY DEF TypeOK
  <2>2. CASE Known(request[r].sender)
    <3>1. Queue(r, recipients[r]) /\ stored' = [stored EXCEPT ![r] = "staff"]
          /\ UNCHANGED <<team, duty, rows, edits, failed, twice>>
      BY <1>3, <2>2 DEF SaveStaffMessage
    <3> QED
      BY <2>1, <3>1, QueueTypes DEF TypeOK
  <2>3. CASE ~Known(request[r].sender)
    BY <1>3, <2>3, EndTypes DEF SaveStaffMessage, TypeOK, Pcs
  <2> QED
    BY <2>2, <2>3
<1>4. ASSUME NEW m \in Mails, CreateMailQueue(r, m) \/ LogQueueError(r, m) PROVE TypeOK'
  <2>1. todo' \in [Requests -> SUBSET Mails]
    BY <1>4 DEF CreateMailQueue, LogQueueError, Step, TypeOK
  <2>2. request' \in [Requests -> Request]
    BY <1>4, EndTypes DEF CreateMailQueue, LogQueueError, Step, TypeOK, Pcs
  <2> QED
    BY <1>4, <2>1, <2>2 DEF CreateMailQueue, LogQueueError, TypeOK
<1> QED
  BY <1>1, <1>2, <1>3, <1>4 DEF RequestStep

LEMMA MessagesTypes == TypeOK /\ [Next]_vars => TypeOK'
<1> SUFFICES ASSUME TypeOK, [Next]_vars PROVE TypeOK'
  OBVIOUS
<1> USE DEF tables, ghosts
<1>1. ASSUME NEW r \in Requests, RequestStep(r) PROVE TypeOK'
  BY <1>1, RequestStepTypes
<1>2. ASSUME NEW m \in Mails, QueueRuns(m) PROVE TypeOK'
  BY <1>2 DEF QueueRuns, TypeOK
<1>3. ASSUME NEW r \in Requests, NEW u \in Users, NEW e \in Events,
             NEW g \in Groups \union {Null}, AddMessage(r, u, e, g)
      PROVE  TypeOK'
  <2> DEFINE q == [pc |-> "save", kind |-> "event", sender |-> u, event |-> e, group |-> g]
  <2>1. q \in Request
    BY DEF Request, Pcs
  <2>2. request' = [request EXCEPT ![r] = q]
    BY <1>3 DEF AddMessage
  <2> HIDE DEF q
  <2> QED
    BY <1>3, <2>1, <2>2 DEF AddMessage, TypeOK
<1>4. ASSUME NEW r \in Requests, NEW u \in Users, AddStaffMessage(r, u) PROVE TypeOK'
  <2> DEFINE q == [NoRequest EXCEPT !.pc = "sender", !.kind = "staff", !.sender = u]
  <2>1. q \in Request
    BY DEF Request, NoRequest, Pcs
  <2>2. request' = [request EXCEPT ![r] = q]
    BY <1>4 DEF AddStaffMessage
  <2>3. recipients' \in [Requests -> Counts]
    BY <1>4, OnceIsCount DEF AddStaffMessage, TypeOK
  <2> HIDE DEF q
  <2> QED
    BY <1>4, <2>1, <2>2, <2>3 DEF AddStaffMessage, TypeOK
<1>5. ASSUME NEW r \in Requests, DeleteMessage(r) PROVE TypeOK'
  BY <1>5, MessagesEdits DEF DeleteMessage, Edit, OtherVars, TypeOK
<1>6. ASSUME NEW u \in Users, DeleteUser(u) PROVE TypeOK'
  BY <1>6, MessagesEdits DEF DeleteUser, Edit, OtherVars, TypeOK, Places
<1>7. ASSUME NEW u \in Users, NEW t \in Teams \union {Null}, MoveMember(u, t) PROVE TypeOK'
  BY <1>7, MessagesEdits DEF MoveMember, Edit, OtherVars, TypeOK, Places
<1>8. ASSUME NEW e \in Events, DeleteEvent(e) PROVE TypeOK'
  BY <1>8, MessagesEdits DEF DeleteEvent, Edit, OtherVars, TypeOK, Places
<1>9. ASSUME NEW e \in Events, NEW t \in Teams \union {Null}, HandOver(e, t) PROVE TypeOK'
  BY <1>9, MessagesEdits DEF HandOver, Edit, OtherVars, TypeOK, Places
<1>10. ASSUME NEW w \in NewRows, Answer(w) PROVE TypeOK'
  BY <1>10, MessagesEdits, MessagesRows DEF Answer, Edit, OtherVars, TypeOK
<1>11. CASE Crash
  <2> DEFINE left(r) == [NoRequest EXCEPT !.pc = "lost", !.kind = request[r].kind]
  <2>1. \A r \in Requests : left(r) \in Request
    BY EndedIsRequest DEF TypeOK, Pcs
  <2>2. request' = [r \in Requests |-> IF Active(r) THEN left(r) ELSE request[r]]
    BY <1>11 DEF Crash
  <2> HIDE DEF left
  <2>3. request' \in [Requests -> Request]
    BY <2>1, <2>2 DEF TypeOK
  <2> QED
    BY <1>11, <2>3 DEF Crash, TypeOK
<1>12. CASE UNCHANGED vars
  BY <1>12 DEF vars, TypeOK
<1> QED
  BY <1>1, <1>2, <1>3, <1>4, <1>5, <1>6, <1>7, <1>8, <1>9, <1>10, <1>11, <1>12
  DEF Next, StaffMessageController, EventMessageController

-----------------------------------------------------------------------------
\* A step of the queue neither adds a job nor takes one away.
LEMMA JobsStay ==
    ASSUME QueueTypeOK, NEW m \in Mails, QueueStep(m) \/ QueueCrash, NEW n \in Mails
    PROVE  mail'[n].pc = "none" <=> mail[n].pc = "none"
<1> USE DEF QueueTypeOK, MailJob
<1>1. ASSUME NEW j \in MailJob PROVE Retried(j).pc \in {"delayed", "dropped"}
  BY DEF Retried
<1>2. mail[n] \in MailJob /\ mail[m] \in MailJob
  BY DEF QueueTypeOK
<1>3. CASE SendEmail(m)
  BY <1>3 DEF SendEmail
<1>4. CASE Accept(m)
  BY <1>4 DEF Accept
<1>5. CASE Complete(m)
  BY <1>5 DEF Complete
<1>6. CASE Fail(m) \/ Timeout(m)
  <2>1. mail' = [mail EXCEPT ![m] = Retried(mail[m])] /\ mail[m].pc = "active"
    BY <1>6 DEF Fail, Timeout
  <2>2. Retried(mail[m]).pc \in {"delayed", "dropped"}
    BY <1>1, <1>2
  <2> QED
    BY <2>1, <2>2
<1>7. CASE LooseEnds(m)
  BY <1>7 DEF LooseEnds
<1>8. CASE Backoff(m)
  BY <1>8 DEF Backoff
<1>9. CASE QueueCrash
  <2>1. mail'[n] = Stalled(mail[n])
    BY <1>9 DEF QueueCrash
  <2>2. Stalled(mail[n]).pc = "none" <=> mail[n].pc = "none"
    BY <1>2 DEF Stalled
  <2> QED
    BY <2>1, <2>2
<1> QED
  BY <1>3, <1>4, <1>5, <1>6, <1>7, <1>8, <1>9 DEF QueueStep

\* Where no mail starts to wait and nothing that stands behind one is taken back,
\* mails stay grounded.
LEMMA StaysGrounded ==
    ASSUME NEW m \in Mails, Grounded(m),
           Pending(m)' => Pending(m),
           stored[m[1]] # "none" => stored'[m[1]] # "none",
           twice \subseteq twice'
    PROVE  Grounded(m)'
  BY DEF Grounded

LEMMA StaysPrepared ==
    ASSUME NEW r \in Requests, Prepared(r),
           request'[r] = request[r] \/ request'[r].pc \notin {"join", "sender"},
           stored[r] # "none" => stored'[r] # "none",
           recipients'[r] = recipients[r] \/ request'[r].pc # "sender",
           \A m \in todo'[r] : m[1] = r
    PROVE  Prepared(r)'
  BY DEF Prepared, At

\* A request that queues its mails, or fails, leaves the other requests alone.
LEMMA OthersUntouched ==
    ASSUME TypeOK, NEW q \in Requests, NEW count,
           Queue(q, count) \/ (End(q, "failed") /\ UNCHANGED <<recipients, todo>>)
    PROVE  /\ \A r \in Requests \ {q} : request'[r] = request[r] /\ recipients'[r] = recipients[r]
                                         /\ todo'[r] = todo[r]
           /\ request'[q].pc \notin {"join", "sender"}
<1> DEFINE pc == IF count = Nobody THEN "done" ELSE "queue"
<1>1. ASSUME NEW k \in {"done", "queue", "failed"}, End(q, k)
      PROVE  /\ \A r \in Requests \ {q} : request'[r] = request[r]
             /\ request'[q].pc \notin {"join", "sender"}
  BY <1>1 DEF End, NoRequest, TypeOK
<1>2. CASE Queue(q, count)
  <2>1. End(q, pc) /\ pc \in {"done", "queue", "failed"}
    BY <1>2 DEF Queue
  <2>2. \A r \in Requests \ {q} : recipients'[r] = recipients[r] /\ todo'[r] = todo[r]
    BY <1>2 DEF Queue, TypeOK
  <2> HIDE DEF pc
  <2> QED
    BY <1>1, <2>1, <2>2
<1>3. CASE End(q, "failed") /\ UNCHANGED <<recipients, todo>>
  BY <1>1, <1>3
<1> QED
  BY <1>2, <1>3

LEMMA RequestStepInv ==
    ASSUME RequestInv, QueueTypeOK, NEW q \in Requests, RequestStep(q)
    PROVE  /\ \A r \in Requests : Prepared(r)'
           /\ \A m \in Mails : Grounded(m)'
<1> USE DEF tables, ghosts
<1>1. TypeOK /\ (\A r \in Requests : Prepared(r)) /\ (\A m \in Mails : Grounded(m))
  BY DEF RequestInv
<1>2. \A m \in Mails : m[1] \in Requests /\ m[2] \in Users /\ m[3] \in 1 .. 2
  BY MessagesMails DEF RowsPerMember
<1>3. /\ DOMAIN stored = Requests /\ DOMAIN request = Requests
      /\ DOMAIN recipients = Requests /\ DOMAIN todo = Requests
      /\ request[q] \in Request
  BY <1>1 DEF TypeOK
<1>4. CASE SaveMessage(q)
  <2>1. request[q].group \in Groups \union {Null}
    BY <1>3 DEF Request
  <2>2. StoredGroup(request[q].group) # "none"
    BY <2>1 DEF StoredGroup, Groups
  <2>3. \A r \in Requests : stored[r] # "none" => stored'[r] # "none"
    BY <1>3, <1>4, <2>2 DEF SaveMessage
  <2>4. UNCHANGED <<recipients, todo, mail, twice>>
    BY <1>4 DEF SaveMessage, queueVars
  <2>5. ASSUME NEW r \in Requests PROVE Prepared(r)'
    <3>1. CASE r # q \/ request'[q].pc # "join"
      <4>1. request'[r] = request[r] \/ request'[r].pc \notin {"join", "sender"}
        BY <1>3, <1>4, <3>1 DEF SaveMessage, Go, End, NoRequest, Request
      <4>2. \A m \in todo'[r] : m[1] = r
        BY <1>1, <2>4 DEF Prepared
      <4> QED
        BY <1>1, <2>3, <2>4, <4>1, <4>2, StaysPrepared
    <3>2. CASE r = q /\ request'[q].pc = "join"
      <4>1. stored'[q] # "none" /\ request'[q].kind = "event"
        BY <1>3, <1>4, <2>2, <3>2 DEF SaveMessage, Go, End, NoRequest, At, Request
      <4>2. \A m \in todo'[r] : m[1] = r
        BY <1>1, <2>4 DEF Prepared
      <4> QED
        BY <3>2, <4>1, <4>2 DEF Prepared, At
    <3> QED
      BY <3>1, <3>2
  <2>6. ASSUME NEW m \in Mails PROVE Grounded(m)'
    BY <1>1, <1>2, <2>3, <2>4, StaysGrounded DEF Pending
  <2> QED
    BY <2>5, <2>6
<1>5. CASE JoinRelatedUsers(q)
  <2> DEFINE e == request[q].event
             g == request[q].group
             count == GetRecipients(e, g)
  <2>1. g \in Groups \union {Null}
    BY <1>3 DEF Request
  <2>2. UNCHANGED <<stored, mail>> /\ twice \subseteq twice' /\ stored[q] # "none"
    BY <1>1, <1>5 DEF JoinRelatedUsers, Prepared, queueVars
  <2>3. /\ \A r \in Requests \ {q} : request'[r] = request[r] /\ recipients'[r] = recipients[r]
                                     /\ todo'[r] = todo[r]
        /\ request'[q].pc \notin {"join", "sender"}
    BY <1>1, <1>5, OthersUntouched DEF JoinRelatedUsers
  <2>4. ASSUME NEW m \in Mails, m \in todo'[m[1]], m \notin todo[m[1]]
        PROVE  m[1] = q /\ (m[3] # 1 => <<q, m[2]>> \in twice')
    <3>1. m[1] = q
      BY <1>2, <2>3, <2>4
    <3>2. /\ todo' = [todo EXCEPT ![q] = {n \in Mails : n[1] = q /\ n[3] <= count[n[2]]}]
          /\ twice' = twice \union {<<q, u>> : u \in {v \in Users :
                                       g = "attending" /\ Cardinality(Rsvps(v, e, {"yes"})) >= 2}}
      BY <1>5, <2>4, <3>1 DEF JoinRelatedUsers, Queue
    <3>3. m[3] <= count[m[2]]
      BY <1>3, <2>4, <3>1, <3>2
    <3>4. ASSUME m[3] # 1 PROVE <<q, m[2]>> \in twice'
      <4>1. m[3] = 2
        BY <1>2, <3>4
      <4> HIDE DEF e, g
      <4>2. g = "attending" /\ Cardinality(Rsvps(m[2], e, {"yes"})) >= 2
        BY <1>2, <2>1, <3>3, <4>1, TwiceMeansTwoAnswers
      <4> QED
        BY <1>2, <3>2, <4>2
    <3> QED
      BY <3>1, <3>4
  <2>5. ASSUME NEW r \in Requests PROVE Prepared(r)'
    <3>1. todo' = todo \/ todo' = [todo EXCEPT ![q] = {m \in Mails : m[1] = q
                                                             /\ m[3] <= count[m[2]]}]
      BY <1>5 DEF JoinRelatedUsers, Queue
    <3>2. \A m \in todo'[r] : m[1] = r
      BY <1>1, <1>3, <3>1 DEF Prepared
    <3> QED
      BY <1>1, <2>2, <2>3, <3>2, StaysPrepared
  <2>6. ASSUME NEW m \in Mails PROVE Grounded(m)'
    <3>1. CASE Pending(m)' => Pending(m)
      BY <1>1, <2>2, <3>1, StaysGrounded
    <3>2. CASE Pending(m)' /\ ~Pending(m)
      <4>1. m \in todo'[m[1]] /\ m \notin todo[m[1]]
        BY <2>2, <3>2 DEF Pending
      <4> QED
        BY <2>2, <2>4, <4>1 DEF Grounded
    <3> QED
      BY <3>1, <3>2
  <2> QED
    BY <2>5, <2>6
<1>6. CASE SaveStaffMessage(q)
  <2>1. UNCHANGED <<mail, twice>>
    BY <1>6 DEF SaveStaffMessage, queueVars
  <2>2. \A u \in Users : recipients[q][u] \in 0 .. 1
    BY <1>1, <1>6 DEF SaveStaffMessage, Prepared
  <2>3. /\ \A r \in Requests \ {q} : request'[r] = request[r] /\ recipients'[r] = recipients[r]
                                     /\ todo'[r] = todo[r]
        /\ request'[q].pc \notin {"join", "sender"}
    BY <1>1, <1>6, OthersUntouched DEF SaveStaffMessage
  <2>4. \A r \in Requests : stored[r] # "none" => stored'[r] # "none"
    BY <1>3, <1>6 DEF SaveStaffMessage
  <2>5. ASSUME NEW m \in Mails, m \in todo'[m[1]], m \notin todo[m[1]]
        PROVE  stored'[m[1]] # "none" /\ m[3] = 1
    <3>1. m[1] = q
      BY <1>2, <2>3, <2>5
    <3>2. Queue(q, recipients[q]) /\ stored' = [stored EXCEPT ![q] = "staff"]
      BY <1>6, <2>5, <3>1 DEF SaveStaffMessage
    <3>3. m[3] <= recipients[q][m[2]]
      BY <1>3, <2>5, <3>1, <3>2 DEF Queue
    <3>4. m[3] \in 1 .. 2 /\ recipients[q][m[2]] \in 0 .. 1
      BY <1>2, <2>2
    <3> QED
      BY <1>3, <3>1, <3>2, <3>3, <3>4
  <2>6. ASSUME NEW r \in Requests PROVE Prepared(r)'
    <3>1. todo' = todo \/ todo' = [todo EXCEPT ![q] = {m \in Mails : m[1] = q
                                                             /\ m[3] <= recipients[q][m[2]]}]
      BY <1>6 DEF SaveStaffMessage, Queue
    <3>2. \A m \in todo'[r] : m[1] = r
      BY <1>1, <1>3, <3>1 DEF Prepared
    <3> QED
      BY <1>1, <2>3, <2>4, <3>2, StaysPrepared
  <2>7. ASSUME NEW m \in Mails PROVE Grounded(m)'
    <3>1. CASE Pending(m)' => Pending(m)
      BY <1>1, <1>2, <2>1, <2>4, <3>1, StaysGrounded
    <3>2. CASE Pending(m)' /\ ~Pending(m)
      <4>1. m \in todo'[m[1]] /\ m \notin todo[m[1]]
        BY <2>1, <3>2 DEF Pending
      <4> QED
        BY <2>5, <4>1 DEF Grounded
    <3> QED
      BY <3>1, <3>2
  <2> QED
    BY <2>6, <2>7
<1>7. ASSUME NEW k \in Mails, CreateMailQueue(q, k) \/ LogQueueError(q, k)
      PROVE  /\ \A r \in Requests : Prepared(r)'
             /\ \A m \in Mails : Grounded(m)'
  <2>1. UNCHANGED <<stored, recipients, twice>>
    BY <1>7 DEF CreateMailQueue, LogQueueError
  <2>2. \A r \in Requests : request'[r] = request[r] \/ request'[r].pc \notin {"join", "sender"}
    BY <1>3, <1>7 DEF CreateMailQueue, LogQueueError, Step, End, NoRequest, Request
  <2>3. k \in todo[q] /\ todo' = [todo EXCEPT ![q] = todo[q] \ {k}]
    BY <1>7 DEF CreateMailQueue, LogQueueError, Step
  <2>4. k[1] = q
    BY <1>1, <2>3 DEF Prepared
  <2>5. ASSUME NEW m \in Mails, Pending(m)' PROVE Pending(m)
    <3>1. CASE m = k
      BY <2>3, <2>4, <3>1 DEF Pending
    <3>2. CASE m # k
      <4>1. mail'[m] = mail[m]
        BY <1>7, <3>2 DEF CreateMailQueue, LogQueueError, AddToQueue, Unreachable, QueueTypeOK
      <4>2. m \in todo'[m[1]] => m \in todo[m[1]]
        BY <1>3, <2>3
      <4> QED
        BY <2>5, <4>1, <4>2 DEF Pending
    <3> QED
      BY <3>1, <3>2
  <2>6. ASSUME NEW r \in Requests PROVE Prepared(r)'
    <3>1. \A m \in todo'[r] : m[1] = r
      BY <1>1, <1>3, <2>3 DEF Prepared
    <3> QED
      BY <1>1, <2>1, <2>2, <3>1, StaysPrepared
  <2>7. ASSUME NEW m \in Mails PROVE Grounded(m)'
    BY <1>1, <2>1, <2>5, StaysGrounded
  <2> QED
    BY <2>6, <2>7
<1> QED
  BY <1>4, <1>5, <1>6, <1>7 DEF RequestStep

LEMMA RequestNextInv == RequestInv /\ QueueTypeOK /\ [Next]_vars => RequestInv'
<1> SUFFICES ASSUME RequestInv, QueueTypeOK, [Next]_vars PROVE RequestInv'
  OBVIOUS
<1> USE DEF tables, ghosts
<1>1. TypeOK /\ (\A r \in Requests : Prepared(r)) /\ (\A m \in Mails : Grounded(m))
  BY DEF RequestInv
<1>2. TypeOK'
  BY <1>1, MessagesTypes
<1>3. /\ DOMAIN stored = Requests /\ DOMAIN request = Requests
      /\ DOMAIN recipients = Requests /\ DOMAIN todo = Requests
  BY <1>1 DEF TypeOK
<1>4. \A m \in Mails : m[1] \in Requests
  BY MessagesMails
<1> DEFINE Result == (\A r \in Requests : Prepared(r)') /\ (\A m \in Mails : Grounded(m)')
<1>5. ASSUME UNCHANGED <<todo, recipients, twice>>,
             \A m \in Mails : mail'[m].pc = "none" <=> mail[m].pc = "none",
             \A r \in Requests : stored[r] # "none" => stored'[r] # "none",
             \A r \in Requests : request'[r] = request[r]
                                 \/ request'[r].pc \notin {"join", "sender"}
      PROVE  Result
  <2>1. \A r \in Requests : \A m \in todo'[r] : m[1] = r
    BY <1>1, <1>5 DEF Prepared
  <2>2. ASSUME NEW r \in Requests PROVE Prepared(r)'
    BY <1>1, <1>5, <2>1, StaysPrepared
  <2>3. ASSUME NEW m \in Mails PROVE Grounded(m)'
    <3>1. Pending(m)' => Pending(m)
      BY <1>5 DEF Pending
    <3> QED
      BY <1>1, <1>4, <1>5, <3>1, StaysGrounded
  <2> QED
    BY <2>2, <2>3
<1>6. ASSUME NEW r \in Requests, RequestStep(r) PROVE Result
  BY <1>6, RequestStepInv
<1>7. ASSUME NEW m \in Mails, QueueRuns(m) PROVE Result
  <2>1. \A n \in Mails : mail'[n].pc = "none" <=> mail[n].pc = "none"
    BY <1>7, JobsStay DEF QueueRuns
  <2> HIDE DEF Result
  <2> QED
    BY <1>5, <1>7, <2>1 DEF QueueRuns
<1>8. ASSUME Crash PROVE Result
  <2>1. ASSUME NEW n \in Mails PROVE mail'[n].pc = "none" <=> mail[n].pc = "none"
    BY <1>8, JobsStay DEF Crash
  <2>2. ASSUME NEW r \in Requests
        PROVE  request'[r] = request[r] \/ request'[r].pc \notin {"join", "sender"}
    BY <1>8, <1>3 DEF Crash, NoRequest, Active
  <2>3. UNCHANGED <<todo, recipients, twice>>
    BY <1>8 DEF Crash
  <2>4. \A r \in Requests : stored[r] # "none" => stored'[r] # "none"
    BY <1>8 DEF Crash
  <2> HIDE DEF Result
  <2> QED
    BY <1>5, <2>1, <2>2, <2>3, <2>4
<1>9. ASSUME NEW r \in Requests, NEW u \in Users, NEW e \in Events,
             NEW g \in Groups \union {Null}, AddMessage(r, u, e, g)
      PROVE  Result
  <2>1. UNCHANGED <<todo, recipients, twice, stored, mail>>
    BY <1>9 DEF AddMessage, queueVars
  <2>2. ASSUME NEW q \in Requests
        PROVE  request'[q] = request[q] \/ request'[q].pc \notin {"join", "sender"}
    BY <1>3, <1>9 DEF AddMessage
  <2> HIDE DEF Result
  <2> QED
    BY <1>5, <2>1, <2>2
<1>10. ASSUME NEW r \in Requests, NEW u \in Users, AddStaffMessage(r, u) PROVE Result
  <2>1. UNCHANGED <<todo, twice, stored, mail>>
    BY <1>10 DEF AddStaffMessage, queueVars
  <2>2. /\ request' = [request EXCEPT ![r] = [NoRequest EXCEPT !.pc = "sender", !.kind = "staff",
                                                               !.sender = u]]
        /\ recipients' = [recipients EXCEPT ![r] = Once(FindByRoles)]
    BY <1>10 DEF AddStaffMessage
  <2>3. ASSUME NEW q \in Requests PROVE Prepared(q)'
    <3>1. \A m \in todo'[q] : m[1] = q
      BY <1>1, <2>1 DEF Prepared
    <3>2. CASE q = r
      <4>1. request'[q].kind = "staff" /\ recipients'[q] = Once(FindByRoles)
        BY <1>3, <2>2, <3>2 DEF NoRequest
      <4>2. \A v \in Users : Once(FindByRoles)[v] \in 0 .. 1
        BY DEF Once
      <4> QED
        BY <3>1, <4>1, <4>2 DEF Prepared, At
    <3>3. CASE q # r
      BY <1>1, <1>3, <2>1, <2>2, <3>1, <3>3, StaysPrepared
    <3> QED
      BY <3>2, <3>3
  <2>4. ASSUME NEW m \in Mails PROVE Grounded(m)'
    BY <1>1, <2>1, StaysGrounded DEF Pending
  <2> QED
    BY <2>3, <2>4
<1>11. ASSUME NEW r \in Requests, DeleteMessage(r) PROVE Result
  <2>1. UNCHANGED <<todo, recipients, twice, request, mail>>
        /\ stored' = [stored EXCEPT ![r] = "deleted"]
    BY <1>11 DEF DeleteMessage, OtherVars, queueVars
  <2> HIDE DEF Result
  <2> QED
    BY <1>3, <1>5, <2>1
<1>12. ASSUME UNCHANGED <<todo, recipients, twice, stored, request, mail>> PROVE Result
  <2> HIDE DEF Result
  <2> QED
    BY <1>5, <1>12
<1>13. Result
  <2> HIDE DEF Result
  <2>1. ASSUME NEW u \in Users, DeleteUser(u) \/ \E t \in Teams \union {Null} : MoveMember(u, t)
        PROVE  Result
    BY <1>12, <2>1 DEF DeleteUser, MoveMember, OtherVars, queueVars
  <2>2. ASSUME NEW e \in Events, DeleteEvent(e) \/ \E t \in Teams \union {Null} : HandOver(e, t)
        PROVE  Result
    BY <1>12, <2>2 DEF DeleteEvent, HandOver, OtherVars, queueVars
  <2>3. ASSUME NEW w \in NewRows, Answer(w) PROVE Result
    BY <1>12, <2>3 DEF Answer, OtherVars, queueVars
  <2>4. ASSUME UNCHANGED vars PROVE Result
    BY <1>12, <2>4 DEF vars, queueVars
  <2>5. ASSUME StaffMessageController \/ EventMessageController PROVE Result
    BY <1>9, <1>10, <1>11, <2>5 DEF StaffMessageController, EventMessageController
  <2> QED
    BY <1>6, <1>7, <1>8, <2>1, <2>2, <2>3, <2>4, <2>5 DEF Next
<1> QED
  BY <1>2, <1>13 DEF RequestInv

\* Both invariants hold of the whole.
LEMMA MessagesInductive == Spec => [](RequestInv /\ QueueInv)
<1>1. QueueInv => QueueTypeOK
  BY DEF QueueInv
<1>2. Init => RequestInv /\ QueueInv
  BY RequestInitInv, QueueInitInv DEF Init
<1>3. (RequestInv /\ QueueInv) /\ [Next]_vars => (RequestInv /\ QueueInv)'
  BY <1>1, RequestNextInv, MessagesStepQueue, QueueNextInv
<1> QED
  BY <1>2, <1>3, PTL DEF Spec

\* Every reachable state is well typed; a member is at most twice among the recipients
\* of a message.
THEOREM MessagesTypeCorrect == Spec => []TypeOK
<1>1. RequestInv => TypeOK
  BY DEF RequestInv
<1> QED
  BY <1>1, MessagesInductive, PTL

\* No mail waits or was ever queued for a message that is not, or was not, stored.
THEOREM OnlyStoredIsMailed == Spec => []NoMailUnlessStored
<1>1. RequestInv => NoMailUnlessStored
  BY DEF RequestInv, Grounded, Pending, NoMailUnlessStored
<1> QED
  BY <1>1, MessagesInductive, PTL

\* A member gets a message once, and once more for each answer of the mail server that
\* was lost; twice only if two of its answers were read.
THEOREM NobodyIsMailedTwice == Spec => []MailedOnce
<1>1. ASSUME RequestInv, QueueInv, NEW r \in Requests, NEW u \in Users
      PROVE  SumOver(copies, r, u) <= (IF <<r, u>> \in twice THEN 2 ELSE 1)
                                      + SumOver(lost, r, u)
  <2> DEFINE m == <<r, u, 1>>
             n == <<r, u, 2>>
  <2>1. m \in Mails /\ n \in Mails
    BY MessagesMails DEF RowsPerMember
  <2>2. \A k \in Mails : copies[k] \in Nat /\ loose[k] \in Nat /\ lost[k] \in Nat /\ MailInv(k)
    BY <1>1 DEF QueueInv, QueueTypeOK
  <2>3. ASSUME NEW k \in Mails PROVE copies[k] <= lost[k] + Current(k)
    <3>1. copies[k] + loose[k] <= lost[k] + Current(k)
      BY <2>2 DEF MailInv
    <3>2. copies[k] \in Nat /\ loose[k] \in Nat /\ lost[k] \in Nat /\ Current(k) \in 0 .. 1
      BY <2>2 DEF Current
    <3> QED
      BY <3>1, <3>2
  <2>4. Current(m) \in 0 .. 1 /\ Current(n) \in 0 .. 1
    BY DEF Current
  <2>5. CASE <<r, u>> \in twice
    <3> HIDE DEF m, n
    <3>1. copies[m] + copies[n] <= 2 + (lost[m] + lost[n])
      BY <2>1, <2>2, <2>3, <2>4
    <3> QED
      BY <2>5, <3>1 DEF SumOver, m, n
  <2>6. CASE <<r, u>> \notin twice
    <3>1. mail[n].pc = "none"
      BY <1>1, <2>1, <2>6 DEF RequestInv, Grounded, Pending
    <3>2. Current(n) = 0
      BY <3>1 DEF Current
    <3> HIDE DEF m, n
    <3>3. copies[m] + copies[n] <= 1 + (lost[m] + lost[n])
      BY <2>1, <2>2, <2>3, <2>4, <3>2
    <3> QED
      BY <2>6, <3>3 DEF SumOver, m, n
  <2> QED
    BY <2>5, <2>6
<1>2. RequestInv /\ QueueInv => MailedOnce
  BY <1>1 DEF MailedOnce
<1> QED
  BY <1>2, MessagesInductive, PTL

-----------------------------------------------------------------------------
(* Nobody is forgotten.  The queue ends a job for a reason; a request      *)
(* either still has a mail to queue, or has queued it, or was told no.     *)

EndOK(m) ==
    /\ mail[m].pc = "sent" \/ (mail[m].pc = "active" /\ mail[m].accepted) => copies[m] > 0
    /\ mail[m].pc = "dropped" => mail[m].failures = Attempts \/ mail[m].stalls > MaxStalls
EndInv == \A m \in Mails : EndOK(m)

Meant(m) == stored[m[1]] # "none" /\ m[3] <= recipients[m[1]][m[2]]
ToQueue(m) == m \in todo[m[1]] /\ request[m[1]].pc \in {"queue", "lost"}
Handled(m) == ToQueue(m) \/ mail[m].pc # "none" \/ m \in failed

\* A request has recipients or a stored message, never both before it queues.
EarlyOK(r) ==
    /\ request[r].pc \in {"idle", "save", "sender"} => stored[r] = "none"
    /\ request[r].pc \in {"idle", "save", "join"} => recipients[r] = Nobody
UnderwayInv == (\A r \in Requests : EarlyOK(r)) /\ (\A m \in Mails : Meant(m) => Handled(m))

LEMMA EndStep == QueueInv /\ EndInv /\ [QueueNext]_queueVars => EndInv'
<1> SUFFICES ASSUME QueueInv, EndInv, [QueueNext]_queueVars, NEW n \in Mails PROVE EndOK(n)'
  BY DEF EndInv
<1>1. /\ EndOK(n) /\ AttemptsLeft(n) /\ QueueTypeOK
      /\ mail \in [Mails -> MailJob] /\ copies \in [Mails -> Nat] /\ mail[n] \in MailJob
      /\ mail[n].failures \in Nat /\ mail[n].stalls \in Nat /\ copies[n] \in Nat
  BY DEF EndInv, QueueInv, MailInv, QueueTypeOK, MailJob
<1>2. ASSUME NEW m \in Mails, AddToQueue(m) PROVE EndOK(n)'
  BY <1>1, <1>2 DEF EndOK, AddToQueue, MailJob
<1>3. ASSUME NEW m \in Mails, SendEmail(m) PROVE EndOK(n)'
  BY <1>1, <1>3 DEF EndOK, SendEmail, MailJob
<1>4. ASSUME NEW m \in Mails, Accept(m) PROVE EndOK(n)'
  <2>1. copies'[n] >= copies[n] /\ (n = m => copies'[n] > 0)
    BY <1>1, <1>4 DEF Accept
  <2>2. /\ mail'[n].pc = mail[n].pc /\ mail'[n].failures = mail[n].failures
        /\ mail'[n].stalls = mail[n].stalls /\ copies'[n] \in Nat
        /\ n # m => mail'[n] = mail[n]
    BY <1>1, <1>4 DEF Accept, MailJob
  <2> QED  BY <1>1, <2>1, <2>2 DEF EndOK
<1>5. ASSUME NEW m \in Mails, Complete(m) PROVE EndOK(n)'
  BY <1>1, <1>5 DEF EndOK, Complete, MailJob
<1>6. ASSUME NEW m \in Mails, Fail(m) \/ Timeout(m) PROVE EndOK(n)'
  <2>1. mail' = [mail EXCEPT ![m] = Retried(mail[m])] /\ mail[m].pc = "active" /\ copies' = copies
    BY <1>6 DEF Fail, Timeout
  <2>2. CASE n # m
    BY <1>1, <2>1, <2>2 DEF EndOK
  <2>3. CASE n = m
    <3>1. mail[n].failures < Attempts
      BY <1>1, <2>1, <2>3 DEF AttemptsLeft
    <3>2. /\ mail'[n].failures = mail[n].failures + 1
          /\ mail'[n].pc = IF mail[n].failures + 1 < Attempts THEN "delayed" ELSE "dropped"
      BY <1>1, <2>1, <2>3 DEF Retried, MailJob
    <3> QED  BY <1>1, <3>1, <3>2, QueueAssumption DEF EndOK
  <2> QED  BY <2>2, <2>3
<1>7. ASSUME NEW m \in Mails, LooseEnds(m) PROVE EndOK(n)'
  BY <1>1, <1>7 DEF EndOK, LooseEnds
<1>8. ASSUME NEW m \in Mails, Backoff(m) PROVE EndOK(n)'
  BY <1>1, <1>8 DEF EndOK, Backoff, MailJob
<1>9. CASE QueueCrash
  <2>1. mail'[n] = Stalled(mail[n]) /\ copies' = copies
    BY <1>9 DEF QueueCrash
  <2>2. CASE mail[n].pc # "active"
    BY <1>1, <2>1, <2>2 DEF EndOK, Stalled
  <2>3. CASE mail[n].pc = "active"
    <3>1. /\ mail'[n].stalls = mail[n].stalls + 1
          /\ mail'[n].pc = IF mail[n].stalls < MaxStalls THEN "waiting" ELSE "dropped"
      BY <1>1, <2>1, <2>3 DEF Stalled, MailJob
    <3> QED  BY <1>1, <3>1, QueueAssumption DEF EndOK
  <2> QED  BY <2>2, <2>3
<1>10. CASE Unreachable \/ UNCHANGED queueVars
  BY <1>1, <1>10 DEF EndOK, Unreachable, queueVars
<1> QED
  BY <1>2, <1>3, <1>4, <1>5, <1>6, <1>7, <1>8, <1>9, <1>10 DEF QueueNext, QueueStep

\* Queueing: every mail that is meant is to be queued.
LEMMA QueuesAll ==
    ASSUME TypeOK, NEW r \in Requests, NEW count \in Counts, Queue(r, count),
           NEW m \in Mails, m[1] = r, m[3] <= recipients'[r][m[2]]
    PROVE  m \in todo'[r] /\ request'[r].pc = "queue"
<1>1. recipients'[r] = count /\ todo'[r] = {k \in Mails : k[1] = r /\ k[3] <= count[k[2]]}
  BY DEF Queue, TypeOK
<1>2. m[2] \in Users /\ m[3] \in 1 .. 2
  BY MessagesMails DEF RowsPerMember
<1>3. count # Nobody
  BY <1>1, <1>2 DEF Nobody
<1>4. request'[r].pc = "queue"
  BY <1>3 DEF Queue, End, NoRequest, TypeOK
<1> QED  BY <1>1, <1>4

\* A request that queues its mails, or fails before it has any.
LEMMA QueueingStays ==
    ASSUME RequestInv, UnderwayInv, NEW q \in Requests, NEW count \in Counts,
           \/ Queue(q, count)
           \/ End(q, "failed") /\ UNCHANGED <<recipients, todo>> /\ stored' = stored
              /\ (stored[q] = "none" \/ recipients[q] = Nobody),
           UNCHANGED <<mail, failed>>,
           \A r \in Requests \ {q} : stored'[r] = stored[r]
    PROVE  UnderwayInv'
<1>1. TypeOK /\ (\A r \in Requests : EarlyOK(r)) /\ \A m \in Mails : Meant(m) => Handled(m)
  BY DEF RequestInv, UnderwayInv
<1>2. \A m \in Mails : m[1] \in Requests /\ m[2] \in Users /\ m[3] \in 1 .. 2
  BY MessagesMails DEF RowsPerMember
<1>3. \A r \in Requests \ {q} : request'[r] = request[r] /\ recipients'[r] = recipients[r]
                                /\ todo'[r] = todo[r] /\ stored'[r] = stored[r]
  BY <1>1, OthersUntouched
<1>4. request'[q].pc \in {"done", "queue", "failed"}
  <2>1. \A k : End(q, k) => request'[q].pc = k
    BY <1>1 DEF End, NoRequest, TypeOK
  <2> QED  BY <2>1 DEF Queue
<1>5. ASSUME NEW r \in Requests PROVE EarlyOK(r)'
  BY <1>1, <1>3, <1>4 DEF EarlyOK
<1>6. ASSUME NEW m \in Mails, Meant(m)' PROVE Handled(m)'
  <2>1. CASE m[1] # q
    <3>1. Meant(m)
      BY <1>2, <1>3, <1>6, <2>1 DEF Meant
    <3>2. Handled(m)
      BY <1>1, <3>1
    <3> QED  BY <1>2, <1>3, <2>1, <3>2 DEF Handled, ToQueue
  <2>2. CASE m[1] = q /\ Queue(q, count)
    <3>1. m \in todo'[q] /\ request'[q].pc = "queue"
      BY <1>1, <1>6, <2>2, QueuesAll DEF Meant
    <3> QED  BY <2>2, <3>1 DEF Handled, ToQueue
  <2>3. CASE m[1] = q /\ ~Queue(q, count)
    <3>1. stored'[q] = "none" \/ recipients'[q] = Nobody
      BY <2>3
    <3>2. m[3] <= recipients'[q][m[2]] /\ stored'[q] # "none"
      BY <1>6, <2>3 DEF Meant
    <3> QED  BY <1>2, <3>1, <3>2 DEF Nobody
  <2> QED  BY <2>1, <2>2, <2>3
<1> QED  BY <1>5, <1>6 DEF UnderwayInv

\* Steps that neither store nor choose recipients.
LEMMA OthersStay ==
    ASSUME TypeOK, UnderwayInv, UNCHANGED <<recipients, todo, failed>>,
           \A r \in Requests : stored'[r] = "none" <=> stored[r] = "none",
           \A r \in Requests : \/ request'[r] = request[r] \/ request'[r].pc = "lost"
                               \/ request[r].pc = "idle" /\ request'[r].pc = "save",
           \A m \in Mails : mail[m].pc # "none" => mail'[m].pc # "none"
    PROVE  UnderwayInv'
<1>1. (\A r \in Requests : EarlyOK(r)) /\ \A m \in Mails : Meant(m) => Handled(m)
  BY DEF UnderwayInv
<1>2. ASSUME NEW r \in Requests PROVE EarlyOK(r)'
  BY <1>1 DEF EarlyOK
<1>3. ASSUME NEW m \in Mails, Meant(m)' PROVE Handled(m)'
  <2>1. m[1] \in Requests
    BY MessagesMails
  <2>2. Meant(m)
    BY <1>3, <2>1 DEF Meant
  <2>3. Handled(m)
    BY <1>1, <2>2
  <2>4. ToQueue(m) => ToQueue(m)'
    BY <2>1 DEF ToQueue
  <2> QED  BY <2>3, <2>4 DEF Handled
<1> QED  BY <1>2, <1>3 DEF UnderwayInv

LEMMA UnderwayRequest ==
    ASSUME RequestInv, QueueTypeOK, UnderwayInv, NEW q \in Requests, RequestStep(q)
    PROVE  UnderwayInv'
<1> USE DEF tables, ghosts
<1>1. TypeOK /\ (\A r \in Requests : EarlyOK(r) /\ Prepared(r)) /\ (\A m \in Mails : Meant(m) => Handled(m))
  BY DEF RequestInv, UnderwayInv
<1>2. \A m \in Mails : m[1] \in Requests /\ m[2] \in Users /\ m[3] \in 1 .. 2
  BY MessagesMails DEF RowsPerMember
<1>3. /\ DOMAIN stored = Requests /\ DOMAIN request = Requests
      /\ DOMAIN recipients = Requests /\ DOMAIN todo = Requests
      /\ request[q] \in Request /\ request[q].group \in Groups \union {Null}
  BY <1>1 DEF TypeOK, Request
<1>4. CASE SaveMessage(q)
  <2>1. /\ UNCHANGED <<recipients, todo, mail, failed>> /\ request[q].pc = "save"
        /\ \A r \in Requests \ {q} : request'[r] = request[r] /\ stored'[r] = stored[r]
        /\ request'[q].pc \in {"join", "failed"}
        /\ request'[q].pc = "failed" => stored' = stored
    BY <1>3, <1>4 DEF SaveMessage, Go, End, NoRequest, At, queueVars, Request
  <2>2. recipients[q] = Nobody
    BY <1>1, <2>1 DEF EarlyOK
  <2>3. ASSUME NEW r \in Requests PROVE EarlyOK(r)'
    BY <1>1, <2>1, <2>2 DEF EarlyOK
  <2>4. ASSUME NEW m \in Mails, Meant(m)' PROVE Handled(m)'
    <3>1. m[1] # q
      BY <1>2, <2>1, <2>2, <2>4 DEF Meant, Nobody
    <3>2. Meant(m)
      BY <1>2, <2>1, <2>4, <3>1 DEF Meant
    <3> QED  BY <1>1, <1>2, <2>1, <3>1, <3>2 DEF Handled, ToQueue
  <2> QED  BY <2>3, <2>4 DEF UnderwayInv
<1>5. CASE JoinRelatedUsers(q)
  <2> DEFINE count == GetRecipients(request[q].event, request[q].group)
  <2>1. count \in Counts
    BY <1>1, <1>3, RecipientsAreCounts
  <2>2. UNCHANGED <<stored, failed, mail>> /\ recipients[q] = Nobody
    BY <1>1, <1>5 DEF JoinRelatedUsers, EarlyOK, At, queueVars
  <2>3. Queue(q, count) \/ (End(q, "failed") /\ UNCHANGED <<recipients, todo>>)
    BY <1>5 DEF JoinRelatedUsers
  <2> HIDE DEF count
  <2> QED  BY <2>1, <2>2, <2>3, QueueingStays
<1>6. CASE SaveStaffMessage(q)
  <2>1. recipients[q] \in Counts
    BY <1>1 DEF TypeOK
  <2>2. UNCHANGED <<failed, mail>> /\ stored[q] = "none"
    BY <1>1, <1>6 DEF SaveStaffMessage, EarlyOK, At, queueVars
  <2>3. \/ Queue(q, recipients[q])
        \/ End(q, "failed") /\ UNCHANGED <<recipients, todo>> /\ stored' = stored
    BY <1>6 DEF SaveStaffMessage
  <2>4. \A r \in Requests \ {q} : stored'[r] = stored[r]
    BY <1>3, <1>6 DEF SaveStaffMessage
  <2> QED  BY <2>1, <2>2, <2>3, <2>4, QueueingStays
<1>7. ASSUME NEW k \in Mails, CreateMailQueue(q, k) \/ LogQueueError(q, k)
      PROVE  UnderwayInv'
  <2>1. /\ UNCHANGED <<stored, recipients>> /\ request[q].pc = "queue" /\ failed \subseteq failed'
        /\ k \in todo[q] /\ todo' = [todo EXCEPT ![q] = todo[q] \ {k}]
        /\ IF todo[q] = {k} THEN End(q, "done") ELSE UNCHANGED request
    BY <1>7 DEF CreateMailQueue, LogQueueError, Step
  <2>2. k[1] = q
    BY <1>1, <2>1 DEF Prepared
  <2>3. \A r \in Requests : request'[r] = request[r] \/ request'[r].pc = "done"
    BY <1>3, <2>1 DEF End, NoRequest
  <2>4. \A m \in Mails \ {k} : mail'[m] = mail[m]
    BY <1>7 DEF CreateMailQueue, LogQueueError, AddToQueue, Unreachable, QueueTypeOK
  <2>5. mail'[k].pc # "none" \/ k \in failed'
    BY <1>7 DEF CreateMailQueue, LogQueueError, AddToQueue, QueueTypeOK, MailJob
  <2>6. ASSUME NEW r \in Requests PROVE EarlyOK(r)'
    BY <1>1, <2>1, <2>3 DEF EarlyOK
  <2>7. ASSUME NEW m \in Mails, m # k, Meant(m)' PROVE Handled(m)'
    <3>1. Handled(m)
      BY <1>1, <2>1, <2>7 DEF Meant
    <3>2. ASSUME ToQueue(m) PROVE ToQueue(m)'
      <4>1. CASE m[1] = q
        <5>1. todo[q] # {k} /\ m \in todo'[q]
          BY <1>3, <2>1, <2>7, <3>2, <4>1 DEF ToQueue
        <5> QED  BY <2>1, <3>2, <4>1, <5>1 DEF ToQueue
      <4>2. CASE m[1] # q
        <5>1. request'[m[1]] = request[m[1]] /\ todo'[m[1]] = todo[m[1]]
          BY <1>2, <1>3, <2>1, <4>2 DEF End
        <5> QED  BY <3>2, <5>1 DEF ToQueue
      <4> QED  BY <4>1, <4>2
    <3> QED  BY <2>1, <2>4, <2>7, <3>1, <3>2 DEF Handled
  <2>8. Handled(k)'
    BY <2>5 DEF Handled
  <2> QED  BY <2>6, <2>7, <2>8 DEF UnderwayInv
<1> QED  BY <1>4, <1>5, <1>6, <1>7 DEF RequestStep

LEMMA UnderwayNext == RequestInv /\ QueueTypeOK /\ UnderwayInv /\ [Next]_vars => UnderwayInv'
<1> SUFFICES ASSUME RequestInv, QueueTypeOK, UnderwayInv, [Next]_vars PROVE UnderwayInv'
  OBVIOUS
<1> USE DEF tables, ghosts
<1>1. TypeOK /\ DOMAIN request = Requests /\ DOMAIN stored = Requests /\ DOMAIN recipients = Requests
  BY DEF RequestInv, TypeOK
<1>2. ASSUME NEW r \in Requests, RequestStep(r) PROVE UnderwayInv'
  BY <1>2, UnderwayRequest
<1>3. ASSUME NEW m \in Mails, QueueRuns(m) PROVE UnderwayInv'
  <2>1. \A n \in Mails : mail'[n].pc = "none" <=> mail[n].pc = "none"
    BY <1>3, JobsStay DEF QueueRuns
  <2> QED  BY <1>1, <1>3, <2>1, OthersStay DEF QueueRuns
<1>4. CASE Crash
  <2>1. ASSUME NEW n \in Mails PROVE mail'[n].pc = "none" <=> mail[n].pc = "none"
    BY <1>4, JobsStay DEF Crash
  <2>2. \A r \in Requests : request'[r] = request[r] \/ request'[r].pc = "lost"
    BY <1>4 DEF Crash, NoRequest
  <2> QED  BY <1>1, <1>4, <2>1, <2>2, OthersStay DEF Crash
<1>5. ASSUME NEW r \in Requests, NEW u \in Users, NEW e \in Events,
             NEW g \in Groups \union {Null}, AddMessage(r, u, e, g)
      PROVE  UnderwayInv'
  <2>1. UNCHANGED <<todo, recipients, failed, stored, mail>> /\ request[r].pc = "idle"
    BY <1>5 DEF AddMessage, queueVars
  <2>2. \A q \in Requests : request'[q] = request[q] \/ (q = r /\ request'[q].pc = "save")
    BY <1>1, <1>5 DEF AddMessage
  <2> QED  BY <1>1, <2>1, <2>2, OthersStay
<1>6. ASSUME NEW r \in Requests, NEW u \in Users, AddStaffMessage(r, u) PROVE UnderwayInv'
  <2>1. UNCHANGED <<todo, failed, stored, mail>> /\ request[r].pc = "idle"
    BY <1>6 DEF AddStaffMessage, queueVars
  <2>2. /\ request'[r].pc = "sender"
        /\ \A q \in Requests \ {r} : request'[q] = request[q] /\ recipients'[q] = recipients[q]
    BY <1>1, <1>6 DEF AddStaffMessage, NoRequest
  <2>3. stored[r] = "none"
    BY <2>1 DEF UnderwayInv, EarlyOK
  <2>4. ASSUME NEW q \in Requests PROVE EarlyOK(q)'
    BY <2>1, <2>2, <2>3 DEF UnderwayInv, EarlyOK
  <2>5. ASSUME NEW m \in Mails, Meant(m)' PROVE Handled(m)'
    <3>1. m[1] \in Requests /\ m[1] # r
      BY <2>1, <2>3, <2>5, MessagesMails DEF Meant
    <3>2. Meant(m)
      BY <2>1, <2>2, <2>5, <3>1 DEF Meant
    <3> QED  BY <2>1, <2>2, <3>1, <3>2 DEF UnderwayInv, Handled, ToQueue
  <2> QED  BY <2>4, <2>5 DEF UnderwayInv
<1>7. ASSUME NEW r \in Requests, DeleteMessage(r) PROVE UnderwayInv'
  <2>1. /\ UNCHANGED <<todo, recipients, failed, request, mail>>
        /\ stored[r] # "none" /\ stored' = [stored EXCEPT ![r] = "deleted"]
    BY <1>7 DEF DeleteMessage, OtherVars, queueVars
  <2> QED  BY <1>1, <2>1, OthersStay
<1>8. ASSUME UNCHANGED <<todo, recipients, failed, stored, request, mail>> PROVE UnderwayInv'
  BY <1>1, <1>8, OthersStay
<1>9. ASSUME \/ \E u \in Users : DeleteUser(u) \/ \E t \in Teams \union {Null} : MoveMember(u, t)
             \/ \E e \in Events : DeleteEvent(e) \/ \E t \in Teams \union {Null} : HandOver(e, t)
             \/ \E w \in NewRows : Answer(w)
             \/ UNCHANGED vars
      PROVE  UNCHANGED <<todo, recipients, failed, stored, request, mail>>
  BY <1>9 DEF DeleteUser, MoveMember, DeleteEvent, HandOver, Answer, OtherVars, queueVars, vars
<1> QED
  BY <1>2, <1>3, <1>4, <1>5, <1>6, <1>7, <1>8, <1>9
     DEF Next, StaffMessageController, EventMessageController

\* No recipient of a stored message is forgotten: each of its mails is with the request,
\* in the queue, out, refused by the queue, or given up after all its attempts
\* (sendEmails and createMailQueue of event-message.service.ts and staff-message.service.ts).
THEOREM NobodyIsForgotten == Spec => []MailIsUnderway
<1>1. Init => EndInv /\ UnderwayInv
  <2> SUFFICES ASSUME Init PROVE EndInv /\ UnderwayInv
    OBVIOUS
  <2>1. EndInv
    BY DEF Init, QueueInit, NoMailJob, EndInv, EndOK
  <2>2. \A r \in Requests : EarlyOK(r)
    BY DEF Init, NoRequest, EarlyOK
  <2>3. \A m \in Mails : ~Meant(m)
    BY MessagesMails DEF Init, Meant
  <2> QED  BY <2>1, <2>2, <2>3 DEF UnderwayInv
<1>2. (RequestInv /\ QueueInv) /\ (EndInv /\ UnderwayInv) /\ [Next]_vars => (EndInv /\ UnderwayInv)'
  BY MessagesStepQueue, EndStep, UnderwayNext DEF QueueInv
<1>3. RequestInv /\ QueueInv /\ EndInv /\ UnderwayInv => MailIsUnderway
  <2> SUFFICES ASSUME QueueInv, EndInv, UnderwayInv, NEW m \in Mails, Meant(m), ~ToQueue(m), m \notin failed
               PROVE  \/ mail[m].pc \in {"waiting", "active", "delayed"}
                      \/ copies[m] > 0
                      \/ mail[m].failures = Attempts \/ mail[m].stalls > MaxStalls
    BY DEF MailIsUnderway, Meant, ToQueue
  <2>1. mail[m].pc # "none"
    BY DEF UnderwayInv, Handled
  <2>2. mail[m].pc \in JobPcs /\ EndOK(m)
    BY DEF QueueInv, QueueTypeOK, MailJob, EndInv
  <2> QED  BY <2>1, <2>2 DEF JobPcs, EndOK
<1> QED
  BY <1>1, <1>2, <1>3, MessagesInductive, PTL DEF Spec
=============================================================================

------------------------------- MODULE Messages -------------------------------
(***************************************************************************)
(* Messages about a market day (event-message.service.ts) and of the staff *)
(* (staff-message.service.ts), with the mail queue they fill.              *)
(*                                                                         *)
(* A message about a market day is stored, read back with everybody who    *)
(* has to do with the day, and then mailed; a message of the staff has its *)
(* recipients read first.  Between the calls coordinators and members go   *)
(* on: teams are handed over, members move or leave, answers come in,      *)
(* market days and messages are deleted.                                   *)
(*                                                                         *)
(* Recipients are counted: table rsvp has no unique key, so that a member  *)
(* may be in a list of answers twice.  Messages are named after the        *)
(* request that stores them, mails after message, recipient and number.    *)
(***************************************************************************)
EXTENDS MailQueue, FiniteSets

CONSTANTS
    Users, Teams, Events,
    Requests,       \* messages the run may send (bound)
    Kinds,          \* which of "event" and "staff" the run exercises
    Staff,          \* users with one of the roles a message of the staff is for
    Senders,        \* users whose access token has one of staffRoles
    StartTeams,     \* teams of the users at the start (bound)
    StartRows,      \* answers at the start (bound)
    NewRows,        \* answers that may come in (bound)
    MaxEdits,       \* edits by others (bound)
    Null

RowsPerMember == 2  \* rows one member may have for one market day (bound)

ASSUME MessagesKinds == Kinds \subseteq {"event", "staff"} /\ Staff \union Senders \subseteq Users
ASSUME MessagesMails == Mails = Requests \X Users \X (1 .. RowsPerMember)
ASSUME MessagesNull  == Null \notin Users \union Teams \union Events \union {"gone"}
ASSUME MessagesGone  == "gone" \notin Teams
ASSUME MessagesTeams == StartTeams \subseteq [Users -> Teams \union {Null}]
Groups == {"nobody", "entire", "attending", "notResponded"}
Responses == {"unknown", "yes", "no"}

\* A user who is deleted, a market day that is, have "gone" for a team.
Places == Teams \union {Null, "gone"}
Row == [n : 1 .. RowsPerMember, user : Users, event : Events, response : Responses]
ASSUME MessagesEdits == MaxEdits \in Nat
ASSUME MessagesRows == StartRows \subseteq SUBSET Row /\ NewRows \subseteq Row

Pcs == {"idle", "save", "join", "sender", "queue", "done", "failed", "lost"}
Request == [pc : Pcs, kind : {"event", "staff", Null}, sender : Users \union {Null},
            event : Events \union {Null}, group : Groups \union {Null}]
NoRequest == [pc |-> "idle", kind |-> Null, sender |-> Null, event |-> Null, group |-> Null]

\* How often each user is among the recipients.
Counts == [Users -> 0 .. RowsPerMember]
Nobody == [u \in Users |-> 0]
Once(S) == [u \in Users |-> IF u \in S THEN 1 ELSE 0]

VARIABLES
    team,       \* user.teamId
    duty,       \* event.teamId
    rows,       \* table rsvp
    stored,     \* tables event_message and staff_message: the message's group
    request,
    recipients, \* of a request, once they are known
    todo,       \* mails of a request that are not in the queue yet
    edits,
    failed,     \* history: mails the queue did not take
    twice       \* history: (request, user) with two answers when they were read

vars == <<team, duty, rows, stored, request, recipients, todo, edits, failed, twice, queueVars>>
tables == <<team, duty, rows>>
ghosts == <<failed, twice>>

Init ==
    /\ team \in StartTeams
    /\ duty \in [Events -> Teams]
    /\ rows \in StartRows
    /\ stored = [r \in Requests |-> "none"]
    /\ request = [r \in Requests |-> NoRequest]
    /\ recipients = [r \in Requests |-> Nobody]
    /\ todo = [r \in Requests |-> {}]
    /\ edits = 0
    /\ failed = {}
    /\ twice = {}
    /\ QueueInit

-----------------------------------------------------------------------------
Known(u) == team[u] # "gone"
Exists(e) == duty[e] # "gone"
At(r, kind, pc) == request[r].kind = kind /\ request[r].pc = pc

\* A request goes on, or has no further use for what it was called with.
Go(r, pc) == request' = [request EXCEPT ![r].pc = pc]
End(r, pc) == request' = [request EXCEPT ![r] = [NoRequest EXCEPT !.pc = pc, !.kind = request[r].kind]]
Active(r) == request[r].pc \in {"save", "join", "sender", "queue"}

\* All adds of a request are under way at once; without any it is done.
Queue(r, count) ==
    /\ recipients' = [recipients EXCEPT ![r] = count]
    /\ todo' = [todo EXCEPT ![r] = {m \in Mails : m[1] = r /\ m[3] <= count[m[2]]}]
    /\ End(r, IF count = Nobody THEN "done" ELSE "queue")

-----------------------------------------------------------------------------
(* Messages about a market day.                                            *)

\* The request; the first thing it does is to save.
AddMessage(r, u, e, g) ==
    /\ "event" \in Kinds
    /\ request[r].pc = "idle"
    /\ Known(u)
    /\ request' = [request EXCEPT ![r] =
                     [pc |-> "save", kind |-> "event", sender |-> u, event |-> e, group |-> g]]
    /\ UNCHANGED <<tables, stored, recipients, todo, edits, ghosts, queueVars>>

\* The column has a default.
StoredGroup(g) == IF g = Null THEN "nobody" ELSE g

\* The foreign keys refuse a market day or a sender that is gone.
SaveMessage(r) ==
    /\ At(r, "event", "save")
    /\ IF Exists(request[r].event) /\ Known(request[r].sender)
       THEN /\ stored' = [stored EXCEPT ![r] = StoredGroup(request[r].group)]
            /\ Go(r, "join")
       ELSE End(r, "failed") /\ UNCHANGED stored
    /\ UNCHANGED <<tables, recipients, todo, edits, ghosts, queueVars>>

TeamMembers(e) == {u \in Users : team[u] = duty[e]}
Rsvps(u, e, answers) ==
    {w \in rows : w.event = e /\ w.user = u /\ w.response \in answers}
Attending(e) == [u \in Users |-> Cardinality(Rsvps(u, e, {"yes"}))]

\* Mutant: nobody is left out.
GetTeamAndSubstituteAttendeesTwice(e) ==
    [u \in Users |-> Once(TeamMembers(e))[u] + Attending(e)[u]]

\* getTeamAndSubstituteAttendees: the first of each.
GetTeamAndSubstituteAttendees(e) ==
    Once({u \in Users : u \in TeamMembers(e) \/ Attending(e)[u] > 0})

\* getRecipients.  A request without a group is for the entire team.
GetRecipients(e, g) ==
    CASE g \in {"entire", Null} -> GetTeamAndSubstituteAttendees(e)
      [] g = "attending"        -> Attending(e)
      [] g = "notResponded"     -> Once({u \in TeamMembers(e) : Rsvps(u, e, Responses) = {}})
      [] g = "nobody"           -> Nobody

\* joinRelatedUsers and sendEmails.  A message or a market day that was deleted, a day
\* without a team, a sender that is gone: the request fails, the message stays.
JoinRelatedUsers(r) ==
    /\ At(r, "event", "join")
    /\ LET e     == request[r].event
           count == GetRecipients(e, request[r].group)
       IN IF /\ stored[r] # "deleted" /\ Exists(e) /\ duty[e] # Null
             /\ Known(request[r].sender) \/ count = Nobody
          THEN /\ Queue(r, count)
               /\ twice' = twice \union {<<r, u>> : u \in {v \in Users :
                                            /\ request[r].group = "attending"
                                            /\ Cardinality(Rsvps(v, e, {"yes"})) >= 2}}
          ELSE End(r, "failed") /\ UNCHANGED <<recipients, todo, twice>>
    /\ UNCHANGED <<tables, stored, edits, failed, queueVars>>

-----------------------------------------------------------------------------
(* Messages of the staff.                                                  *)

FindByRoles == {v \in Staff : Known(v)}

\* The roles are those of the token.
StaffRole(u) == u \in Senders

\* findByRoles is the first call.
AddStaffMessage(r, u) ==
    /\ "staff" \in Kinds
    /\ request[r].pc = "idle"
    /\ Known(u)
    /\ request' = [request EXCEPT ![r] = [NoRequest EXCEPT !.pc = "sender", !.kind = "staff",
                                                           !.sender = u]]
    /\ recipients' = [recipients EXCEPT ![r] = Once(FindByRoles)]
    /\ UNCHANGED <<tables, stored, todo, edits, ghosts, queueVars>>

\* findById(sender) and the save.  A sender who is gone by then: the key refuses.
SaveStaffMessage(r) ==
    /\ At(r, "staff", "sender")
    /\ IF Known(request[r].sender)
       THEN /\ stored' = [stored EXCEPT ![r] = "staff"]
            /\ Queue(r, recipients[r])
       ELSE End(r, "failed") /\ UNCHANGED <<stored, recipients, todo>>
    /\ UNCHANGED <<tables, edits, ghosts, queueVars>>

-----------------------------------------------------------------------------
\* One mail of createMailQueue.  A queue that cannot be reached is logged, and the
\* other mails go on.
Step(r, m) ==
    /\ request[r].pc = "queue"
    /\ m \in todo[r]
    /\ todo' = [todo EXCEPT ![r] = @ \ {m}]
    /\ IF todo[r] = {m} THEN End(r, "done") ELSE UNCHANGED request

CreateMailQueue(r, m) ==
    /\ Step(r, m)
    /\ AddToQueue(m)
    /\ UNCHANGED <<tables, stored, recipients, edits, ghosts>>

\* Mutant: the first mail that is not taken ends it for the others.
LogQueueErrorStops(r, m) ==
    /\ request[r].pc = "queue"
    /\ m \in todo[r]
    /\ Unreachable
    /\ todo' = [todo EXCEPT ![r] = {}]
    /\ End(r, "done")
    /\ failed' = failed \union {m}
    /\ UNCHANGED <<tables, stored, recipients, edits, twice>>

LogQueueError(r, m) ==
    /\ Step(r, m)
    /\ Unreachable
    /\ failed' = failed \union {m}
    /\ UNCHANGED <<tables, stored, recipients, edits, twice>>

-----------------------------------------------------------------------------
(* What others do meanwhile; the process.                                  *)

\* Edits are left out when no request will read what they change (bound).
Edit ==
    /\ edits < MaxEdits
    /\ \E r \in Requests : request[r].pc \in {"save", "join", "sender"}
    /\ edits' = edits + 1
OtherVars == <<request, recipients, todo, ghosts, queueVars>>

MoveMember(u, t) ==
    /\ Edit /\ Known(u) /\ team[u] # t
    /\ team' = [team EXCEPT ![u] = t]
    /\ UNCHANGED <<duty, rows, stored, OtherVars>>

\* The rows of a deleted user are deleted with it.
DeleteUser(u) ==
    /\ Edit /\ Known(u)
    /\ team' = [team EXCEPT ![u] = "gone"]
    /\ rows' = {w \in rows : w.user # u}
    /\ UNCHANGED <<duty, stored, OtherVars>>

HandOver(e, t) ==
    /\ Edit /\ Exists(e) /\ duty[e] # t
    /\ duty' = [duty EXCEPT ![e] = t]
    /\ UNCHANGED <<team, rows, stored, OtherVars>>

DeleteEvent(e) ==
    /\ Edit /\ Exists(e)
    /\ duty' = [duty EXCEPT ![e] = "gone"]
    /\ rows' = {w \in rows : w.event # e}
    /\ UNCHANGED <<team, stored, OtherVars>>

DeleteMessage(r) ==
    /\ Edit /\ stored[r] \notin {"none", "deleted"}
    /\ stored' = [stored EXCEPT ![r] = "deleted"]
    /\ UNCHANGED <<tables, OtherVars>>

\* An answer, a changed answer, or the row the weekly job inserts.
Answer(w) ==
    /\ Edit /\ Known(w.user) /\ Exists(w.event) /\ w \notin rows
    /\ rows' = {v \in rows : v.n # w.n \/ v.user # w.user \/ v.event # w.event} \union {w}
    /\ UNCHANGED <<team, duty, stored, OtherVars>>

Crash ==
    /\ QueueCrash
    /\ \E r \in Requests : Active(r) \/ \E m \in Mails : mail[m].pc = "active" \/ loose[m] > 0
    /\ request' = [r \in Requests |-> IF Active(r) THEN [NoRequest EXCEPT !.pc = "lost", !.kind = request[r].kind]
                                      ELSE request[r]]
    /\ UNCHANGED <<tables, stored, recipients, todo, edits, ghosts>>

-----------------------------------------------------------------------------
RequestStep(r) ==
    \/ SaveMessage(r) \/ JoinRelatedUsers(r) \/ SaveStaffMessage(r)
    \/ \E m \in Mails : CreateMailQueue(r, m) \/ LogQueueError(r, m)

QueueRuns(m) ==
    QueueStep(m) /\ UNCHANGED <<tables, stored, request, recipients, todo, edits, ghosts>>

\* The routes.
StaffMessageController == \E r \in Requests, u \in Users : StaffRole(u) /\ AddStaffMessage(r, u)

EventMessageController ==
    \/ \E r \in Requests, u \in Users, e \in Events, g \in Groups \union {Null} : AddMessage(r, u, e, g)
    \/ \E r \in Requests : DeleteMessage(r)

Next ==
    \/ StaffMessageController \/ EventMessageController
    \/ \E r \in Requests : RequestStep(r)
    \/ \E m \in Mails : QueueRuns(m)
    \/ \E u \in Users : DeleteUser(u) \/ \E t \in Teams \union {Null} : MoveMember(u, t)
    \/ \E e \in Events : DeleteEvent(e) \/ \E t \in Teams \union {Null} : HandOver(e, t)
    \/ \E w \in NewRows : Answer(w)
    \/ Crash

Spec == Init /\ [][Next]_vars

\* The calls of a request return, and the queue goes on with what it has.
FairSpec ==
    /\ Spec
    /\ \A r \in Requests : WF_vars(RequestStep(r))
    /\ \A m \in Mails : WF_vars(QueueRuns(m) /\ mail'[m] # mail[m])

-----------------------------------------------------------------------------
(* Properties.                                                             *)

TypeOK ==
    /\ team \in [Users -> Places] /\ duty \in [Events -> Places] /\ rows \subseteq Row
    /\ stored \in [Requests -> Groups \union {"none", "staff", "deleted"}]
    /\ request \in [Requests -> Request]
    /\ recipients \in [Requests -> Counts]
    /\ todo \in [Requests -> SUBSET Mails]
    /\ edits \in 0 .. MaxEdits
    /\ failed \subseteq Mails
    /\ twice \subseteq Requests \X Users

Copies(r, u) == {<<r, u, k>> : k \in 1 .. RowsPerMember}
SumOver(f, r, u) == f[<<r, u, 1>>] + f[<<r, u, 2>>]

\* A member gets a message once, from whatever team and however many lists of answers
\* its recipients are drawn, save for answers the mail server owes, and for a member
\* whose answer is in the table twice and who is among those who attend.
MailedOnce ==
    \A r \in Requests, u \in Users :
        SumOver(copies, r, u) <= (IF <<r, u>> \in twice THEN 2 ELSE 1) + SumOver(lost, r, u)

\* Nobody gets a message that is not among the stored ones, whoever is deleted while
\* it is sent; only a market lead removes it afterwards.
NoMailUnlessStored ==
    \A m \in Mails : mail[m].pc # "none" => stored[m[1]] # "none"

\* Nobody is forgotten: every mail of a stored message is still with its request (or was
\* when that died), or in the queue, or has gone out, or the queue did not take it, or it
\* was given up after both attempts failed or it stalled twice.
MailIsUnderway ==
    \A m \in Mails :
        stored[m[1]] # "none" /\ m[3] <= recipients[m[1]][m[2]] =>
           \/ m \in todo[m[1]] /\ request[m[1]].pc \in {"queue", "lost"}
           \/ mail[m].pc \in {"waiting", "active", "delayed"}
           \/ copies[m] > 0
           \/ m \in failed
           \/ mail[m].failures = Attempts \/ mail[m].stalls > MaxStalls

\* A recipient of a message gets it, unless the queue did not take the mail, the
\* process died before it was queued, or both attempts failed or it stalled twice.
MessageArrives ==
    \A r \in Requests, u \in Users :
        recipients[r][u] > 0 /\ request[r].pc = "queue"
          ~> \E m \in Copies(r, u) :
               \/ copies[m] > 0 \/ m \in failed
               \/ mail[m].pc = "none" /\ request[r].pc = "lost"
               \/ mail[m].failures = Attempts \/ mail[m].stalls > MaxStalls
=============================================================================

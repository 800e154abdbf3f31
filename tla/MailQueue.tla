------------------------------ MODULE MailQueue ------------------------------
(***************************************************************************)
(* The mail queue (mail.service.ts, mail.processor.ts): a job per mail,    *)
(* taken one at a time, run at most twice, each run cut off after twenty   *)
(* seconds.  Cutting a run off does not stop its sendMail, which may still *)
(* get through afterwards.  The jobs themselves are kept outside of the    *)
(* process and survive it; the one in hand then counts as stalled and is   *)
(* taken up again once.                                                    *)
(*                                                                         *)
(* The pace of one mail in two seconds is left out: it only delays.        *)
(***************************************************************************)
EXTENDS Naturals

CONSTANTS
    Mails,
    Attempts,       \* 2 in the code
    MaxStalls,      \* 1, what the queue library has when nothing is configured
    MaxFaults       \* errors, timeouts and restarts of the run (bound)

ASSUME QueueAssumption ==
    Attempts \in Nat \ {0} /\ MaxStalls \in Nat /\ MaxFaults \in Nat

JobPcs == {"none", "waiting", "active", "delayed", "sent", "dropped"}
MailJob == [pc : JobPcs, failures : Nat, stalls : Nat, accepted : BOOLEAN]
NoMailJob == [pc |-> "none", failures |-> 0, stalls |-> 0, accepted |-> FALSE]

VARIABLES
    mail,       \* the jobs; accepted: the server took the mail in this run
    loose,      \* sendMail calls that go on after their run was cut off
    copies,     \* times the server took the mail
    lost,       \* history: runs that ended without the answer that mattered
    faults      \* faults so far

queueVars == <<mail, loose, copies, lost, faults>>

QueueInit ==
    /\ mail = [m \in Mails |-> NoMailJob]
    /\ loose = [m \in Mails |-> 0]
    /\ copies = [m \in Mails |-> 0]
    /\ lost = [m \in Mails |-> 0]
    /\ faults = 0

Fault == faults < MaxFaults /\ faults' = faults + 1

-----------------------------------------------------------------------------
\* addToQueue.
AddToQueue(m) ==
    /\ mail[m].pc = "none"
    /\ mail' = [mail EXCEPT ![m].pc = "waiting"]
    /\ UNCHANGED <<loose, copies, lost, faults>>

\* Or the queue cannot be reached.
Unreachable == Fault /\ UNCHANGED <<mail, loose, copies, lost>>

\* sendEmail is called for one job at a time.
SendEmail(m) ==
    /\ mail[m].pc = "waiting"
    /\ \A n \in Mails : mail[n].pc # "active"
    /\ mail' = [mail EXCEPT ![m].pc = "active", ![m].accepted = FALSE]
    /\ UNCHANGED <<loose, copies, lost, faults>>

\* The server takes the mail; its answer is still to come.
Accept(m) ==
    /\ \/ /\ mail[m].pc = "active" /\ ~mail[m].accepted
          /\ mail' = [mail EXCEPT ![m].accepted = TRUE]
          /\ UNCHANGED loose
       \/ /\ loose[m] > 0
          /\ loose' = [loose EXCEPT ![m] = @ - 1]
          /\ UNCHANGED mail
    /\ copies' = [copies EXCEPT ![m] = @ + 1]
    /\ UNCHANGED <<lost, faults>>

\* removeOnComplete.
Complete(m) ==
    /\ mail[m].pc = "active" /\ mail[m].accepted
    /\ mail' = [mail EXCEPT ![m].pc = "sent"]
    /\ UNCHANGED <<loose, copies, lost, faults>>

\* Mutant: attempts are not counted.
RetriedUncounted(j) == [j EXCEPT !.pc = "delayed"]

\* Mutant: no second attempt.
RetriedNever(j) == [j EXCEPT !.failures = @ + 1, !.pc = "dropped"]

\* A run failed: again after the backoff, or removeOnFail.
Retried(j) ==
    [j EXCEPT !.failures = @ + 1,
              !.pc = IF j.failures + 1 < Attempts THEN "delayed" ELSE "dropped"]

\* An error: the server refused, or the connection broke, before or after the server
\* took the mail.
Fail(m) ==
    /\ mail[m].pc = "active"
    /\ Fault
    /\ mail' = [mail EXCEPT ![m] = Retried(@)]
    /\ lost' = IF mail[m].accepted THEN [lost EXCEPT ![m] = @ + 1] ELSE lost
    /\ UNCHANGED <<loose, copies>>

\* timeout: 20000.
Timeout(m) ==
    /\ mail[m].pc = "active"
    /\ Fault
    /\ mail' = [mail EXCEPT ![m] = Retried(@)]
    /\ lost' = [lost EXCEPT ![m] = @ + 1]
    /\ loose' = IF mail[m].accepted THEN loose ELSE [loose EXCEPT ![m] = @ + 1]
    /\ UNCHANGED copies

\* A call that was cut off ends in an error that nobody sees.
LooseEnds(m) ==
    /\ loose[m] > 0
    /\ loose' = [loose EXCEPT ![m] = @ - 1]
    /\ UNCHANGED <<mail, copies, lost, faults>>

\* backoff: 1000.
Backoff(m) ==
    /\ mail[m].pc = "delayed"
    /\ mail' = [mail EXCEPT ![m].pc = "waiting"]
    /\ UNCHANGED <<loose, copies, lost, faults>>

Stalled(j) ==
    IF j.pc # "active" THEN j
    ELSE [j EXCEPT !.stalls = @ + 1,
                   !.pc = IF j.stalls < MaxStalls THEN "waiting" ELSE "dropped"]

\* The process dies and is started again.  Its connections are gone; the job it had
\* in hand has stalled.
QueueCrash ==
    /\ Fault
    /\ mail' = [m \in Mails |-> Stalled(mail[m])]
    /\ lost' = [m \in Mails |-> IF mail[m].pc = "active" /\ mail[m].accepted
                                THEN lost[m] + 1 ELSE lost[m]]
    /\ loose' = [m \in Mails |-> 0]
    /\ UNCHANGED copies

QueueStep(m) ==
    \/ SendEmail(m) \/ Accept(m) \/ Complete(m)
    \/ Fail(m) \/ Timeout(m) \/ LooseEnds(m) \/ Backoff(m)

QueueNext ==
    \/ \E m \in Mails : AddToQueue(m) \/ QueueStep(m)
    \/ Unreachable
    \/ QueueCrash

QueueSpec == QueueInit /\ [][QueueNext]_queueVars

-----------------------------------------------------------------------------
\* Types of the jobs and of the counters.
QueueTypeOK ==
    /\ mail \in [Mails -> MailJob]
    /\ loose \in [Mails -> Nat]
    /\ copies \in [Mails -> Nat]
    /\ lost \in [Mails -> Nat]
    /\ faults \in 0 .. MaxFaults

\* A mail goes out at most three times, whatever times out, breaks or restarts.
CopiesBounded == \A m \in Mails : copies[m] <= Attempts + MaxStalls

\* A mail goes out again only when the answer to an earlier time was lost: a server
\* that said no has not sent it.
AgainOnlyIfLost == \A m \in Mails : copies[m] <= 1 + lost[m]
=============================================================================

---------------------------- MODULE ScoreLedger ----------------------------
(***************************************************************************)
(* What the score of rsvp.service.ts promises, without any database call   *)
(* in sight: every entry (an answer, or one member of an absence batch)    *)
(* is filed with its effect fixed and then settled at most once, in one    *)
(* step.  After an answer a member is absent exactly when the score is     *)
(* below three; forgiving clears the absence and leaves the score alone.   *)
(*                                                                         *)
(* The promise is made to members whose account one job at a time works    *)
(* on.  A member may be given up at any moment; from then on the ledger    *)
(* still takes the entries and says nothing of the score.                  *)
(***************************************************************************)
EXTENDS Integers

CONSTANTS Users, Entries, Unfiled

VARIABLES
    score,      \* per member
    absent,     \* per member
    filed,      \* per entry: the member and the effect, or Unfiled
    settled,    \* entries that took effect
    spoiled     \* members given up

lvars == <<score, absent, filed, settled, spoiled>>

Effects == {"yes", "no", "none", "forgive"}
AbsentBelow == 3

LedgerInit ==
    /\ score \in [Users -> Nat]
    /\ absent \in [Users -> BOOLEAN]
    /\ filed = [q \in Entries |-> Unfiled]
    /\ settled = {}
    /\ spoiled = {}

\* Several entries at once: a batch names several members.
File ==
    /\ \E new \in SUBSET {q \in Entries : filed[q] = Unfiled} :
         /\ new # {}
         /\ \A q \in Entries :
              IF q \in new THEN filed'[q] \in Users \X Effects ELSE filed'[q] = filed[q]
    /\ DOMAIN filed' = Entries
    /\ UNCHANGED <<score, absent, settled, spoiled>>

Settle(q) ==
    /\ filed[q] # Unfiled
    /\ q \notin settled
    /\ settled' = settled \union {q}
    /\ LET u == filed[q][1]
           effect == filed[q][2]
           down == IF score[u] > 0 THEN score[u] - 1 ELSE 0
           n == IF effect = "yes" THEN score[u] + 1
                ELSE IF effect = "no" THEN down ELSE score[u]
       IN IF u \in spoiled THEN UNCHANGED <<score, absent>>
          ELSE /\ score' = [score EXCEPT ![u] = n]
               /\ absent' = [absent EXCEPT ![u] = effect # "forgive" /\ n < AbsentBelow]
    /\ UNCHANGED <<filed, spoiled>>

GiveUp(u) ==
    /\ u \notin spoiled
    /\ spoiled' = spoiled \union {u}
    /\ score' = [score EXCEPT ![u] = 0]
    /\ absent' = [absent EXCEPT ![u] = FALSE]
    /\ UNCHANGED <<filed, settled>>

LedgerNext == File \/ (\E q \in Entries : Settle(q)) \/ (\E u \in Users : GiveUp(u))

LedgerSpec == LedgerInit /\ [][LedgerNext]_lvars
=============================================================================

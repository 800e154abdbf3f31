------------------------------- MODULE FeeBook -------------------------------
(***************************************************************************)
(* What the entry fee of mollie.service.ts promises, without requests,     *)
(* copies of accounts or calls that overlap: a book with, for every        *)
(* member, the payment on file and whether the fee is paid.                *)
(*                                                                         *)
(* A payment is put on file once at most, by the request that created it,  *)
(* so that one that was replaced never comes back.  The paid flag changes  *)
(* only by the report of a payment of the member that came to its end, and *)
(* then says whether that payment is paid.                                 *)
(*                                                                         *)
(* The promise is made to members whose account one request at a time      *)
(* works on.  A member may be given up at any moment; from then on the     *)
(* book says nothing of that account.                                      *)
(***************************************************************************)
CONSTANTS Users, Payments, Nothing

VARIABLES
    status,     \* of each payment, at Mollie
    owner,      \* the member each payment is made out to
    carried,    \* payments created and not yet put on file
    onFile,     \* per member
    paid,       \* per member
    spoiled     \* members given up

bvars == <<status, owner, carried, onFile, paid, spoiled>>

Ends == {"paid", "failed", "canceled", "expired"}

BookInit ==
    /\ status \in [Payments -> {"none", "open"}]
    /\ owner \in [Payments -> Users \union {Nothing}]
    /\ \A p \in Payments : status[p] = "none" <=> owner[p] = Nothing
    /\ carried = {}
    /\ onFile \in [Users -> Payments \union {Nothing}]
    /\ \A u \in Users : onFile[u] # Nothing => owner[onFile[u]] = u
    /\ paid = [u \in Users |-> FALSE]
    /\ spoiled = {}

Create(p, u) ==
    /\ status[p] = "none"
    /\ status' = [status EXCEPT ![p] = "open"]
    /\ owner' = [owner EXCEPT ![p] = u]
    /\ carried' = carried \union {p}
    /\ UNCHANGED <<onFile, paid, spoiled>>

Progress(p, s) ==
    /\ \/ status[p] = "open" /\ s = "pending"
       \/ status[p] \in {"open", "pending"} /\ s \in Ends
    /\ status' = [status EXCEPT ![p] = s]
    /\ UNCHANGED <<owner, carried, onFile, paid, spoiled>>

Note(p) ==
    /\ p \in carried
    /\ owner[p] \notin spoiled
    /\ carried' = carried \ {p}
    /\ onFile' = [onFile EXCEPT ![owner[p]] = p]
    /\ UNCHANGED <<status, owner, paid, spoiled>>

\* What is never put on file: requests that died, or whose member was given up.
Drop(ps) ==
    /\ ps \subseteq carried
    /\ carried' = carried \ ps
    /\ UNCHANGED <<status, owner, onFile, paid, spoiled>>

\* A payment may be reported more than once, and late.
Report(p) ==
    /\ status[p] \in Ends
    /\ owner[p] \notin spoiled
    /\ paid' = [paid EXCEPT ![owner[p]] = status[p] = "paid"]
    /\ UNCHANGED <<status, owner, carried, onFile, spoiled>>

GiveUp(u) ==
    /\ u \notin spoiled
    /\ spoiled' = spoiled \union {u}
    /\ onFile' = [onFile EXCEPT ![u] = Nothing]
    /\ paid' = [paid EXCEPT ![u] = FALSE]
    /\ UNCHANGED <<status, owner, carried>>

BookNext ==
    \/ \E p \in Payments, u \in Users : Create(p, u)
    \/ \E p \in Payments, s \in Ends \union {"pending"} : Progress(p, s)
    \/ \E p \in Payments : Note(p) \/ Report(p)
    \/ \E ps \in SUBSET Payments : Drop(ps)
    \/ \E u \in Users : GiveUp(u)

BookSpec == BookInit /\ [][BookNext]_bvars
=============================================================================

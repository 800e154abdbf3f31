------------------------------ MODULE EntryFee ------------------------------
(***************************************************************************)
(* The entry fee (mollie.service.ts): payments are created at Mollie, the  *)
(* id of the latest is kept on the account, and Mollie reports the end of  *)
(* a payment by a webhook that carries nothing but its id.                 *)
(*                                                                         *)
(* Every handler keeps a copy of the account between the call that read it *)
(* and the save, which selects, compares and updates in two calls and is   *)
(* awaited by nobody.  Handlers of other modules that read and save whole  *)
(* accounts (profile, score, team, password) take part as kind "other".    *)
(***************************************************************************)
EXTENDS Naturals, FiniteSets

CONSTANTS
    Users,
    Payments,       \* payments that may ever exist (bound)
    Handlers,       \* requests the run may make, numbered as they arrive (bound)
    Kinds,          \* which of the handlers below the run exercises
    MaxInFlight,    \* requests that may overlap (bound)
    OnFile,         \* payments that exist at the start, one for each account at most
    CrashAllowed,
    Null

AllKinds == {"start", "retry", "hook", "other"}

ASSUME KindsAssumption == Kinds \subseteq AllKinds
ASSUME HandlersAssumption == Handlers \subseteq Nat
ASSUME NullAssumption  == Null \notin Users \union Payments \union AllKinds
ASSUME OnFileAssumption == OnFile \subseteq Payments

Open   == {"open", "pending"}
Closed == {"paid", "failed", "canceled", "expired"}
Statuses == {"none"} \union Open \union Closed

Columns == {"paymentId", "hasPaidEntryFee"}
Account == [paymentId : Payments \union {Null}, hasPaidEntryFee : BOOLEAN]
Payment == [status : Statuses, user : Users \union {Null}]
Pcs     == {"idle", "get", "read", "create", "load", "write", "done", "lost"}
Handler == [kind : AllKinds \union {Null}, pc : Pcs, user : Users \union {Null},
            payment : Payments \union {Null}, paid : BOOLEAN, copy : Account,
            cols : SUBSET Columns]

VARIABLES
    payment,    \* at Mollie: status and metadata.userId of each payment
    due,        \* at Mollie: payments whose webhook is to be called (again)
    account,    \* the two payment columns of table user
    handler,    \* requests in progress
    mailed,     \* confirmations queued: (member, payment)
    raced       \* history: members whose account two handlers held at once

vars == <<payment, due, account, handler, mailed, raced>>

NoAccount == [paymentId |-> Null, hasPaidEntryFee |-> FALSE]
NoHandler == [kind |-> Null, pc |-> "idle", user |-> Null, payment |-> Null,
              paid |-> FALSE, copy |-> NoAccount, cols |-> {}]

Init ==
    /\ account \in [Users -> [paymentId : OnFile \union {Null}, hasPaidEntryFee : {FALSE}]]
    /\ payment \in [Payments -> [status : {"none", "open"}, user : Users \union {Null}]]
    /\ \A p \in Payments :
         IF \E u \in Users : account[u].paymentId = p
         THEN payment[p].status = "open" /\ payment[p].user # Null
                /\ account[payment[p].user].paymentId = p
         ELSE payment[p] = [status |-> "none", user |-> Null]
    /\ \A u, v \in Users : u # v /\ account[u].paymentId = account[v].paymentId
                             => account[u].paymentId = Null
    /\ due = {}
    /\ handler = [h \in Handlers |-> NoHandler]
    /\ mailed = {}
    /\ raced = {}

-----------------------------------------------------------------------------
Active(h) == handler[h].pc \notin {"idle", "done", "lost"}
InFlight  == {h \in Handlers : Active(h)}

Begin(h, kind, pc, u, p) ==
    /\ kind \in Kinds
    /\ handler[h].pc = "idle"
    /\ \A k \in Handlers : k < h => handler[k].pc # "idle"
    /\ Cardinality(InFlight) < MaxInFlight
    /\ handler' = [handler EXCEPT ![h] =
                     [NoHandler EXCEPT !.kind = kind, !.pc = pc, !.user = u, !.payment = p]]

At(h, kind, pc) == handler[h].kind = kind /\ handler[h].pc = pc

\* What is left of a request that ended (or died).
End(h, how) == [NoHandler EXCEPT !.kind = handler[h].kind, !.pc = how,
                                 !.user = handler[h].user, !.payment = handler[h].payment]

\* Another handler has read this account and may still save what it read.
Held(h, u) == \E k \in Handlers \ {h} :
                 handler[k].user = u
                   /\ \/ handler[k].pc \in {"load", "write"}
                      \/ handler[k].kind = "retry" /\ handler[k].pc \in {"get", "create"}

Reads(h, u) == raced' = IF Held(h, u) THEN raced \union {u} ELSE raced

\* createPayment: a new open payment with the user's id as metadata.
NewPayment(p, u) ==
    /\ payment[p].status = "none"
    /\ payment' = [payment EXCEPT ![p] = [status |-> "open", user |-> u]]

-----------------------------------------------------------------------------
(* userService.save, awaited by no payment handler.                        *)

Diff(entity, row) == {c \in Columns : entity[c] # row[c]}
Written(row, entity, cols) ==
    [paymentId |-> IF "paymentId" \in cols THEN entity.paymentId ELSE row.paymentId,
     hasPaidEntryFee |-> IF "hasPaidEntryFee" \in cols THEN entity.hasPaidEntryFee
                         ELSE row.hasPaidEntryFee]

SaveUser(h) ==
    /\ handler[h].pc = "load"
    /\ LET diff == Diff(handler[h].copy, account[handler[h].user]) IN
         handler' = [handler EXCEPT ![h] =
                       IF diff = {} THEN End(h, "done")
                       ELSE [@ EXCEPT !.pc = "write", !.cols = diff]]
    /\ UNCHANGED <<payment, due, account, mailed, raced>>

UpdateUser(h) ==
    /\ handler[h].pc = "write"
    /\ account' = [account EXCEPT ![handler[h].user] =
                                     Written(@, handler[h].copy, handler[h].cols)]
    /\ handler' = [handler EXCEPT ![h] = End(h, "done")]
    /\ UNCHANGED <<payment, due, mailed, raced>>

-----------------------------------------------------------------------------
(* startPayment: create, read the account, note the payment, save.         *)

StartPayment(h, u) ==
    /\ Begin(h, "start", "create", u, Null)
    /\ UNCHANGED <<payment, due, account, mailed, raced>>

StartCreate(h, p) ==
    /\ At(h, "start", "create")
    /\ NewPayment(p, handler[h].user)
    /\ handler' = [handler EXCEPT ![h].pc = "read", ![h].payment = p]
    /\ UNCHANGED <<due, account, mailed, raced>>

StartRead(h) ==
    /\ At(h, "start", "read")
    /\ LET u == handler[h].user IN
         /\ handler' = [handler EXCEPT
                          ![h].pc = "load",
                          ![h].copy = [account[u] EXCEPT !.paymentId = handler[h].payment]]
         /\ Reads(h, u)
    /\ UNCHANGED <<payment, due, account, mailed>>

-----------------------------------------------------------------------------
(* retryPayment: read the account, ask for its payment, and unless that is *)
(* still open create another one and save the account as it was read.      *)

RetryPayment(h, u) ==
    /\ Begin(h, "retry", "read", u, Null)
    /\ UNCHANGED <<payment, due, account, mailed, raced>>

RetryRead(h) ==
    /\ At(h, "retry", "read")
    /\ LET u == handler[h].user IN
         /\ handler' = [handler EXCEPT ![h].pc = "get", ![h].copy = account[u]]
         /\ Reads(h, u)
    /\ UNCHANGED <<payment, due, account, mailed>>

\* Mutant: only an open payment is kept, a pending one is replaced.
RetryGetOpenOnly(h) ==
    /\ At(h, "retry", "get")
    /\ LET p == handler[h].copy.paymentId
           ended == [handler EXCEPT ![h] = End(h, "done")]
           restart == [handler EXCEPT ![h].pc = "create"]
       IN \/ p = Null /\ handler' \in {ended, restart}
          \/ p # Null /\ handler' = IF payment[p].status = "open" THEN ended ELSE restart
    /\ UNCHANGED <<payment, due, account, mailed, raced>>

\* An account with no payment: the lookup finds nothing, or fails the request.
RetryGet(h) ==
    /\ At(h, "retry", "get")
    /\ LET p == handler[h].copy.paymentId
           ended == [handler EXCEPT ![h] = End(h, "done")]
           restart == [handler EXCEPT ![h].pc = "create"]
       IN \/ p = Null /\ handler' \in {ended, restart}
          \/ p # Null /\ handler' = IF payment[p].status \in Open THEN ended ELSE restart
    /\ UNCHANGED <<payment, due, account, mailed, raced>>

RestartPayment(h, p) ==
    /\ At(h, "retry", "create")
    /\ NewPayment(p, handler[h].user)
    /\ handler' = [handler EXCEPT ![h].pc = "load", ![h].payment = p,
                                  ![h].copy = [@ EXCEPT !.paymentId = p]]
    /\ UNCHANGED <<due, account, mailed, raced>>

-----------------------------------------------------------------------------
(* processWebhook.  The controller does not wait for it: Mollie has its    *)
(* answer, and stops calling, before anything is stored.  A call whose     *)
(* answer gets lost on the way is made again (bound: as long as enough      *)
(* requests are left for the webhook of every payment).                    *)

MayRepeat == Cardinality({k \in Handlers : handler[k].pc = "idle"}) > Cardinality(Payments)

AcceptWebhook(h, p) ==
    /\ p \in due
    /\ Begin(h, "hook", "get", Null, p)
    /\ due' = due \ {p} \/ (MayRepeat /\ due' = due)
    /\ UNCHANGED <<payment, account, mailed, raced>>

\* Mutant: any end counts as paid.
HookGetClosed(h) ==
    /\ At(h, "hook", "get")
    /\ LET p == handler[h].payment IN
         handler' = [handler EXCEPT ![h].pc = "read", ![h].user = payment[p].user,
                                    ![h].paid = payment[p].status \in Closed]
    /\ UNCHANGED <<payment, due, account, mailed, raced>>

HookGet(h) ==
    /\ At(h, "hook", "get")
    /\ LET p == handler[h].payment IN
         handler' = [handler EXCEPT ![h].pc = "read", ![h].user = payment[p].user,
                                    ![h].paid = payment[p].status = "paid"]
    /\ UNCHANGED <<payment, due, account, mailed, raced>>

\* Mutants: the confirmation goes out whatever the status; the account is not saved.
HookReadMailsAll(h) ==
    /\ At(h, "hook", "read")
    /\ LET u == handler[h].user IN
         /\ handler' = [handler EXCEPT
              ![h].pc = "load",
              ![h].copy = [account[u] EXCEPT !.hasPaidEntryFee = handler[h].paid]]
         /\ mailed' = mailed \union {<<u, handler[h].payment>>}
         /\ Reads(h, u)
    /\ UNCHANGED <<payment, due, account>>
HookReadNoSave(h) ==
    /\ At(h, "hook", "read")
    /\ handler' = [handler EXCEPT ![h] = End(h, "done")]
    /\ UNCHANGED <<payment, due, account, mailed, raced>>

HookRead(h) ==
    /\ At(h, "hook", "read")
    /\ LET u == handler[h].user
           paid == handler[h].paid
       IN /\ handler' = [handler EXCEPT
                           ![h].pc = "load",
                           ![h].copy = [account[u] EXCEPT !.hasPaidEntryFee = paid]]
          /\ mailed' = IF paid THEN mailed \union {<<u, handler[h].payment>>} ELSE mailed
          /\ Reads(h, u)
    /\ UNCHANGED <<payment, due, account>>

-----------------------------------------------------------------------------
(* Any other handler that reads a whole account and saves it.              *)

OtherSave(h, u) ==
    /\ Begin(h, "other", "read", u, Null)
    /\ UNCHANGED <<payment, due, account, mailed, raced>>

\* Mutant: what is saved is built from the form, with the flag at its default.
OtherReadDefault(h) ==
    /\ At(h, "other", "read")
    /\ LET u == handler[h].user IN
         /\ handler' = [handler EXCEPT
              ![h].pc = "load",
              ![h].copy = [account[u] EXCEPT !.hasPaidEntryFee = FALSE]]
         /\ Reads(h, u)
    /\ UNCHANGED <<payment, due, account, mailed>>

OtherRead(h) ==
    /\ At(h, "other", "read")
    /\ LET u == handler[h].user IN
         /\ handler' = [handler EXCEPT ![h].pc = "load", ![h].copy = account[u]]
         /\ Reads(h, u)
    /\ UNCHANGED <<payment, due, account, mailed>>

-----------------------------------------------------------------------------
(* Mollie and its customer; the process.                                   *)

CustomerActs(p) ==
    /\ payment[p].status \in Open
    /\ \/ /\ payment[p].status = "open"
          /\ payment' = [payment EXCEPT ![p].status = "pending"]
          /\ UNCHANGED due
       \/ \E s \in Closed :
            /\ payment' = [payment EXCEPT ![p].status = s]
            /\ due' = due \union {p}
    /\ UNCHANGED <<account, handler, mailed, raced>>

Crash ==
    /\ CrashAllowed
    /\ InFlight # {}
    /\ handler' = [h \in Handlers |-> IF Active(h) THEN End(h, "lost") ELSE handler[h]]
    /\ UNCHANGED <<payment, due, account, mailed, raced>>

-----------------------------------------------------------------------------
HandlerStep(h) ==
    \/ SaveUser(h) \/ UpdateUser(h)
    \/ \E p \in Payments : StartCreate(h, p) \/ RestartPayment(h, p)
    \/ StartRead(h)
    \/ RetryRead(h) \/ RetryGet(h)
    \/ HookGet(h) \/ HookRead(h)
    \/ OtherRead(h)

Next ==
    \/ \E h \in Handlers : HandlerStep(h)
    \/ \E h \in Handlers, u \in Users :
         StartPayment(h, u) \/ RetryPayment(h, u) \/ OtherSave(h, u)
    \/ \E h \in Handlers, p \in Payments : AcceptWebhook(h, p)
    \/ \E p \in Payments : CustomerActs(p)
    \/ Crash

Spec == Init /\ [][Next]_vars

\* Calls are answered, and Mollie calls a webhook until it is answered.
Fairness == /\ \A h \in Handlers : WF_vars(HandlerStep(h))
            /\ \A p \in Payments : WF_vars(\E h \in Handlers : AcceptWebhook(h, p))

FairSpec == Spec /\ Fairness

-----------------------------------------------------------------------------
(* Properties.                                                             *)

\* Types of the account columns, of the payments and of the requests.
TypeOK ==
    /\ payment \in [Payments -> Payment]
    /\ due \subseteq Payments
    /\ account \in [Users -> Account]
    /\ handler \in [Handlers -> Handler]
    /\ mailed \subseteq Users \X Payments
    /\ raced \subseteq Users

Paid(u) == \E p \in Payments : payment[p].user = u /\ payment[p].status = "paid"

\* Nobody counts as having paid who has not: whatever requests overlap, whatever
\* is retried or reported twice, the flag of a member is only ever up if a payment
\* made out to that member is paid.
PaidIsPaid == \A u \in Users : account[u].hasPaidEntryFee => Paid(u)

\* A confirmation goes to the member the payment is made out to, about a payment
\* that is paid.
ConfirmationIsTrue ==
    \A m \in mailed : payment[m[2]].user = m[1] /\ payment[m[2]].status = "paid"

\* The payment on file is one that was made out to that very member.
OnFileIsOwn ==
    \A u \in Users : account[u].paymentId # Null => payment[account[u].paymentId].user = u

\* A member who has paid only stops counting as such by the webhook of a payment
\* that ended unpaid, or because two requests held the account at once.
PaidIsLostToUnpaid ==
    [][\A u \in Users \ raced' :
          account[u].hasPaidEntryFee /\ ~account'[u].hasPaidEntryFee =>
             \E h \in Handlers : /\ At(h, "hook", "write") /\ handler'[h].pc = "done"
                                 /\ payment[handler[h].payment].user = u
                                 /\ payment[handler[h].payment].status # "paid"]_vars

\* Retrying is safe to repeat: a member has two payments open only after
\* startPayment, after a retry that died between creating a payment and saving it,
\* or after two requests that held the account at once.
OneOpenPayment ==
    \A p, q \in Payments :
        /\ payment[p].status \in Open /\ payment[q].status \in Open
        /\ payment[p].user = payment[q].user
        /\ p # q
        => \/ payment[p].user \in raced
           \/ \E h \in Handlers : /\ handler[h].user = payment[p].user
                                 /\ \/ handler[h].kind = "start"
                                    \/ At(h, "retry", "lost")

\* A payment that is paid ends up on the account: unless the request that its
\* webhook started died with the process, two requests held the account at once, or
\* the member has another payment.  (Or the run has no request left for the webhook.)
PaidIsRecorded ==
    \A p \in Payments, u \in Users :
        payment[p].status = "paid" /\ payment[p].user = u ~>
           \/ account[u].hasPaidEntryFee
           \/ u \in raced
           \/ \E q \in Payments \ {p} : payment[q].user = u
           \/ \E h \in Handlers : At(h, "hook", "lost") /\ handler[h].payment = p
           \/ p \in due /\ \A h \in Handlers : handler[h].pc # "idle"

\* No payment gets lost: as long as a paid one is not on the account, Mollie has yet to
\* call, or the request that its call started has it in hand (or died with it), unless
\* two requests held the account at once or the member has another payment.
PaidIsUnderway ==
    \A p \in Payments, u \in Users :
        payment[p].status = "paid" /\ payment[p].user = u =>
           \/ account[u].hasPaidEntryFee
           \/ p \in due
           \/ \E h \in Handlers : /\ handler[h].kind = "hook" /\ handler[h].payment = p
                                 /\ handler[h].pc # "done"
           \/ u \in raced
           \/ \E q \in Payments \ {p} : payment[q].user = u

\* The book of FeeBook.  A payment is carried by the request that created it until that
\* request has saved it on the account.
Carries(h, p) ==
    /\ handler[h].payment = p
    /\ \/ handler[h].kind = "start" /\ handler[h].pc \in {"read", "load", "write"}
       \/ handler[h].kind = "retry" /\ handler[h].pc \in {"load", "write"}

StatusOf == [p \in Payments |-> payment[p].status]
OwnerOf  == [p \in Payments |-> payment[p].user]
Carried  == {p \in Payments : \E h \in Handlers : Carries(h, p)}
FileOf   == [u \in Users |-> IF u \in raced THEN Null ELSE account[u].paymentId]
PaidOf   == [u \in Users |-> u \notin raced /\ account[u].hasPaidEntryFee]

Book == INSTANCE FeeBook WITH
    Nothing <- Null, status <- StatusOf, owner <- OwnerOf, carried <- Carried,
    onFile <- FileOf, paid <- PaidOf, spoiled <- raced

\* For members whose account no two requests held at once, the requests of this module
\* keep the book of FeeBook, crashes and repeated webhooks included.
ImplementsBook == Book!BookSpec

\* getEntryFeeStatus "returns Promise, whether the user paid the entry fee or not":
\* once every request and every webhook is through, the flag says just that.
EntryFeeStatusTrue ==
    InFlight = {} /\ due = {} =>
        \A u \in Users : account[u].hasPaidEntryFee <=> Paid(u)
=============================================================================

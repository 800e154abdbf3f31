--------------------------- MODULE EntryFeeProofs ---------------------------
(***************************************************************************)
(* Proofs about EntryFee, for any members, payments, requests and bounds:  *)
(* types; that a paid flag, a confirmation and a payment on file are       *)
(* always backed by Mollie's own record of the payment; that a payment     *)
(* which is paid is not lost on its way to the account; and that accounts  *)
(* no two requests held at once follow the book of FeeBook.                *)
(*                                                                         *)
(* The argument: what Mollie knows only grows (a payment keeps its member, *)
(* a paid payment stays paid), so a copy that was backed when it was read  *)
(* is still backed when it is written, however late that is.               *)
(***************************************************************************)
EXTENDS EntryFee, TLAPS

\* A payment made out to a member, and an account (stored or held by a request)
\* that Mollie's record `pay' backs.
Own(pay, p, u) == p \in Payments /\ pay[p].user = u
Backed(pay, a, u) ==
    /\ a.hasPaidEntryFee => \E p \in Payments : pay[p].user = u /\ pay[p].status = "paid"
    /\ a.paymentId # Null => Own(pay, a.paymentId, u)

HoldsCopy(h) == \/ handler[h].pc \in {"load", "write"}
                \/ handler[h].kind = "retry" /\ handler[h].pc \in {"get", "create"}

\* What a request in progress relies on, by how far it is.
HandlerOK(h) ==
    /\ handler[h].kind # "hook" /\ Active(h) => handler[h].user \in Users
    /\ HoldsCopy(h) => handler[h].user \in Users /\ Backed(payment, handler[h].copy, handler[h].user)
    /\ handler[h].kind = "start" /\ handler[h].pc = "read"
         => Own(payment, handler[h].payment, handler[h].user)
    /\ handler[h].kind = "hook" /\ handler[h].pc = "get"
         => handler[h].payment \in Payments /\ payment[handler[h].payment].user \in Users
    /\ handler[h].kind = "hook" /\ handler[h].pc = "read"
         => /\ handler[h].user \in Users /\ Own(payment, handler[h].payment, handler[h].user)
            /\ handler[h].paid => payment[handler[h].payment].status = "paid"

Exists == /\ \A p \in Payments : payment[p].status = "none" <=> payment[p].user = Null
          /\ \A p \in due : payment[p].user \in Users

FeeInv ==
    /\ TypeOK
    /\ Exists
    /\ \A u \in Users : Backed(payment, account[u], u)
    /\ \A h \in Handlers : HandlerOK(h)
    /\ ConfirmationIsTrue

\* Mollie's record only grows.
Grows == \A p \in Payments :
            /\ payment[p].user # Null => payment'[p].user = payment[p].user
            /\ payment[p].status = "paid" => payment'[p].status = "paid"

-----------------------------------------------------------------------------
LEMMA BackedGrows ==
    ASSUME TypeOK, Exists, Grows, NEW a \in Account, NEW u \in Users, Backed(payment, a, u)
    PROVE  Backed(payment', a, u)
  BY NullAssumption DEF Backed, Own, Grows, TypeOK, Account

LEMMA WrittenType ==
    ASSUME NEW a \in Account, NEW b \in Account, NEW cols
    PROVE  Written(a, b, cols) \in Account
  BY DEF Written, Account

\* Each column written comes from a backed account.
LEMMA WrittenBacked ==
    ASSUME NEW a \in Account, NEW b \in Account, NEW cols, NEW u \in Users,
           NEW pay, Backed(pay, a, u), Backed(pay, b, u)
    PROVE  Backed(pay, Written(a, b, cols), u)
  BY DEF Written, Account, Backed

LEMMA EndType ==
    ASSUME TypeOK, NEW h \in Handlers, NEW how \in {"done", "lost"}
    PROVE  End(h, how) \in Handler /\ End(h, how).pc = how
  BY DEF TypeOK, End, NoHandler, NoAccount, Handler, Account, Pcs

\* A request that does not move keeps what it relies on.
LEMMA HandlerKeeps ==
    ASSUME FeeInv, Grows, NEW h \in Handlers, handler'[h] = handler[h]
    PROVE  HandlerOK(h)'
<1>1. handler[h] \in Handler /\ HandlerOK(h) /\ TypeOK /\ Exists
  BY DEF FeeInv, TypeOK
<1>2. HoldsCopy(h) => Backed(payment', handler[h].copy, handler[h].user)
  <2>1. SUFFICES ASSUME HoldsCopy(h) PROVE Backed(payment', handler[h].copy, handler[h].user)
    OBVIOUS
  <2>2. /\ handler[h].copy \in Account /\ handler[h].user \in Users
        /\ Backed(payment, handler[h].copy, handler[h].user)
    BY <1>1, <2>1 DEF HandlerOK, Handler
  <2> QED
    BY <1>1, <2>2, BackedGrows
<1>3. \A p \in Payments : /\ payment[p].user \in Users => payment'[p].user = payment[p].user
                          /\ payment[p].status = "paid" => payment'[p].status = "paid"
  BY NullAssumption DEF Grows
<1>4. HoldsCopy(h)' <=> HoldsCopy(h)
  BY DEF HoldsCopy
<1>5. Active(h)' <=> Active(h)
  BY DEF Active
<1>6. /\ handler[h].kind # "hook" /\ Active(h) => handler[h].user \in Users
      /\ HoldsCopy(h) => handler[h].user \in Users
      /\ handler[h].kind = "start" /\ handler[h].pc = "read"
           => Own(payment, handler[h].payment, handler[h].user) /\ handler[h].user \in Users
      /\ handler[h].kind = "hook" /\ handler[h].pc = "get"
           => handler[h].payment \in Payments /\ payment[handler[h].payment].user \in Users
      /\ handler[h].kind = "hook" /\ handler[h].pc = "read"
           => /\ handler[h].user \in Users /\ Own(payment, handler[h].payment, handler[h].user)
              /\ handler[h].paid => payment[handler[h].payment].status = "paid"
  BY <1>1 DEF HandlerOK, Active
<1> QED
  BY <1>2, <1>3, <1>4, <1>5, <1>6 DEF HandlerOK, Own

\* One request moves to a state it can rely on; the rest of the invariant is kept.
LEMMA Move ==
    ASSUME FeeInv, Grows, NEW h \in Handlers, NEW x \in Handler,
           handler' = [handler EXCEPT ![h] = x], HandlerOK(h)',
           payment' \in [Payments -> Payment], due' \subseteq Payments, Exists',
           account' \in [Users -> Account],
           \A u \in Users : Backed(payment', account'[u], u),
           mailed' \subseteq Users \X Payments, raced' \subseteq Users, ConfirmationIsTrue'
    PROVE  FeeInv'
<1>1. handler \in [Handlers -> Handler]
  BY DEF FeeInv, TypeOK
<1>2. \A k \in Handlers : HandlerOK(k)'
  BY <1>1, HandlerKeeps
<1>3. handler' \in [Handlers -> Handler]
  BY <1>1
<1> QED
  BY <1>2, <1>3 DEF FeeInv, TypeOK

\* What stays put keeps its backing.
LEMMA AccountsKeep ==
    ASSUME FeeInv, Grows, account' = account
    PROVE  \A u \in Users : Backed(payment', account'[u], u)
<1>1. TypeOK /\ Exists /\ \A u \in Users : account[u] \in Account /\ Backed(payment, account[u], u)
  BY DEF FeeInv, TypeOK
<1> QED
  BY <1>1, BackedGrows

LEMMA MailKeeps ==
    ASSUME FeeInv, Grows, mailed' = mailed
    PROVE  ConfirmationIsTrue'
<1>1. \A m \in mailed : m[1] \in Users /\ m[2] \in Payments
  BY DEF FeeInv, TypeOK
<1> QED
  BY <1>1, NullAssumption DEF FeeInv, ConfirmationIsTrue, Grows

-----------------------------------------------------------------------------
LEMMA FeeInit == Init => FeeInv
<1> SUFFICES ASSUME Init PROVE FeeInv
  OBVIOUS
<1> USE DEF Init
<1>1. account \in [Users -> Account]
  BY OnFileAssumption DEF Account
<1>2. payment \in [Payments -> Payment]
  BY DEF Payment, Statuses, Open, Closed
<1>3. NoHandler \in Handler
  BY DEF NoHandler, NoAccount, Handler, Account, Pcs
<1>4. TypeOK
  BY <1>1, <1>2, <1>3 DEF TypeOK
<1>5. Exists
  BY <1>2, NullAssumption DEF Exists, Payment
<1>6. \A u \in Users : Backed(payment, account[u], u)
  <2> SUFFICES ASSUME NEW u \in Users PROVE Backed(payment, account[u], u)
    OBVIOUS
  <2>1. ~account[u].hasPaidEntryFee
    OBVIOUS
  <2>2. ASSUME account[u].paymentId # Null PROVE Own(payment, account[u].paymentId, u)
    <3> DEFINE p == account[u].paymentId
    <3>1. p \in Payments
      BY <1>1, <2>2 DEF Account
    <3>2. payment[p].user # Null /\ account[payment[p].user].paymentId = p
      BY <3>1
    <3>3. payment[p].user \in Users
      BY <1>2, <3>1, <3>2 DEF Payment
    <3>4. payment[p].user = u
      BY <2>2, <3>2, <3>3
    <3> QED
      BY <3>1, <3>4 DEF Own
  <2> QED
    BY <2>1, <2>2 DEF Backed
<1>7. \A h \in Handlers : HandlerOK(h)
  BY DEF NoHandler, HandlerOK, Active, HoldsCopy
<1>8. ConfirmationIsTrue
  BY DEF ConfirmationIsTrue
<1> QED
  BY <1>4, <1>5, <1>6, <1>7, <1>8 DEF FeeInv

-----------------------------------------------------------------------------
\* Steps that leave Mollie, the accounts and the mail alone: it is enough that
\* the request that moves can rely on its new state.
LEMMA QuietMove ==
    ASSUME FeeInv, NEW h \in Handlers, NEW x \in Handler,
           handler' = [handler EXCEPT ![h] = x], HandlerOK(h)',
           UNCHANGED <<payment, account, mailed>>, due' \subseteq due,
           raced' \subseteq Users
    PROVE  FeeInv'
<1>1. Grows
  BY DEF Grows
<1>2. Exists'
  BY DEF FeeInv, Exists
<1>3. /\ payment' \in [Payments -> Payment] /\ due' \subseteq Payments
      /\ account' \in [Users -> Account] /\ mailed' \subseteq Users \X Payments
  BY DEF FeeInv, TypeOK
<1> QED
  BY <1>1, <1>2, <1>3, Move, AccountsKeep, MailKeeps

LEMMA FeeBegin ==
    ASSUME FeeInv, NEW h \in Handlers, NEW kind \in AllKinds, NEW pc, NEW u, NEW p,
           Begin(h, kind, pc, u, p),
           \/ kind = "hook" /\ pc = "get" /\ u = Null /\ p \in due
           \/ kind # "hook" /\ pc \in {"create", "read"} /\ u \in Users /\ p = Null,
           kind = "start" => pc = "create", kind = "retry" => pc = "read",
           kind = "other" => pc = "read",
           UNCHANGED <<payment, account, mailed, raced>>, due' \subseteq due
    PROVE  FeeInv'
<1> DEFINE x == [NoHandler EXCEPT !.kind = kind, !.pc = pc, !.user = u, !.payment = p]
<1>1. /\ handler \in [Handlers -> Handler] /\ due \subseteq Payments /\ raced \subseteq Users
      /\ \A q \in due : payment[q].user \in Users
  BY DEF FeeInv, TypeOK, Exists
<1>2. x \in Handler
  BY <1>1 DEF NoHandler, NoAccount, Handler, Account, Pcs
<1>3. handler' = [handler EXCEPT ![h] = x]
  BY DEF Begin
<1>4. x.kind = kind /\ x.pc = pc /\ x.user = u /\ x.payment = p
  BY DEF NoHandler
<1>5. HandlerOK(h)'
  <2> HIDE DEF x
  <2>1. handler'[h] = x
    BY <1>1, <1>3
  <2> QED
    BY <1>1, <1>4, <2>1 DEF HandlerOK, Active, HoldsCopy, AllKinds
<1> HIDE DEF x
<1> QED
  BY <1>1, <1>2, <1>3, <1>5, QuietMove

\* A request whose payment handle is kept and whose state becomes "done".
LEMMA EndOK ==
    ASSUME FeeInv, NEW h \in Handlers, handler' = [handler EXCEPT ![h] = End(h, "done")]
    PROVE  HandlerOK(h)'
<1>1. handler'[h].pc = "done"
  BY EndType DEF FeeInv, TypeOK
<1> QED
  BY <1>1 DEF HandlerOK, Active, HoldsCopy

LEMMA FeeSave == ASSUME FeeInv, NEW h \in Handlers, SaveUser(h) PROVE FeeInv'
<1> DEFINE diff == Diff(handler[h].copy, account[handler[h].user])
           x == IF diff = {} THEN End(h, "done")
                ELSE [handler[h] EXCEPT !.pc = "write", !.cols = diff]
<1>1. /\ handler[h].pc = "load" /\ UNCHANGED <<payment, due, account, mailed, raced>>
      /\ handler' = [handler EXCEPT ![h] = x]
  BY DEF SaveUser
<1>2. /\ handler \in [Handlers -> Handler] /\ handler[h] \in Handler /\ raced \subseteq Users
      /\ HandlerOK(h)
  BY DEF FeeInv, TypeOK
<1>3. diff \in SUBSET Columns
  BY DEF Diff
<1>4. End(h, "done") \in Handler /\ End(h, "done").pc = "done"
  BY EndType DEF FeeInv
<1>5. /\ x \in Handler
      /\ x.pc = "done" \/ /\ x.pc = "write" /\ x.user = handler[h].user
                          /\ x.copy = handler[h].copy /\ x.kind = handler[h].kind
  <2> HIDE DEF diff
  <2> QED
    BY <1>2, <1>3, <1>4 DEF Handler, Pcs
<1> HIDE DEF x
<1>6. handler'[h] = x
  BY <1>1, <1>2
<1>7. HandlerOK(h)'
  BY <1>1, <1>2, <1>5, <1>6 DEF HandlerOK, HoldsCopy, Active
<1> QED
  BY <1>1, <1>2, <1>5, <1>7, QuietMove

LEMMA FeeUpdate == ASSUME FeeInv, NEW h \in Handlers, UpdateUser(h) PROVE FeeInv'
<1> DEFINE u == handler[h].user
           b == Written(account[u], handler[h].copy, handler[h].cols)
<1>1. /\ handler[h].pc = "write" /\ UNCHANGED <<payment, due, mailed, raced>>
      /\ account' = [account EXCEPT ![u] = b]
      /\ handler' = [handler EXCEPT ![h] = End(h, "done")]
  BY DEF UpdateUser
<1>2. /\ handler[h].copy \in Account /\ account \in [Users -> Account]
      /\ u \in Users /\ Backed(payment, handler[h].copy, u)
      /\ \A v \in Users : Backed(payment, account[v], v)
  BY <1>1 DEF FeeInv, TypeOK, Handler, HandlerOK, HoldsCopy
<1>3. b \in Account /\ Backed(payment, b, u)
  BY <1>2, WrittenType, WrittenBacked
<1> HIDE DEF b, u
<1>4. account' \in [Users -> Account] /\ \A v \in Users : Backed(payment, account'[v], v)
  BY <1>1, <1>2, <1>3
<1>5. Grows
  BY <1>1 DEF Grows
<1>6. Exists' /\ payment' \in [Payments -> Payment] /\ due' \subseteq Payments
        /\ mailed' \subseteq Users \X Payments /\ raced' \subseteq Users
  BY <1>1 DEF FeeInv, TypeOK, Exists
<1>7. End(h, "done") \in Handler
  BY EndType DEF FeeInv
<1>8. payment' = payment
  BY <1>1
<1> QED
  BY <1>1, <1>4, <1>5, <1>6, <1>7, <1>8, EndOK, Move, MailKeeps

\* Creating a payment, by startPayment or restartPayment.
LEMMA FeeCreate ==
    ASSUME FeeInv, NEW h \in Handlers, NEW p \in Payments, NEW x \in Handler,
           handler[h].user \in Users, NewPayment(p, handler[h].user),
           handler' = [handler EXCEPT ![h] = x],
           UNCHANGED <<due, account, mailed, raced>>,
           x.user = handler[h].user,
           \/ x.kind = "start" /\ x.pc = "read" /\ x.payment = p
           \/ /\ x.kind = "retry" /\ x.pc = "load" /\ x.copy.paymentId = p
              /\ x.copy.hasPaidEntryFee = handler[h].copy.hasPaidEntryFee
              /\ HoldsCopy(h)
    PROVE  FeeInv'
<1> DEFINE u == handler[h].user
<1>1. /\ payment \in [Payments -> Payment] /\ handler \in [Handlers -> Handler]
      /\ HandlerOK(h) /\ Exists /\ TypeOK
  BY DEF FeeInv, TypeOK
<1>2. /\ payment[p].status = "none" /\ payment[p].user = Null
      /\ payment' = [payment EXCEPT ![p] = [status |-> "open", user |-> u]]
  BY <1>1 DEF NewPayment, Exists
<1>3. payment' \in [Payments -> Payment]
  BY <1>1, <1>2 DEF Payment, Statuses, Open
<1>4. Grows
  BY <1>1, <1>2 DEF Grows
<1>5. Exists'
  BY <1>1, <1>2, NullAssumption DEF Exists, TypeOK
<1>6. handler'[h] = x
  BY <1>1
<1>7. Own(payment', p, u)
  BY <1>1, <1>2 DEF Own
<1>8. CASE x.kind = "start" /\ x.pc = "read" /\ x.payment = p
  <2>1. HandlerOK(h)'
    BY <1>6, <1>7, <1>8 DEF HandlerOK, HoldsCopy, Active
  <2>2. account' \in [Users -> Account] /\ due' \subseteq Payments
          /\ mailed' \subseteq Users \X Payments /\ raced' \subseteq Users
    BY <1>1 DEF TypeOK
  <2> QED
    BY <2>1, <2>2, <1>3, <1>4, <1>5, Move, AccountsKeep, MailKeeps
<1>9. CASE /\ x.kind = "retry" /\ x.pc = "load" /\ x.copy.paymentId = p
           /\ x.copy.hasPaidEntryFee = handler[h].copy.hasPaidEntryFee
           /\ HoldsCopy(h)
  <2>1. Backed(payment, handler[h].copy, u) /\ handler[h].copy \in Account
    BY <1>1, <1>9 DEF HandlerOK, Handler
  <2>2. Backed(payment', handler[h].copy, u)
    BY <1>1, <1>4, <2>1, BackedGrows
  <2>3. Backed(payment', x.copy, u)
    BY <1>7, <1>9, <2>2 DEF Backed
  <2>4. HandlerOK(h)'
    BY <1>6, <1>9, <2>3 DEF HandlerOK, HoldsCopy, Active
  <2>5. account' \in [Users -> Account] /\ due' \subseteq Payments
          /\ mailed' \subseteq Users \X Payments /\ raced' \subseteq Users
    BY <1>1 DEF TypeOK
  <2> QED
    BY <2>4, <2>5, <1>3, <1>4, <1>5, Move, AccountsKeep, MailKeeps
<1> QED
  BY <1>8, <1>9

\* The reads: a copy taken from the account is backed as the account is.
LEMMA FeeRead ==
    ASSUME FeeInv, NEW h \in Handlers, NEW x \in Handler,
           handler' = [handler EXCEPT ![h] = x], handler[h].user \in Users,
           UNCHANGED <<payment, due, account, mailed>>, Reads(h, handler[h].user),
           x.user = handler[h].user, x.kind = handler[h].kind,
           x.pc = "load" \/ (x.kind = "retry" /\ x.pc = "get"),
           Backed(payment, x.copy, x.user)
    PROVE  FeeInv'
<1>1. handler \in [Handlers -> Handler] /\ raced' \subseteq Users /\ HandlerOK(h)
  BY DEF FeeInv, TypeOK, Reads
<1>2. handler'[h] = x
  BY <1>1
<1>3. HandlerOK(h)'
  BY <1>1, <1>2 DEF HandlerOK, HoldsCopy, Active
<1> QED
  BY <1>1, <1>3, QuietMove

LEMMA FeeStartRetry ==
    ASSUME FeeInv, NEW h \in Handlers,
           \/ \E p \in Payments : StartCreate(h, p) \/ RestartPayment(h, p)
           \/ StartRead(h) \/ RetryRead(h) \/ RetryGet(h) \/ OtherRead(h)
    PROVE  FeeInv'
<1> DEFINE u == handler[h].user
<1>1. handler[h] \in Handler /\ handler \in [Handlers -> Handler]
  BY DEF FeeInv, TypeOK
<1>2. u \in Users /\ HandlerOK(h)
  BY DEF FeeInv, HandlerOK, Active, At, StartCreate, RestartPayment, StartRead, RetryRead,
         RetryGet, OtherRead
<1>3. account[u] \in Account /\ Backed(payment, account[u], u)
  BY <1>2 DEF FeeInv, TypeOK
<1>4. ASSUME NEW p \in Payments, StartCreate(h, p) PROVE FeeInv'
  <2> DEFINE x == [handler[h] EXCEPT !.pc = "read", !.payment = p]
  <2>1. /\ x \in Handler /\ x.user = u /\ x.kind = "start" /\ x.pc = "read" /\ x.payment = p
    BY <1>1, <1>4 DEF StartCreate, At, Handler, Pcs
  <2>2. /\ handler' = [handler EXCEPT ![h] = x] /\ NewPayment(p, u)
        /\ UNCHANGED <<due, account, mailed, raced>>
    BY <1>4 DEF StartCreate
  <2> HIDE DEF x
  <2> QED
    BY <1>2, <2>1, <2>2, FeeCreate
<1>5. ASSUME NEW p \in Payments, RestartPayment(h, p) PROVE FeeInv'
  <2> DEFINE x == [handler[h] EXCEPT !.pc = "load", !.payment = p,
                                     !.copy = [handler[h].copy EXCEPT !.paymentId = p]]
  <2>1. /\ x \in Handler /\ x.user = u /\ x.kind = "retry" /\ x.pc = "load"
        /\ x.copy.paymentId = p
        /\ x.copy.hasPaidEntryFee = handler[h].copy.hasPaidEntryFee
    BY <1>1, <1>5 DEF RestartPayment, At, Handler, Pcs, Account
  <2>2. /\ handler' = [handler EXCEPT ![h] = x] /\ NewPayment(p, u) /\ HoldsCopy(h)
        /\ UNCHANGED <<due, account, mailed, raced>>
    BY <1>1, <1>5 DEF RestartPayment, At, HoldsCopy
  <2> HIDE DEF x
  <2> QED
    BY <1>2, <2>1, <2>2, FeeCreate
<1>6. CASE StartRead(h)
  <2> DEFINE x == [handler[h] EXCEPT
                     !.pc = "load", !.copy = [account[u] EXCEPT !.paymentId = handler[h].payment]]
  <2>1. Own(payment, handler[h].payment, u)
    BY <1>2, <1>6 DEF StartRead, At, HandlerOK
  <2>2. [account[u] EXCEPT !.paymentId = handler[h].payment] \in Account
    BY <1>3, <2>1 DEF Own, Account
  <2>3. x \in Handler /\ x.user = u /\ x.kind = handler[h].kind /\ x.pc = "load"
    BY <1>1, <2>2 DEF Handler, Pcs
  <2>4. x.copy.paymentId = handler[h].payment
          /\ x.copy.hasPaidEntryFee = account[u].hasPaidEntryFee
    BY <1>1, <1>3 DEF Handler, Account
  <2>5. Backed(payment, x.copy, u)
    BY <1>3, <2>1, <2>4 DEF Backed
  <2>6. /\ handler' = [handler EXCEPT ![h] = x] /\ Reads(h, u)
        /\ UNCHANGED <<payment, due, account, mailed>>
    BY <1>6 DEF StartRead
  <2> HIDE DEF x
  <2> QED
    BY <1>2, <2>3, <2>5, <2>6, FeeRead
<1>7. CASE RetryRead(h)
  <2> DEFINE x == [handler[h] EXCEPT !.pc = "get", !.copy = account[u]]
  <2>1. /\ x \in Handler /\ x.user = u /\ x.kind = handler[h].kind /\ x.kind = "retry"
        /\ x.pc = "get" /\ x.copy = account[u]
    BY <1>1, <1>3, <1>7 DEF RetryRead, At, Handler, Pcs
  <2>2. /\ handler' = [handler EXCEPT ![h] = x] /\ Reads(h, u)
        /\ UNCHANGED <<payment, due, account, mailed>>
    BY <1>7 DEF RetryRead
  <2> HIDE DEF x
  <2> QED
    BY <1>2, <1>3, <2>1, <2>2, FeeRead
<1>8. CASE OtherRead(h)
  <2> DEFINE x == [handler[h] EXCEPT !.pc = "load", !.copy = account[u]]
  <2>1. /\ x \in Handler /\ x.user = u /\ x.kind = handler[h].kind
        /\ x.pc = "load" /\ x.copy = account[u]
    BY <1>1, <1>3 DEF Handler, Pcs
  <2>2. /\ handler' = [handler EXCEPT ![h] = x] /\ Reads(h, u)
        /\ UNCHANGED <<payment, due, account, mailed>>
    BY <1>8 DEF OtherRead
  <2> HIDE DEF x
  <2> QED
    BY <1>2, <1>3, <2>1, <2>2, FeeRead
<1>9. CASE RetryGet(h)
  <2> DEFINE x == [handler[h] EXCEPT !.pc = "create"]
  <2>1. /\ \/ handler' = [handler EXCEPT ![h] = End(h, "done")]
           \/ handler' = [handler EXCEPT ![h] = x]
        /\ UNCHANGED <<payment, due, account, mailed, raced>>
    BY <1>9 DEF RetryGet
  <2>2. raced' \subseteq Users /\ due' \subseteq due
    BY <2>1 DEF FeeInv, TypeOK
  <2>3. CASE handler' = [handler EXCEPT ![h] = End(h, "done")]
    BY <2>1, <2>2, <2>3, EndType, EndOK, QuietMove DEF FeeInv
  <2>4. CASE handler' = [handler EXCEPT ![h] = x]
    <3>1. /\ x \in Handler /\ x.user = u /\ x.kind = "retry" /\ x.pc = "create"
          /\ x.copy = handler[h].copy /\ HoldsCopy(h)
      BY <1>1, <1>9 DEF RetryGet, At, Handler, Pcs, HoldsCopy
    <3> HIDE DEF x
    <3>2. HandlerOK(h)'
      BY <1>1, <1>2, <2>1, <2>4, <3>1 DEF HandlerOK, HoldsCopy, Active
    <3> QED
      BY <2>1, <2>2, <2>4, <3>1, <3>2, QuietMove
  <2> QED
    BY <2>1, <2>3, <2>4
<1> QED
  BY <1>4, <1>5, <1>6, <1>7, <1>8, <1>9

\* The webhook.
LEMMA FeeHook == ASSUME FeeInv, NEW h \in Handlers, HookGet(h) \/ HookRead(h) PROVE FeeInv'
<1>1. /\ handler[h] \in Handler /\ handler \in [Handlers -> Handler] /\ HandlerOK(h)
      /\ raced \subseteq Users
  BY DEF FeeInv, TypeOK
<1>2. CASE HookGet(h)
  <2> DEFINE p == handler[h].payment
             x == [handler[h] EXCEPT !.pc = "read", !.user = payment[p].user,
                                     !.paid = payment[p].status = "paid"]
  <2>1. p \in Payments /\ payment[p].user \in Users
    BY <1>1, <1>2 DEF HookGet, At, HandlerOK
  <2>2. /\ x \in Handler /\ x.kind = "hook" /\ x.pc = "read" /\ x.user = payment[p].user
        /\ x.payment = p /\ (x.paid <=> payment[p].status = "paid")
    BY <1>1, <1>2, <2>1 DEF HookGet, At, Handler, Pcs
  <2>3. /\ handler' = [handler EXCEPT ![h] = x]
        /\ UNCHANGED <<payment, due, account, mailed, raced>>
    BY <1>2 DEF HookGet
  <2> HIDE DEF x
  <2>4. HandlerOK(h)'
    BY <1>1, <2>1, <2>2, <2>3 DEF HandlerOK, HoldsCopy, Active, Own
  <2> QED
    BY <1>1, <2>2, <2>3, <2>4, QuietMove
<1>3. CASE HookRead(h)
  <2> DEFINE u == handler[h].user
             p == handler[h].payment
             c == [account[u] EXCEPT !.hasPaidEntryFee = handler[h].paid]
             x == [handler[h] EXCEPT !.pc = "load", !.copy = c]
  <2>1. /\ u \in Users /\ Own(payment, p, u)
        /\ handler[h].paid => payment[p].status = "paid"
    BY <1>1, <1>3 DEF HookRead, At, HandlerOK
  <2>2. account[u] \in Account /\ Backed(payment, account[u], u)
    BY <2>1 DEF FeeInv, TypeOK
  <2>3. c \in Account /\ Backed(payment, c, u)
    <3>1. c \in Account /\ c.paymentId = account[u].paymentId
            /\ c.hasPaidEntryFee = handler[h].paid
      BY <1>1, <2>2 DEF Account, Handler
    <3> QED
      BY <3>1, <2>1, <2>2 DEF Backed, Own
  <2>4. x \in Handler /\ x.kind = "hook" /\ x.pc = "load" /\ x.user = u /\ x.copy = c
    <3> HIDE DEF c
    <3> QED
      BY <1>1, <1>3, <2>3 DEF HookRead, At, Handler, Pcs
  <2>5. /\ handler' = [handler EXCEPT ![h] = x] /\ Reads(h, u)
        /\ mailed' = IF handler[h].paid THEN mailed \union {<<u, p>>} ELSE mailed
        /\ UNCHANGED <<payment, due, account>>
    BY <1>3 DEF HookRead
  <2>6. mailed' \subseteq Users \X Payments /\ ConfirmationIsTrue'
    BY <2>1, <2>5 DEF FeeInv, TypeOK, ConfirmationIsTrue, Own
  <2>7. raced' \subseteq Users /\ Grows /\ Exists' /\ account' \in [Users -> Account]
          /\ payment' \in [Payments -> Payment] /\ due' \subseteq Payments
    BY <2>1, <2>5 DEF FeeInv, TypeOK, Reads, Grows, Exists
  <2> HIDE DEF x, c, u
  <2>8. HandlerOK(h)'
    BY <1>1, <2>1, <2>3, <2>4, <2>5 DEF HandlerOK, HoldsCopy, Active
  <2> QED
    BY <2>4, <2>5, <2>6, <2>7, <2>8, Move, AccountsKeep
<1> QED
  BY <1>2, <1>3

\* Mollie's customer: a payment moves on, and a closed one calls the webhook.
LEMMA FeeCustomer == ASSUME FeeInv, NEW p \in Payments, CustomerActs(p) PROVE FeeInv'
<1>1. /\ payment \in [Payments -> Payment] /\ TypeOK /\ Exists /\ payment[p].status \in Open
  BY DEF FeeInv, TypeOK, CustomerActs
<1>2. PICK s \in {"pending"} \union Closed : payment' = [payment EXCEPT ![p].status = s]
  BY DEF CustomerActs
<1>3. /\ UNCHANGED <<account, handler, mailed, raced>>
      /\ due' = due \/ due' = due \union {p}
  BY DEF CustomerActs
<1>4. /\ payment' \in [Payments -> Payment]
      /\ \A q \in Payments : payment'[q].user = payment[q].user
      /\ \A q \in Payments \ {p} : payment'[q] = payment[q]
      /\ payment'[p].status = s
  BY <1>1, <1>2 DEF Payment, Statuses, Open
<1>5. Grows
  BY <1>1, <1>4 DEF Grows, Open
<1>6. Exists'
  <2>1. payment[p].user \in Users
    BY <1>1 DEF Exists, Open, Payment
  <2>2. s # "none" /\ payment[p].status # "none"
    BY <1>1 DEF Closed, Open
  <2> QED
    BY <1>1, <1>3, <1>4, <2>1, <2>2, NullAssumption DEF Exists, TypeOK
<1>7. \A u \in Users : Backed(payment', account'[u], u)
  BY <1>3, <1>5, AccountsKeep
<1>8. \A h \in Handlers : HandlerOK(h)'
  BY <1>3, <1>5, HandlerKeeps
<1>9. ConfirmationIsTrue'
  BY <1>3, <1>5, MailKeeps
<1>10. TypeOK'
  BY <1>1, <1>3, <1>4 DEF TypeOK
<1> QED
  BY <1>6, <1>7, <1>8, <1>9, <1>10 DEF FeeInv

LEMMA FeeCrash == ASSUME FeeInv, Crash PROVE FeeInv'
<1>1. /\ handler' = [h \in Handlers |-> IF Active(h) THEN End(h, "lost") ELSE handler[h]]
      /\ UNCHANGED <<payment, due, account, mailed, raced>>
  BY DEF Crash
<1>2. Grows
  BY <1>1 DEF Grows
<1>3. \A h \in Handlers : End(h, "lost") \in Handler /\ End(h, "lost").pc = "lost"
  BY EndType DEF FeeInv
<1>4. TypeOK'
  BY <1>1, <1>3 DEF FeeInv, TypeOK
<1>5. \A h \in Handlers : HandlerOK(h)'
  <2> SUFFICES ASSUME NEW h \in Handlers PROVE HandlerOK(h)'
    OBVIOUS
  <2>1. CASE Active(h)
    <3>1. handler'[h].pc = "lost"
      BY <1>1, <1>3, <2>1
    <3> QED
      BY <3>1 DEF HandlerOK, HoldsCopy, Active
  <2>2. CASE ~Active(h)
    BY <1>1, <1>2, <2>2, HandlerKeeps
  <2> QED
    BY <2>1, <2>2
<1>6. Exists' /\ ConfirmationIsTrue'
  BY <1>1, <1>2, MailKeeps DEF FeeInv, Exists
<1>7. \A u \in Users : Backed(payment', account'[u], u)
  BY <1>1, <1>2, AccountsKeep
<1> QED
  BY <1>4, <1>5, <1>6, <1>7 DEF FeeInv

LEMMA FeeStep == FeeInv /\ [Next]_vars => FeeInv'
<1> SUFFICES ASSUME FeeInv, [Next]_vars PROVE FeeInv'
  OBVIOUS
<1>1. ASSUME NEW h \in Handlers, HandlerStep(h) PROVE FeeInv'
  BY <1>1, FeeSave, FeeUpdate, FeeStartRetry, FeeHook DEF HandlerStep
<1>2. ASSUME NEW h \in Handlers, NEW u \in Users, StartPayment(h, u) PROVE FeeInv'
  BY <1>2, FeeBegin DEF StartPayment, AllKinds
<1>3. ASSUME NEW h \in Handlers, NEW u \in Users, RetryPayment(h, u) PROVE FeeInv'
  BY <1>3, FeeBegin DEF RetryPayment, AllKinds
<1>4. ASSUME NEW h \in Handlers, NEW u \in Users, OtherSave(h, u) PROVE FeeInv'
  BY <1>4, FeeBegin DEF OtherSave, AllKinds
<1>5. ASSUME NEW h \in Handlers, NEW p \in Payments, AcceptWebhook(h, p) PROVE FeeInv'
  <2>1. due' \subseteq due /\ p \in due /\ UNCHANGED <<payment, account, mailed, raced>>
        /\ Begin(h, "hook", "get", Null, p)
    BY <1>5 DEF AcceptWebhook
  <2> QED
    BY <2>1, FeeBegin DEF AllKinds
<1>6. CASE UNCHANGED vars
  <2>1. Grows
    BY <1>6 DEF Grows, vars
  <2>2. \A h \in Handlers : HandlerOK(h)'
    BY <1>6, <2>1, HandlerKeeps DEF vars
  <2> QED
    BY <1>6, <2>1, <2>2, AccountsKeep, MailKeeps DEF vars, FeeInv, TypeOK, Exists
<1> QED
  BY <1>1, <1>2, <1>3, <1>4, <1>5, <1>6, FeeCustomer, FeeCrash DEF Next

LEMMA FeeInvariant == Spec => []FeeInv
  BY FeeInit, FeeStep, PTL DEF Spec

\* Accounts, payments and requests keep their types.
THEOREM FeeTypeCorrect == Spec => []TypeOK
<1>1. FeeInv => TypeOK
  BY DEF FeeInv
<1> QED
  BY <1>1, FeeInvariant, PTL

\* Nobody counts as having paid who has not, whatever overlaps or crashes.
THEOREM PaidFlagIsSound == Spec => []PaidIsPaid
<1>1. FeeInv => PaidIsPaid
  BY DEF FeeInv, PaidIsPaid, Backed, Paid
<1> QED
  BY <1>1, FeeInvariant, PTL

\* Confirmations go to the member who paid.
THEOREM ConfirmationsAreTrue == Spec => []ConfirmationIsTrue
<1>1. FeeInv => ConfirmationIsTrue
  BY DEF FeeInv
<1> QED
  BY <1>1, FeeInvariant, PTL

\* The payment on file is the member's own.
THEOREM PaymentOnFileIsOwn == Spec => []OnFileIsOwn
<1>1. FeeInv => OnFileIsOwn
  BY DEF FeeInv, OnFileIsOwn, Backed, Own
<1> QED
  BY <1>1, FeeInvariant, PTL
-----------------------------------------------------------------------------
(* Accounts that no two requests held at once.  A request that holds such  *)
(* an account is the only one, and what it holds is the row but for what   *)
(* the request is about; so its write changes nothing else.                *)

Alone(h) == \A k \in Handlers \ {h} : HoldsCopy(k) => handler[k].user # handler[h].user

\* What the copy of a request has in common with the row.
Follows(h) ==
    LET x == handler[h]
        row == account[handler[h].user] IN
      /\ x.kind # "hook" => x.copy.hasPaidEntryFee = row.hasPaidEntryFee
      /\ x.kind \in {"hook", "other"} \/ x.pc \in {"get", "create"}
           => x.copy.paymentId = row.paymentId
      /\ x.kind = "retry" /\ x.pc \in {"load", "write"} => x.copy.paymentId = x.payment
      /\ x.pc = "write" => x.cols = Diff(x.copy, row)
      /\ x.kind = "retry" /\ x.pc \in {"create", "load", "write"}
           => row.paymentId = Null \/ payment[row.paymentId].status \in Closed

TrackOK(h) == HoldsCopy(h) /\ handler[h].user \notin raced => Alone(h) /\ Follows(h)

\* A webhook is about a payment that came to its end; a request not made is of no kind.
HookOK(h) ==
    /\ handler[h].pc = "idle" <=> handler[h].kind = Null
    /\ handler[h].kind = "hook" /\ Active(h) =>
         /\ handler[h].payment \in Payments /\ payment[handler[h].payment].status \in Closed
         /\ handler[h].pc \in {"read", "load", "write"} =>
              /\ handler[h].user = payment[handler[h].payment].user
              /\ handler[h].paid <=> payment[handler[h].payment].status = "paid"
         /\ handler[h].pc \in {"load", "write"} => handler[h].copy.hasPaidEntryFee = handler[h].paid

\* The open payments of a member are the one on the account and the one that a retry
\* is about to note there.
Excused(u) == \E h \in Handlers : /\ handler[h].user = u
                                  /\ handler[h].kind = "start" \/ At(h, "retry", "lost")
Restarted(h, u, p) == /\ handler[h].kind = "retry" /\ handler[h].pc \in {"load", "write"}
                      /\ handler[h].user = u /\ handler[h].payment = p
OpenOf(p, u) == payment[p].user = u /\ payment[p].status \in Open
Opens(u) == \A p \in Payments : OpenOf(p, u) =>
                account[u].paymentId = p \/ \E h \in Handlers : Restarted(h, u, p)
OpenInv == \A u \in Users \ raced : Excused(u) \/ Opens(u)

HoldInv == \A h \in Handlers : TrackOK(h) /\ HookOK(h)
DueInv == \A p \in due : payment[p].status \in Closed
TrackInv == HoldInv /\ DueInv /\ OpenInv

\* A payment that came to its end is left as it is.
Settles == \A p \in Payments : payment[p].status \in Closed => payment'[p] = payment[p]

\* One request moves, on accounts that stay as they are: it is enough to look at it.
LEMMA HoldMove ==
    ASSUME FeeInv, HoldInv, Settles, NEW h \in Handlers, NEW x \in Handler,
           handler' = [handler EXCEPT ![h] = x], raced \subseteq raced', account' = account,
           HoldsCopy(h)' => (HoldsCopy(h) /\ x.user = handler[h].user) \/ Reads(h, x.user),
           HoldsCopy(h)' /\ x.user \notin raced' => Follows(h)',
           HookOK(h)'
    PROVE  HoldInv'
<1>1. /\ handler'[h] = x /\ \A k \in Handlers \ {h} : handler'[k] = handler[k]
      /\ \A k \in Handlers \ {h} : HoldsCopy(k)' <=> HoldsCopy(k)
  BY DEF FeeInv, TypeOK, HoldsCopy
<1>2. \A k \in Handlers \ {h} : HoldsCopy(k) /\ HoldsCopy(h)' /\ handler[k].user = x.user
         => x.user \in raced'
  <2> SUFFICES ASSUME NEW k \in Handlers \ {h}, HoldsCopy(k), HoldsCopy(h)', handler[k].user = x.user
               PROVE  x.user \in raced'
    OBVIOUS
  <2>1. CASE HoldsCopy(h) /\ x.user = handler[h].user
    BY <2>1 DEF HoldInv, TrackOK, Alone
  <2>2. CASE Reads(h, x.user)
    <3>1. Held(h, x.user)
      BY DEF Held, HoldsCopy
    <3> QED  BY <2>2, <3>1 DEF Reads
  <2> QED  BY <2>1, <2>2
<1>3. ASSUME NEW k \in Handlers PROVE TrackOK(k)'
  <2>1. CASE k = h
    <3>1. HoldsCopy(h)' /\ x.user \notin raced' => Alone(h)'
      BY <1>1, <1>2 DEF Alone
    <3> QED  BY <1>1, <2>1, <3>1 DEF TrackOK
  <2>2. CASE k # h
    <3> SUFFICES ASSUME HoldsCopy(k)', handler'[k].user \notin raced'
                 PROVE  Alone(k)' /\ Follows(k)'
      BY DEF TrackOK
    <3>1. HoldsCopy(k) /\ handler'[k] = handler[k] /\ handler[k].user \notin raced
      BY <1>1, <2>2
    <3>2. Alone(k) /\ Follows(k)
      BY <3>1 DEF HoldInv, TrackOK
    <3>3. Alone(k)'
      BY <1>1, <1>2, <2>2, <3>1, <3>2 DEF Alone
    <3>4. account[handler[k].user] \in Account
      BY <3>1 DEF FeeInv, TypeOK, HandlerOK
    <3>5. account[handler[k].user].paymentId = Null
          \/ account[handler[k].user].paymentId \in Payments
      BY <3>4 DEF Account
    <3>6. Follows(k)'
      BY <3>1, <3>2, <3>5 DEF Follows, Settles
    <3> QED  BY <3>3, <3>6
  <2> QED  BY <2>1, <2>2
<1>4. ASSUME NEW k \in Handlers PROVE HookOK(k)'
  <2>1. CASE k = h
    BY <2>1
  <2>2. CASE k # h
    BY <1>1, <2>2 DEF HoldInv, HookOK, Active, Settles
  <2> QED  BY <2>1, <2>2
<1> QED  BY <1>3, <1>4 DEF HoldInv

\* The open payments after the step of one request.
LEMMA OpenMove ==
    ASSUME FeeInv, OpenInv, NEW h \in Handlers, NEW x \in Handler,
           handler' = [handler EXCEPT ![h] = x], raced \subseteq raced',
           handler[h].pc # "lost",
           handler[h].kind = "start" => x.kind = "start" /\ x.user = handler[h].user,
           \A u \in Users \ raced', p \in Payments : OpenOf(p, u)' =>
              \/ OpenOf(p, u)
              \/ x.user = u /\ x.kind = "start"
              \/ Restarted(h, u, p)',
           \A u \in Users \ raced', p \in Payments : OpenOf(p, u)' /\ account[u].paymentId = p =>
              account'[u].paymentId = p \/ (x.user = u /\ x.kind = "start"),
           \A u \in Users \ raced', p \in Payments : Restarted(h, u, p) =>
              Restarted(h, u, p)' \/ account'[u].paymentId = p
    PROVE  OpenInv'
<1>1. handler'[h] = x /\ \A k \in Handlers \ {h} : handler'[k] = handler[k]
  BY DEF FeeInv, TypeOK
<1> SUFFICES ASSUME NEW u \in Users \ raced', ~Excused(u)', NEW p \in Payments, OpenOf(p, u)'
             PROVE  account'[u].paymentId = p \/ \E k \in Handlers : Restarted(k, u, p)'
  BY DEF OpenInv, Opens
<1>2. ~Excused(u)
  BY <1>1 DEF Excused, At
<1>3. ~(x.user = u /\ x.kind = "start")
  BY <1>1 DEF Excused
<1>4. CASE Restarted(h, u, p)'
  BY <1>4
<1>5. CASE OpenOf(p, u)
  <2>1. account[u].paymentId = p \/ \E k \in Handlers : Restarted(k, u, p)
    BY <1>2, <1>5 DEF OpenInv, Opens
  <2>2. CASE account[u].paymentId = p
    BY <1>3, <2>2
  <2>3. ASSUME NEW k \in Handlers, Restarted(k, u, p)
        PROVE  account'[u].paymentId = p \/ \E j \in Handlers : Restarted(j, u, p)'
    <3>1. CASE k = h
      BY <2>3, <3>1
    <3>2. CASE k # h
      BY <1>1, <2>3, <3>2 DEF Restarted
    <3> QED  BY <3>1, <3>2
  <2> QED  BY <2>1, <2>2, <2>3
<1> QED  BY <1>3, <1>4, <1>5

LEMMA InitTrack == Init => TrackInv
<1> SUFFICES ASSUME Init PROVE TrackInv
  OBVIOUS
<1>1. \A h \in Handlers : handler[h] = NoHandler /\ NoHandler.pc = "idle" /\ NoHandler.kind = Null
  BY DEF Init, NoHandler
<1>2. HoldInv
  BY <1>1 DEF HoldInv, TrackOK, HookOK, HoldsCopy, Active
<1>3. DueInv
  BY DEF Init, DueInv
<1>4. \A u \in Users, p \in Payments : OpenOf(p, u) => account[u].paymentId = p
  <2> SUFFICES ASSUME NEW u \in Users, NEW p \in Payments, OpenOf(p, u)
               PROVE  account[u].paymentId = p
    OBVIOUS
  <2>1. payment[p].status # "none" /\ payment[p].user = u
    BY DEF OpenOf, Open
  <2>2. CASE \E v \in Users : account[v].paymentId = p
    BY <2>1, <2>2 DEF Init
  <2>3. CASE ~\E v \in Users : account[v].paymentId = p
    <3>1. payment[p] = [status |-> "none", user |-> Null]
      BY <2>3 DEF Init
    <3> QED  BY <2>1, <3>1
  <2> QED  BY <2>2, <2>3
<1> QED  BY <1>2, <1>3, <1>4 DEF TrackInv, OpenInv, Opens

-----------------------------------------------------------------------------
LEMMA EndFields ==
    ASSUME NEW h, NEW how
    PROVE  /\ End(h, how).kind = handler[h].kind /\ End(h, how).pc = how
           /\ End(h, how).user = handler[h].user /\ End(h, how).payment = handler[h].payment
  BY DEF End, NoHandler

\* A request begins.
LEMMA TrackBegin ==
    ASSUME FeeInv, TrackInv, NEW h \in Handlers, NEW kind \in AllKinds, NEW pc, NEW u, NEW p,
           Begin(h, kind, pc, u, p),
           \/ kind = "hook" /\ pc = "get" /\ u = Null /\ p \in due
           \/ kind # "hook" /\ pc \in {"create", "read"} /\ u \in Users /\ p = Null,
           kind = "start" => pc = "create", kind = "retry" => pc = "read",
           kind = "other" => pc = "read",
           UNCHANGED <<payment, account, mailed, raced>>, due' \subseteq due
    PROVE  TrackInv'
<1> DEFINE x == [NoHandler EXCEPT !.kind = kind, !.pc = pc, !.user = u, !.payment = p]
<1>1. /\ handler \in [Handlers -> Handler] /\ due \subseteq Payments /\ HoldInv /\ DueInv /\ OpenInv
      /\ handler[h].pc = "idle" /\ UNCHANGED <<payment, account, raced>>
  BY DEF FeeInv, TypeOK, TrackInv, Begin
<1>2. x \in Handler
  BY <1>1 DEF NoHandler, NoAccount, Handler, Account, Pcs, FeeInv
<1>3. handler' = [handler EXCEPT ![h] = x]
  BY DEF Begin
<1>4. x.kind = kind /\ x.pc = pc /\ x.user = u /\ x.payment = p
  BY DEF NoHandler
<1> HIDE DEF x
<1>5. handler'[h] = x
  BY <1>1, <1>3
<1>6. ~HoldsCopy(h)'
  BY <1>4, <1>5 DEF HoldsCopy, AllKinds
<1>7. HookOK(h)'
  BY <1>1, <1>4, <1>5, NullAssumption DEF HookOK, DueInv
<1>8. Settles
  BY <1>1 DEF Settles
<1>9. HoldInv'
  BY <1>1, <1>2, <1>3, <1>6, <1>7, <1>8, HoldMove
<1>10. handler[h].kind = Null
  BY <1>1 DEF HoldInv, HookOK
<1>11. OpenInv'
  <2>1. /\ handler[h].pc # "lost" /\ handler[h].kind # "start"
        /\ \A v \in Users \ raced', q \in Payments : ~Restarted(h, v, q)
    BY <1>1, <1>10, NullAssumption DEF Restarted, AllKinds
  <2>2. \A v \in Users \ raced', q \in Payments : OpenOf(q, v)' => OpenOf(q, v)
    BY <1>1 DEF OpenOf
  <2>3. \A v \in Users : account'[v].paymentId = account[v].paymentId
    BY <1>1
  <2> QED  BY <1>1, <1>2, <1>3, <2>1, <2>2, <2>3, OpenMove
<1> QED  BY <1>1, <1>9, <1>11 DEF TrackInv, DueInv
\* What a request and its account are, from the types.
LEMMA HandlerTyped ==
    ASSUME FeeInv, NEW h \in Handlers
    PROVE  /\ handler \in [Handlers -> Handler] /\ handler[h] \in Handler
           /\ handler[h].copy \in Account /\ handler[h].kind \in AllKinds \union {Null}
           /\ handler[h].user \in Users =>
                /\ account[handler[h].user] \in Account
                /\ Backed(payment, account[handler[h].user], handler[h].user)
           /\ HoldsCopy(h) => handler[h].user \in Users
           /\ handler[h].kind # "hook" /\ Active(h) => handler[h].user \in Users
  BY DEF FeeInv, TypeOK, Handler, HandlerOK

\* The select of a save.
LEMMA TrackSave ==
    ASSUME FeeInv, TrackInv, NEW h \in Handlers, SaveUser(h)
    PROVE  TrackInv'
<1> DEFINE u == handler[h].user
           diff == Diff(handler[h].copy, account[u])
           x == IF diff = {} THEN End(h, "done")
                ELSE [handler[h] EXCEPT !.pc = "write", !.cols = diff]
<1>1. /\ handler[h].pc = "load" /\ UNCHANGED <<payment, due, account, mailed, raced>>
      /\ handler' = [handler EXCEPT ![h] = x]
  BY DEF SaveUser
<1>2. /\ handler \in [Handlers -> Handler] /\ handler[h] \in Handler /\ HoldsCopy(h)
      /\ u \in Users /\ account[u] \in Account /\ handler[h].copy \in Account
  BY <1>1, HandlerTyped DEF HoldsCopy
<1>3. TrackOK(h) /\ HookOK(h) /\ HoldInv /\ DueInv /\ OpenInv
  BY DEF TrackInv, HoldInv
<1>4. /\ End(h, "done") \in Handler /\ End(h, "done").pc = "done"
      /\ End(h, "done").kind = handler[h].kind /\ End(h, "done").user = u
  BY EndType, EndFields DEF FeeInv
<1>5. /\ x \in Handler /\ x.kind = handler[h].kind /\ x.user = u
      /\ \/ diff = {} /\ x.pc = "done"
         \/ /\ x.pc = "write" /\ x.cols = diff /\ x.copy = handler[h].copy
            /\ x.paid = handler[h].paid /\ x.payment = handler[h].payment
  <2>1. diff \in SUBSET Columns
    BY DEF Diff
  <2> HIDE DEF diff
  <2> QED  BY <1>2, <1>4, <2>1 DEF Handler, Pcs
<1> HIDE DEF x
<1>6. handler'[h] = x /\ Settles
  BY <1>1, <1>2 DEF Settles
<1>7. HoldsCopy(h)' /\ x.user \notin raced' => Follows(h)'
  <2> SUFFICES ASSUME HoldsCopy(h)', x.user \notin raced' PROVE Follows(h)'
    OBVIOUS
  <2>1. Follows(h)
    BY <1>1, <1>2, <1>3, <1>5 DEF TrackOK
  <2>2. x.pc = "write"
    BY <1>5, <1>6 DEF HoldsCopy
  <2> HIDE DEF diff
  <2>3. /\ x.kind = handler[h].kind /\ x.user = u /\ x.pc = "write" /\ x.cols = diff
        /\ x.copy = handler[h].copy /\ x.payment = handler[h].payment
    BY <1>5, <2>2
  <2>4. x.cols = Diff(x.copy, account[u])
    BY <2>3 DEF diff
  <2> QED  BY <1>1, <1>6, <2>1, <2>3, <2>4 DEF Follows
<1>8. HookOK(h)'
  BY <1>1, <1>3, <1>5, <1>6 DEF HookOK, Active
<1>9. HoldInv'
  BY <1>1, <1>2, <1>3, <1>5, <1>6, <1>7, <1>8, HoldMove
<1>10. \A v \in Users \ raced', p \in Payments : Restarted(h, v, p) =>
          Restarted(h, v, p)' \/ account'[v].paymentId = p
  <2> SUFFICES ASSUME NEW v \in Users \ raced', NEW p \in Payments, Restarted(h, v, p)
               PROVE  Restarted(h, v, p)' \/ account'[v].paymentId = p
    OBVIOUS
  <2>1. CASE x.pc = "write"
    BY <1>5, <1>6, <2>1 DEF Restarted
  <2>2. CASE diff = {}
    <3>1. handler[h].copy.paymentId = p /\ v = u
      BY <1>1, <1>2, <1>3 DEF TrackOK, Follows, Restarted
    <3>2. handler[h].copy.paymentId = account[u].paymentId
      BY <2>2 DEF Diff, Columns
    <3> QED  BY <1>1, <3>1, <3>2
  <2> QED  BY <1>5, <2>1, <2>2
<1>11. OpenInv'
  <2>1. \A v \in Users \ raced', p \in Payments : OpenOf(p, v)' => OpenOf(p, v)
    BY <1>1 DEF OpenOf
  <2>2. \A v \in Users : account'[v].paymentId = account[v].paymentId
    BY <1>1
  <2> QED  BY <1>1, <1>3, <1>5, <1>10, <2>1, <2>2, OpenMove
<1> QED  BY <1>1, <1>3, <1>9, <1>11 DEF TrackInv, DueInv

\* The update writes what the request holds: that is all that has become of the row.
LEMMA Overwrites ==
    ASSUME NEW row \in Account, NEW copy \in Account
    PROVE  Written(row, copy, Diff(copy, row)) = copy
<1> DEFINE new == Written(row, copy, Diff(copy, row))
<1>1. new.paymentId = copy.paymentId /\ new.hasPaidEntryFee = copy.hasPaidEntryFee
  BY DEF Written, Diff, Columns
<1>2. new \in Account
  BY WrittenType
<1> QED  BY <1>1, <1>2 DEF Account

LEMMA TrackUpdate ==
    ASSUME FeeInv, TrackInv, NEW h \in Handlers, UpdateUser(h)
    PROVE  TrackInv'
<1> DEFINE u == handler[h].user
           x == End(h, "done")
<1>1. /\ handler[h].pc = "write" /\ UNCHANGED <<payment, due, mailed, raced>>
      /\ account' = [account EXCEPT ![u] = Written(account[u], handler[h].copy, handler[h].cols)]
      /\ handler' = [handler EXCEPT ![h] = x]
  BY DEF UpdateUser
<1>2. /\ handler \in [Handlers -> Handler] /\ handler[h] \in Handler /\ HoldsCopy(h)
      /\ u \in Users /\ account[u] \in Account /\ handler[h].copy \in Account
      /\ account \in [Users -> Account]
  BY <1>1, HandlerTyped DEF HoldsCopy, FeeInv, TypeOK
<1>3. TrackOK(h) /\ HookOK(h) /\ HoldInv /\ DueInv /\ OpenInv
  BY DEF TrackInv, HoldInv
<1>4. /\ x \in Handler /\ x.pc = "done" /\ x.kind = handler[h].kind /\ x.user = u
  BY EndType, EndFields DEF FeeInv
<1> HIDE DEF x
<1>5. /\ handler'[h] = x /\ \A k \in Handlers \ {h} : handler'[k] = handler[k]
      /\ \A v \in Users \ {u} : account'[v] = account[v]
      /\ payment' = payment /\ raced' = raced
  BY <1>1, <1>2
<1>6. u \notin raced => account'[u] = handler[h].copy
  BY <1>1, <1>2, <1>3, Overwrites DEF TrackOK, Follows
<1>7. ~HoldsCopy(h)' /\ HookOK(h)'
  BY <1>1, <1>3, <1>4, <1>5 DEF HoldsCopy, HookOK, Active
<1>8. ASSUME NEW k \in Handlers \ {h} PROVE TrackOK(k)' /\ HookOK(k)'
  <2>1. HookOK(k)'
    BY <1>3, <1>5 DEF HoldInv, HookOK, Active
  <2>2. ASSUME HoldsCopy(k)', handler'[k].user \notin raced' PROVE Alone(k)' /\ Follows(k)'
    <3>1. HoldsCopy(k) /\ handler[k].user \notin raced /\ handler[k].user \in Users
      BY <1>5, <2>2, HandlerTyped DEF HoldsCopy
    <3>2. Alone(k) /\ Follows(k)
      BY <1>3, <3>1 DEF HoldInv, TrackOK
    <3>3. handler[k].user # u
      BY <1>2, <3>2 DEF Alone
    <3>4. Alone(k)'
      BY <1>5, <1>7, <3>2 DEF Alone, HoldsCopy
    <3>5. account'[handler[k].user] = account[handler[k].user]
      BY <1>5, <3>1, <3>3
    <3>6. Follows(k)'
      BY <1>5, <3>2, <3>5 DEF Follows
    <3> QED  BY <3>4, <3>6
  <2> QED  BY <2>1, <2>2 DEF TrackOK
<1>9. HoldInv'
  BY <1>7, <1>8 DEF HoldInv, TrackOK
<1>10. OpenInv'
  <2>1. \A v \in Users \ raced', p \in Payments : OpenOf(p, v)' => OpenOf(p, v)
    BY <1>5 DEF OpenOf
  <2>2. \A v \in Users \ raced', p \in Payments : OpenOf(p, v)' /\ account[v].paymentId = p =>
           account'[v].paymentId = p \/ (x.user = v /\ x.kind = "start")
    <3> SUFFICES ASSUME NEW v \in Users \ raced', NEW p \in Payments, OpenOf(p, v)',
                        account[v].paymentId = p
                 PROVE  account'[v].paymentId = p \/ (x.user = v /\ x.kind = "start")
      OBVIOUS
    <3>1. CASE v # u
      BY <1>5, <3>1
    <3>2. CASE v = u
      <4>1. Follows(h) /\ account'[u] = handler[h].copy
        BY <1>2, <1>3, <1>5, <1>6, <3>2 DEF TrackOK
      <4>2. CASE handler[h].kind = "start"
        BY <1>4, <3>2, <4>2
      <4>3. CASE handler[h].kind \in {"hook", "other"}
        BY <3>2, <4>1, <4>3 DEF Follows
      <4>4. CASE handler[h].kind = "retry"
        <5>1. account[u].paymentId = Null \/ payment[account[u].paymentId].status \in Closed
          BY <1>1, <4>1, <4>4 DEF Follows
        <5>2. payment[p].status \in Open /\ p # Null
          BY <1>5, NullAssumption DEF OpenOf
        <5> QED  BY <3>2, <5>1, <5>2 DEF Open, Closed
      <4>5. handler[h].kind # Null
        BY <1>1, <1>3 DEF HookOK
      <4> QED  BY <4>2, <4>3, <4>4, <4>5, HandlerTyped DEF AllKinds
    <3> QED  BY <3>1, <3>2
  <2>3. \A v \in Users \ raced', p \in Payments : Restarted(h, v, p) =>
           Restarted(h, v, p)' \/ account'[v].paymentId = p
    BY <1>2, <1>3, <1>5, <1>6 DEF TrackOK, Follows, Restarted
  <2> QED  BY <1>1, <1>2, <1>3, <1>4, <2>1, <2>2, <2>3, OpenMove
<1> QED  BY <1>1, <1>3, <1>9, <1>10 DEF TrackInv, DueInv
\* A step of a request in progress that reads, asks or creates: it is of the kind it
\* was, the accounts stay, and what payment is new is its own.
LEMMA TrackStep ==
    ASSUME FeeInv, TrackInv, NEW h \in Handlers, NEW x \in Handler,
           handler' = [handler EXCEPT ![h] = x], Settles, UNCHANGED <<due, account>>,
           Active(h), handler[h].pc \notin {"load", "write"},
           x.kind = handler[h].kind, x.user = handler[h].user \/ x.kind = "hook",
           raced \subseteq raced',
           HoldsCopy(h)' => (HoldsCopy(h) /\ x.user = handler[h].user) \/ Reads(h, x.user),
           HoldsCopy(h)' /\ x.user \notin raced' => Follows(h)',
           HookOK(h)',
           \A u \in Users, p \in Payments : OpenOf(p, u)' =>
              \/ OpenOf(p, u)
              \/ x.user = u /\ x.kind = "start"
              \/ Restarted(h, u, p)'
    PROVE  TrackInv'
<1>1. HoldInv /\ DueInv /\ OpenInv /\ due \subseteq Payments
  BY DEF TrackInv, FeeInv, TypeOK
<1>2. HoldInv'
  BY <1>1, HoldMove
<1>3. DueInv'
  BY <1>1 DEF DueInv, Settles
<1>4. /\ handler[h].pc # "lost"
      /\ handler[h].kind = "start" => x.user = handler[h].user
      /\ \A u \in Users \ raced', p \in Payments : ~Restarted(h, u, p)
      /\ \A u \in Users : account'[u].paymentId = account[u].paymentId
  BY DEF Active, Restarted
<1>5. OpenInv'
  BY <1>1, <1>4, OpenMove
<1> QED  BY <1>2, <1>3, <1>5 DEF TrackInv

\* Creating a payment.
LEMMA Creates ==
    ASSUME FeeInv, NEW p \in Payments, NEW u \in Users, NewPayment(p, u)
    PROVE  /\ Settles /\ payment[p].status = "none"
           /\ \A q \in Payments \ {p} : payment'[q] = payment[q]
           /\ payment'[p].user = u
           /\ \A v \in Users, q \in Payments : OpenOf(q, v)' => OpenOf(q, v) \/ (q = p /\ v = u)
<1>1. payment \in [Payments -> Payment] /\ payment[p].status = "none"
        /\ payment' = [payment EXCEPT ![p] = [status |-> "open", user |-> u]]
  BY DEF FeeInv, TypeOK, NewPayment
<1>2. payment'[p].user = u /\ \A q \in Payments \ {p} : payment'[q] = payment[q]
  BY <1>1
<1>3. Settles
  BY <1>1, <1>2 DEF Settles, Closed
<1> QED  BY <1>1, <1>2, <1>3 DEF OpenOf

LEMMA TrackStart ==
    ASSUME FeeInv, TrackInv, NEW h \in Handlers, NEW p \in Payments, StartCreate(h, p)
    PROVE  TrackInv'
<1> DEFINE u == handler[h].user
           x == [handler[h] EXCEPT !.pc = "read", !.payment = p]
<1>1. /\ handler[h].kind = "start" /\ handler[h].pc = "create" /\ NewPayment(p, u)
      /\ handler' = [handler EXCEPT ![h] = x] /\ UNCHANGED <<due, account, mailed, raced>>
  BY DEF StartCreate, At
<1>2. /\ handler \in [Handlers -> Handler] /\ handler[h] \in Handler /\ Active(h) /\ u \in Users
      /\ HookOK(h)
  BY <1>1, HandlerTyped DEF Active, TrackInv, HoldInv
<1>3. x \in Handler /\ x.kind = "start" /\ x.pc = "read" /\ x.user = u
  BY <1>1, <1>2 DEF Handler, Pcs
<1> HIDE DEF x
<1>4. handler'[h] = x
  BY <1>1, <1>2
<1>5. ~HoldsCopy(h)' /\ HookOK(h)'
  BY <1>1, <1>2, <1>3, <1>4 DEF HoldsCopy, HookOK
<1>6. \A v \in Users, q \in Payments : OpenOf(q, v)' =>
         OpenOf(q, v) \/ (x.user = v /\ x.kind = "start")
  BY <1>1, <1>2, <1>3, Creates
<1>7. Settles
  BY <1>1, <1>2, Creates
<1> QED  BY <1>1, <1>2, <1>3, <1>5, <1>6, <1>7, TrackStep

LEMMA TrackRestart ==
    ASSUME FeeInv, TrackInv, NEW h \in Handlers, NEW p \in Payments, RestartPayment(h, p)
    PROVE  TrackInv'
<1> DEFINE u == handler[h].user
           c == [handler[h].copy EXCEPT !.paymentId = p]
           x == [handler[h] EXCEPT !.pc = "load", !.payment = p, !.copy = c]
<1>1. /\ handler[h].kind = "retry" /\ handler[h].pc = "create" /\ NewPayment(p, u)
      /\ handler' = [handler EXCEPT ![h] = x] /\ UNCHANGED <<due, account, mailed, raced>>
  BY DEF RestartPayment, At
<1>2. /\ handler \in [Handlers -> Handler] /\ handler[h] \in Handler /\ Active(h) /\ u \in Users
      /\ HookOK(h) /\ TrackOK(h) /\ HoldsCopy(h) /\ handler[h].copy \in Account
      /\ account[u] \in Account
  BY <1>1, HandlerTyped DEF Active, TrackInv, HoldInv, HoldsCopy
<1>3. c \in Account /\ c.paymentId = p /\ c.hasPaidEntryFee = handler[h].copy.hasPaidEntryFee
  BY <1>2 DEF Account
<1> HIDE DEF c
<1>4. /\ x \in Handler /\ x.kind = "retry" /\ x.pc = "load" /\ x.user = u
      /\ x.payment = p /\ x.copy = c
  BY <1>1, <1>2, <1>3 DEF Handler, Pcs
<1> HIDE DEF x
<1>5. handler'[h] = x /\ account' = account
  BY <1>1, <1>2
<1>6. HookOK(h)'
  BY <1>1, <1>2, <1>4, <1>5 DEF HookOK
<1>7. /\ Settles /\ payment[p].status = "none" /\ \A q \in Payments \ {p} : payment'[q] = payment[q]
      /\ \A v \in Users, q \in Payments : OpenOf(q, v)' => OpenOf(q, v) \/ (q = p /\ v = u)
  BY <1>1, <1>2, Creates
<1>8. \A v \in Users, q \in Payments : OpenOf(q, v)' => OpenOf(q, v) \/ Restarted(h, v, q)'
  BY <1>4, <1>5, <1>7 DEF Restarted
<1>9. u \notin raced' => Follows(h)'
  <2> SUFFICES ASSUME u \notin raced' PROVE Follows(h)'
    OBVIOUS
  <2>1. Follows(h)
    BY <1>1, <1>2 DEF TrackOK
  <2>2. /\ handler[h].copy.hasPaidEntryFee = account[u].hasPaidEntryFee
        /\ account[u].paymentId = Null \/ payment[account[u].paymentId].status \in Closed
    BY <1>1, <2>1 DEF Follows
  <2>3. account[u].paymentId = Null \/ payment'[account[u].paymentId].status \in Closed
    BY <1>2, <1>7, <2>2 DEF Settles, Account
  <2> QED  BY <1>3, <1>4, <1>5, <2>2, <2>3 DEF Follows
<1> QED  BY <1>1, <1>2, <1>4, <1>6, <1>7, <1>8, <1>9, TrackStep

\* A read: the copy is what the row holds, but for what the request is about.
LEMMA TrackRead ==
    ASSUME FeeInv, TrackInv, NEW h \in Handlers,
           StartRead(h) \/ RetryRead(h) \/ OtherRead(h) \/ HookRead(h)
    PROVE  TrackInv'
<1> DEFINE u == handler[h].user
           c == CASE At(h, "start", "read") -> [account[u] EXCEPT !.paymentId = handler[h].payment]
                  [] At(h, "hook", "read") -> [account[u] EXCEPT !.hasPaidEntryFee = handler[h].paid]
                  [] OTHER -> account[u]
           pc == IF handler[h].kind = "retry" THEN "get" ELSE "load"
           x == [handler[h] EXCEPT !.pc = pc, !.copy = c]
<1>1. /\ handler[h].pc = "read" /\ handler[h].kind \in AllKinds
      /\ handler' = [handler EXCEPT ![h] = x] /\ Reads(h, u)
      /\ UNCHANGED <<payment, due, account>>
  BY DEF StartRead, RetryRead, OtherRead, HookRead, At, AllKinds
<1>2. /\ handler \in [Handlers -> Handler] /\ handler[h] \in Handler /\ Active(h) /\ u \in Users
      /\ HookOK(h) /\ account[u] \in Account /\ HandlerOK(h)
  BY <1>1, HandlerTyped DEF Active, TrackInv, HoldInv, FeeInv, HandlerOK
<1>3. c \in Account
  BY <1>1, <1>2, NullAssumption DEF Account, Handler, HandlerOK, At, Own
<1>4. /\ handler[h].kind # "hook" => c.hasPaidEntryFee = account[u].hasPaidEntryFee
      /\ handler[h].kind # "start" => c.paymentId = account[u].paymentId
      /\ handler[h].kind = "hook" => c.hasPaidEntryFee = handler[h].paid
  BY <1>1, <1>2 DEF At, Account
<1> HIDE DEF c
<1>5. /\ x \in Handler /\ x.kind = handler[h].kind /\ x.user = u /\ x.paid = handler[h].paid
      /\ x.pc = pc /\ x.payment = handler[h].payment /\ x.copy = c
  BY <1>1, <1>2, <1>3 DEF Handler, Pcs
<1> HIDE DEF x
<1>6. handler'[h] = x /\ account' = account /\ payment' = payment /\ Settles
  BY <1>1, <1>2 DEF Settles
<1>7. HookOK(h)'
  BY <1>1, <1>2, <1>4, <1>5, <1>6, NullAssumption DEF HookOK, Active
<1>8. Follows(h)'
  BY <1>1, <1>4, <1>5, <1>6 DEF Follows, AllKinds
<1>9. \A v \in Users, q \in Payments : OpenOf(q, v)' => OpenOf(q, v)
  BY <1>6 DEF OpenOf
<1>10. raced \subseteq raced' /\ UNCHANGED <<due, account>>
  BY <1>1 DEF Reads
<1> QED  BY <1>1, <1>2, <1>5, <1>6, <1>7, <1>8, <1>9, <1>10, TrackStep
\* A retry asks for the payment on the account.
LEMMA TrackGet ==
    ASSUME FeeInv, TrackInv, NEW h \in Handlers, RetryGet(h)
    PROVE  TrackInv'
<1> DEFINE u == handler[h].user
           x == [handler[h] EXCEPT !.pc = "create"]
           e == End(h, "done")
<1>1. /\ handler[h].kind = "retry" /\ handler[h].pc = "get"
      /\ UNCHANGED <<payment, due, account, mailed, raced>>
      /\ \/ handler' = [handler EXCEPT ![h] = e]
         \/ /\ handler' = [handler EXCEPT ![h] = x]
            /\ handler[h].copy.paymentId = Null
               \/ payment[handler[h].copy.paymentId].status \notin Open
  BY DEF RetryGet, At
<1>2. /\ handler \in [Handlers -> Handler] /\ handler[h] \in Handler /\ Active(h) /\ u \in Users
      /\ HookOK(h) /\ TrackOK(h) /\ HoldsCopy(h) /\ handler[h].copy \in Account
      /\ account[u] \in Account /\ Backed(payment, account[u], u)
  BY <1>1, HandlerTyped DEF Active, TrackInv, HoldInv, HoldsCopy
<1>3. /\ x \in Handler /\ x.kind = "retry" /\ x.pc = "create" /\ x.user = u
      /\ x.copy = handler[h].copy
  BY <1>1, <1>2 DEF Handler, Pcs
<1>4. e \in Handler /\ e.kind = "retry" /\ e.pc = "done" /\ e.user = u
  BY <1>1, EndType, EndFields DEF FeeInv
<1> HIDE DEF x, e
<1>5. Settles /\ account' = account /\ payment' = payment /\ raced' = raced
      /\ \A v \in Users, q \in Payments : OpenOf(q, v)' => OpenOf(q, v)
  BY <1>1 DEF Settles, OpenOf
<1>6. CASE handler' = [handler EXCEPT ![h] = e]
  <2>1. handler'[h] = e
    BY <1>2, <1>6
  <2>2. ~HoldsCopy(h)' /\ HookOK(h)'
    BY <1>1, <1>2, <1>4, <2>1 DEF HoldsCopy, HookOK
  <2> QED  BY <1>1, <1>2, <1>4, <1>5, <1>6, <2>2, TrackStep
<1>7. CASE /\ handler' = [handler EXCEPT ![h] = x]
           /\ handler[h].copy.paymentId = Null
              \/ payment[handler[h].copy.paymentId].status \notin Open
  <2>1. handler'[h] = x
    BY <1>2, <1>7
  <2>2. HookOK(h)'
    BY <1>1, <1>2, <1>3, <2>1 DEF HookOK
  <2>3. u \notin raced' => Follows(h)'
    <3> SUFFICES ASSUME u \notin raced' PROVE Follows(h)'
      OBVIOUS
    <3>1. Follows(h)
      BY <1>2, <1>5 DEF TrackOK
    <3>2. /\ handler[h].copy.hasPaidEntryFee = account[u].hasPaidEntryFee
          /\ handler[h].copy.paymentId = account[u].paymentId
      BY <1>1, <3>1 DEF Follows
    <3>3. ASSUME account[u].paymentId # Null
          PROVE  payment[account[u].paymentId].status \in Closed
      <4>1. account[u].paymentId \in Payments /\ payment[account[u].paymentId].user = u
        BY <1>2, <3>3 DEF Backed, Own
      <4>2. payment[account[u].paymentId].status # "none"
        BY <1>2, <4>1, NullAssumption DEF FeeInv, Exists
      <4>3. payment[account[u].paymentId].status \in Statuses
        BY <4>1 DEF FeeInv, TypeOK, Payment
      <4> QED  BY <1>7, <3>2, <3>3, <4>2, <4>3 DEF Statuses
    <3> QED  BY <1>3, <1>5, <2>1, <3>2, <3>3 DEF Follows
  <2> QED  BY <1>1, <1>2, <1>3, <1>5, <1>7, <2>2, <2>3, TrackStep
<1> QED  BY <1>1, <1>6, <1>7

\* A webhook asks for its payment.
LEMMA TrackHookGet ==
    ASSUME FeeInv, TrackInv, NEW h \in Handlers, HookGet(h)
    PROVE  TrackInv'
<1> DEFINE p == handler[h].payment
           x == [handler[h] EXCEPT !.pc = "read", !.user = payment[p].user,
                                   !.paid = payment[p].status = "paid"]
<1>1. /\ handler[h].kind = "hook" /\ handler[h].pc = "get"
      /\ handler' = [handler EXCEPT ![h] = x]
      /\ UNCHANGED <<payment, due, account, mailed, raced>>
  BY DEF HookGet, At
<1>2. /\ handler \in [Handlers -> Handler] /\ handler[h] \in Handler /\ Active(h)
      /\ HookOK(h) /\ HandlerOK(h)
  BY <1>1, HandlerTyped DEF Active, TrackInv, HoldInv, FeeInv
<1>3. p \in Payments /\ payment[p].user \in Users /\ payment[p].status \in Closed
  BY <1>1, <1>2 DEF HandlerOK, HookOK
<1>4. /\ x \in Handler /\ x.kind = "hook" /\ x.pc = "read" /\ x.user = payment[p].user
      /\ x.payment = p /\ (x.paid <=> payment[p].status = "paid")
  BY <1>1, <1>2, <1>3 DEF Handler, Pcs
<1> HIDE DEF x
<1>5. handler'[h] = x /\ Settles /\ payment' = payment /\ raced' = raced
      /\ \A v \in Users, q \in Payments : OpenOf(q, v)' => OpenOf(q, v)
  BY <1>1, <1>2 DEF Settles, OpenOf
<1>6. ~HoldsCopy(h)' /\ HookOK(h)'
  BY <1>1, <1>2, <1>3, <1>4, <1>5 DEF HoldsCopy, HookOK
<1> QED  BY <1>1, <1>2, <1>4, <1>5, <1>6, TrackStep

\* The customer: an open payment goes on, and a closed one is due.
LEMMA TrackCustomer ==
    ASSUME FeeInv, TrackInv, NEW p \in Payments, CustomerActs(p)
    PROVE  TrackInv'
<1>1. /\ payment \in [Payments -> Payment] /\ payment[p].status \in Open
      /\ UNCHANGED <<account, handler, mailed, raced>>
  BY DEF FeeInv, TypeOK, CustomerActs
<1>2. PICK s \in {"pending"} \union Closed :
         /\ payment' = [payment EXCEPT ![p].status = s]
         /\ due' = due \/ (s \in Closed /\ due' = due \union {p})
  BY DEF CustomerActs
<1>3. /\ \A q \in Payments : payment'[q].user = payment[q].user
      /\ \A q \in Payments \ {p} : payment'[q] = payment[q]
      /\ payment'[p].status = s
  BY <1>1, <1>2 DEF Payment
<1>4. Settles
  BY <1>1, <1>3 DEF Settles, Open, Closed
<1>5. DueInv'
  BY <1>2, <1>3, <1>4 DEF TrackInv, DueInv, Settles, FeeInv, TypeOK
<1>6. \A u \in Users, q \in Payments : OpenOf(q, u)' => OpenOf(q, u)
  BY <1>1, <1>3 DEF OpenOf
<1>7. OpenInv'
  <2>1. \A u \in Users : Excused(u)' <=> Excused(u)
    BY <1>1 DEF Excused, At
  <2>2. \A u \in Users, h \in Handlers, q \in Payments : Restarted(h, u, q)' <=> Restarted(h, u, q)
    BY <1>1 DEF Restarted
  <2> QED  BY <1>1, <1>6, <2>1, <2>2 DEF TrackInv, OpenInv, Opens
<1>8. ASSUME NEW h \in Handlers PROVE TrackOK(h)' /\ HookOK(h)'
  <2>1. TrackOK(h) /\ HookOK(h)
    BY DEF TrackInv, HoldInv
  <2>2. HookOK(h)'
    BY <1>1, <1>4, <2>1 DEF HookOK, Active, Settles
  <2>3. ASSUME HoldsCopy(h)', handler'[h].user \notin raced' PROVE Alone(h)' /\ Follows(h)'
    <3>1. HoldsCopy(h) /\ Alone(h) /\ Follows(h) /\ Alone(h)'
      BY <1>1, <2>1, <2>3 DEF TrackOK, HoldsCopy, Alone
    <3>2. account[handler[h].user] \in Account
      BY <3>1, HandlerTyped
    <3>3. account[handler[h].user].paymentId \in Payments \union {Null}
      BY <3>2 DEF Account
    <3>4. Follows(h)'
      BY <1>1, <1>4, <3>1, <3>3 DEF Follows, Settles
    <3> QED  BY <3>1, <3>4
  <2> QED  BY <2>2, <2>3 DEF TrackOK
<1> QED  BY <1>5, <1>7, <1>8 DEF TrackInv, HoldInv

LEMMA TrackCrash == ASSUME FeeInv, TrackInv, Crash PROVE TrackInv'
<1>1. /\ handler' = [h \in Handlers |-> IF Active(h) THEN End(h, "lost") ELSE handler[h]]
      /\ UNCHANGED <<payment, due, account, mailed, raced>>
  BY DEF Crash
<1>2. \A h \in Handlers : /\ handler'[h].kind = handler[h].kind /\ handler'[h].user = handler[h].user
                          /\ Active(h) => handler'[h].pc = "lost"
                          /\ ~Active(h) => handler'[h] = handler[h]
  BY <1>1, EndFields
<1>3. \A h \in Handlers : ~HoldsCopy(h)' /\ ~Active(h)' /\ (handler'[h].pc = "idle" <=> handler[h].pc = "idle")
  BY <1>2 DEF HoldsCopy, Active
<1>4. HoldInv'
  BY <1>2, <1>3 DEF TrackInv, HoldInv, TrackOK, HookOK
<1>5. DueInv'
  BY <1>1 DEF TrackInv, DueInv
<1>6. \A u \in Users : Excused(u) => Excused(u)'
  <2> SUFFICES ASSUME NEW u \in Users, NEW h \in Handlers, handler[h].user = u,
                      handler[h].kind = "start" \/ At(h, "retry", "lost")
               PROVE  Excused(u)'
    BY DEF Excused
  <2>1. handler'[h].kind = "start" \/ At(h, "retry", "lost")'
    BY <1>2 DEF At, Active
  <2> QED  BY <1>2, <2>1 DEF Excused
<1>7. \A u \in Users, h \in Handlers, p \in Payments : Restarted(h, u, p) => Excused(u)'
  BY <1>2 DEF Restarted, Excused, At, Active
<1>8. OpenInv'
  <2> SUFFICES ASSUME NEW u \in Users \ raced, ~Excused(u)', NEW p \in Payments, OpenOf(p, u)
               PROVE  account[u].paymentId = p
    BY <1>1 DEF OpenInv, Opens, OpenOf
  <2>1. account[u].paymentId = p \/ \E h \in Handlers : Restarted(h, u, p)
    BY <1>6 DEF TrackInv, OpenInv, Opens
  <2> QED  BY <1>7, <2>1
<1> QED  BY <1>4, <1>5, <1>8 DEF TrackInv

LEMMA TrackSteps == FeeInv /\ TrackInv /\ [Next]_vars => TrackInv'
<1> SUFFICES ASSUME FeeInv, TrackInv, [Next]_vars PROVE TrackInv'
  OBVIOUS
<1>1. ASSUME NEW h \in Handlers, HandlerStep(h) PROVE TrackInv'
  BY <1>1, TrackSave, TrackUpdate, TrackStart, TrackRestart, TrackRead, TrackGet, TrackHookGet
     DEF HandlerStep
<1>2. ASSUME NEW h \in Handlers, NEW u \in Users, StartPayment(h, u) PROVE TrackInv'
  BY <1>2, TrackBegin DEF StartPayment, AllKinds
<1>3. ASSUME NEW h \in Handlers, NEW u \in Users, RetryPayment(h, u) PROVE TrackInv'
  BY <1>3, TrackBegin DEF RetryPayment, AllKinds
<1>4. ASSUME NEW h \in Handlers, NEW u \in Users, OtherSave(h, u) PROVE TrackInv'
  BY <1>4, TrackBegin DEF OtherSave, AllKinds
<1>5. ASSUME NEW h \in Handlers, NEW p \in Payments, AcceptWebhook(h, p) PROVE TrackInv'
  <2>1. due' \subseteq due /\ p \in due /\ UNCHANGED <<payment, account, mailed, raced>>
        /\ Begin(h, "hook", "get", Null, p)
    BY <1>5 DEF AcceptWebhook
  <2> QED  BY <2>1, TrackBegin DEF AllKinds
<1>6. CASE UNCHANGED vars
  BY <1>6 DEF vars, TrackInv, HoldInv, TrackOK, HoldsCopy, Alone, Follows, HookOK, Active, DueInv,
              OpenInv, Excused, At, Opens, OpenOf, Restarted
<1> QED
  BY <1>1, <1>2, <1>3, <1>4, <1>5, <1>6, TrackCustomer, TrackCrash DEF Next

LEMMA TrackAlways == Spec => [](FeeInv /\ TrackInv)
<1>1. Init => FeeInv /\ TrackInv
  BY FeeInit, InitTrack
<1>2. (FeeInv /\ TrackInv) /\ [Next]_vars => (FeeInv /\ TrackInv)'
  BY FeeStep, TrackSteps
<1> QED  BY <1>1, <1>2, PTL DEF Spec

\* A member has two payments open only after startPayment, after a retry that died on
\* the way, or after two requests held the account at once (mollie.service.ts).
THEOREM OneIsOpen == Spec => []OneOpenPayment
<1>1. FeeInv /\ TrackInv => OneOpenPayment
  <2> SUFFICES ASSUME FeeInv, TrackInv, NEW p \in Payments, NEW q \in Payments,
                      payment[p].status \in Open, payment[q].status \in Open,
                      payment[p].user = payment[q].user, p # q,
                      payment[p].user \notin raced, ~Excused(payment[p].user)
               PROVE  FALSE
    BY DEF OneOpenPayment, Excused
  <2> DEFINE u == payment[p].user
  <2>1. u \in Users
    BY DEF FeeInv, Exists, TypeOK, Payment, Open
  <2>2. OpenOf(p, u) /\ OpenOf(q, u) /\ Opens(u)
    BY <2>1 DEF OpenOf, TrackInv, OpenInv
  <2>3. \A h \in Handlers, r \in Payments : Restarted(h, u, r) =>
           /\ \A k \in Handlers, s \in Payments : Restarted(k, u, s) => k = h /\ r = s
           /\ account[u].paymentId = Null \/ payment[account[u].paymentId].status \in Closed
    BY DEF Restarted, TrackInv, HoldInv, TrackOK, HoldsCopy, Alone, Follows
  <2>4. ASSUME NEW h \in Handlers, NEW r \in {p, q}, Restarted(h, u, r)
        PROVE  FALSE
    <3>1. account[u].paymentId \notin {p, q}
      BY <2>3, <2>4, NullAssumption DEF Open, Closed
    <3> QED  BY <2>2, <2>3, <2>4, <3>1 DEF Opens
  <2> QED  BY <2>2, <2>4 DEF Opens
<1> QED  BY <1>1, TrackAlways, PTL

\* What a request holds is written as it is on an account that nobody else holds.
LEMMA WritesCopy ==
    ASSUME FeeInv, TrackInv, NEW h \in Handlers, UpdateUser(h), handler[h].user \notin raced
    PROVE  /\ handler[h].user \in Users /\ account'[handler[h].user] = handler[h].copy
           /\ Follows(h) /\ handler[h].copy \in Account
<1>1. /\ handler[h].pc = "write"
      /\ account' = [account EXCEPT ![handler[h].user] =
                       Written(account[handler[h].user], handler[h].copy, handler[h].cols)]
  BY DEF UpdateUser
<1>2. /\ handler[h].user \in Users /\ handler[h].copy \in Account
      /\ account[handler[h].user] \in Account /\ account \in [Users -> Account]
  BY <1>1, HandlerTyped DEF HoldsCopy, FeeInv, TypeOK
<1>3. Follows(h)
  BY <1>1 DEF TrackInv, HoldInv, TrackOK, HoldsCopy
<1>4. handler[h].cols = Diff(handler[h].copy, account[handler[h].user])
  BY <1>1, <1>3 DEF Follows
<1>5. Written(account[handler[h].user], handler[h].copy, handler[h].cols) = handler[h].copy
  BY <1>2, <1>4, Overwrites
<1> QED  BY <1>1, <1>2, <1>3, <1>5

\* A step that takes a paid flag down, on an account that nobody else holds.
LEMMA LostToUnpaid ==
    ASSUME FeeInv, TrackInv, [Next]_vars, NEW u \in Users \ raced',
           account[u].hasPaidEntryFee, ~account'[u].hasPaidEntryFee
    PROVE  \E h \in Handlers : /\ At(h, "hook", "write") /\ handler'[h].pc = "done"
                              /\ handler[h].payment \in Payments
                              /\ payment[handler[h].payment].user = u
                              /\ payment[handler[h].payment].status # "paid"
<1>1. PICK h \in Handlers : UpdateUser(h)
  <2>1. account' # account
    OBVIOUS
  <2> QED
    BY <2>1 DEF Next, HandlerStep, SaveUser, StartCreate, RestartPayment, StartRead, RetryRead,
       RetryGet, HookGet, HookRead, OtherRead, StartPayment, RetryPayment, OtherSave,
       AcceptWebhook, CustomerActs, Crash, vars
<1>2. /\ handler[h].pc = "write" /\ raced' = raced /\ handler \in [Handlers -> Handler]
      /\ account' = [account EXCEPT ![handler[h].user] =
                       Written(account[handler[h].user], handler[h].copy, handler[h].cols)]
      /\ handler' = [handler EXCEPT ![h] = End(h, "done")]
  BY <1>1 DEF UpdateUser, FeeInv, TypeOK
<1>3. handler[h].user = u
  BY <1>2 DEF FeeInv, TypeOK
<1>4. account'[u] = handler[h].copy /\ Follows(h)
  BY <1>1, <1>2, <1>3, WritesCopy
<1>5. handler[h].kind = "hook" /\ HookOK(h)
  BY <1>3, <1>4 DEF Follows, TrackInv, HoldInv
<1>6. /\ handler[h].payment \in Payments /\ u = payment[handler[h].payment].user
      /\ payment[handler[h].payment].status # "paid"
  BY <1>2, <1>3, <1>4, <1>5 DEF HookOK, Active
<1>7. handler'[h].pc = "done"
  BY <1>2, EndFields
<1> QED  BY <1>2, <1>5, <1>6, <1>7 DEF At

\* A paid flag goes down only by the webhook of a payment that ended unpaid, unless two
\* requests held the account at once (processWebhook, mollie.service.ts).
THEOREM PaidIsOnlyLostToUnpaid == Spec => PaidIsLostToUnpaid
<1> DEFINE Lost == \A u \in Users \ raced' :
          account[u].hasPaidEntryFee /\ ~account'[u].hasPaidEntryFee =>
             \E h \in Handlers : /\ At(h, "hook", "write") /\ handler'[h].pc = "done"
                                 /\ payment[handler[h].payment].user = u
                                 /\ payment[handler[h].payment].status # "paid"
<1>1. FeeInv /\ TrackInv /\ [Next]_vars => [Lost]_vars
  BY LostToUnpaid
<1> QED  BY <1>1, TrackAlways, PTL DEF Spec, PaidIsLostToUnpaid

-----------------------------------------------------------------------------
(* No paid payment gets lost.                                              *)

\* The request of a webhook goes on until it has saved the account; nothing else ends it
\* but a crash, which leaves it lost.
LEMMA HookGoesOn ==
    ASSUME FeeInv, TrackInv, [Next]_vars, NEW h \in Handlers,
           handler[h].kind = "hook", handler[h].pc # "done"
    PROVE  /\ handler'[h].kind = "hook" /\ handler'[h].payment = handler[h].payment
           /\ handler'[h].pc # "done" \/ SaveUser(h) \/ UpdateUser(h)
<1>1. handler \in [Handlers -> Handler] /\ handler[h].pc # "idle"
  BY NullAssumption DEF FeeInv, TypeOK, TrackInv, HoldInv, HookOK, AllKinds
<1>2. \A how : End(h, how).kind = "hook" /\ End(h, how).payment = handler[h].payment
                /\ End(h, how).pc = how
  BY EndFields
<1>3. ASSUME NEW k \in Handlers, HandlerStep(k)
      PROVE  /\ handler'[h].kind = "hook" /\ handler'[h].payment = handler[h].payment
             /\ handler'[h].pc # "done" \/ SaveUser(h) \/ UpdateUser(h)
  <2>1. CASE k # h
    BY <1>1, <1>3, <2>1 DEF HandlerStep, SaveUser, UpdateUser, StartCreate, RestartPayment, StartRead,
       RetryRead, RetryGet, HookGet, HookRead, OtherRead
  <2>2. CASE k = h
    <3>1. CASE SaveUser(h)
      BY <1>1, <1>2, <3>1 DEF SaveUser
    <3>2. CASE UpdateUser(h)
      BY <1>1, <1>2, <3>2 DEF UpdateUser
    <3>3. CASE HookGet(h) \/ HookRead(h)
      <4>1. handler[h] \in Handler
        BY <1>1
      <4>2. CASE HookGet(h)
        <5>1. /\ handler'[h].kind = handler[h].kind /\ handler'[h].pc = "read"
              /\ handler'[h].payment = handler[h].payment
          BY <1>1, <4>1, <4>2 DEF HookGet, Handler
        <5> QED  BY <5>1
      <4>3. CASE HookRead(h)
        <5>1. /\ handler'[h].kind = handler[h].kind /\ handler'[h].pc = "load"
              /\ handler'[h].payment = handler[h].payment
          BY <1>1, <4>1, <4>3 DEF HookRead, Handler
        <5> QED  BY <5>1
      <4> QED  BY <3>3, <4>2, <4>3
    <3> QED
      BY <1>3, <2>2, <3>1, <3>2, <3>3 DEF HandlerStep, StartCreate, RestartPayment, StartRead, RetryRead,
         RetryGet, OtherRead, At
  <2> QED  BY <2>1, <2>2
<1>4. CASE Crash
  BY <1>1, <1>2, <1>4 DEF Crash
<1>5. CASE \/ \E k \in Handlers, u \in Users :
                 StartPayment(k, u) \/ RetryPayment(k, u) \/ OtherSave(k, u)
           \/ \E k \in Handlers, p \in Payments : AcceptWebhook(k, p)
  BY <1>1, <1>5 DEF StartPayment, RetryPayment, OtherSave, AcceptWebhook, Begin
<1>6. CASE (\E p \in Payments : CustomerActs(p)) \/ UNCHANGED vars
  BY <1>6 DEF CustomerActs, vars
<1> QED  BY <1>3, <1>4, <1>5, <1>6 DEF Next

\* The request that ends with a save has put its payment on the account.
LEMMA HookRecords ==
    ASSUME FeeInv, TrackInv, NEW h \in Handlers, SaveUser(h) \/ UpdateUser(h),
           handler[h].kind = "hook", handler'[h].pc = "done",
           payment[handler[h].payment].status = "paid",
           payment[handler[h].payment].user \notin raced
    PROVE  account'[payment[handler[h].payment].user].hasPaidEntryFee
<1> DEFINE u == handler[h].user
<1>1. handler[h].pc \in {"load", "write"}
  BY DEF SaveUser, UpdateUser
<1>2. u = payment[handler[h].payment].user /\ handler[h].copy.hasPaidEntryFee = TRUE
  <2>1. HookOK(h) /\ Active(h)
    BY <1>1 DEF TrackInv, HoldInv, Active
  <2>2. handler[h].paid <=> TRUE
    BY <1>1, <2>1 DEF HookOK
  <2>3. handler[h].copy.hasPaidEntryFee \in BOOLEAN /\ handler[h].paid \in BOOLEAN
    BY HandlerTyped DEF Account, Handler
  <2> QED  BY <1>1, <2>1, <2>2, <2>3 DEF HookOK
<1>3. CASE UpdateUser(h)
  BY <1>2, <1>3, WritesCopy
<1>4. CASE SaveUser(h)
  <2>1. /\ handler \in [Handlers -> Handler] /\ account' = account
        /\ handler' = [handler EXCEPT ![h] =
                          IF Diff(handler[h].copy, account[u]) = {} THEN End(h, "done")
                          ELSE [@ EXCEPT !.pc = "write", !.cols = Diff(handler[h].copy, account[u])]]
    BY <1>4, HandlerTyped DEF SaveUser
  <2>2. handler[h] \in Handler
    BY <2>1
  <2>3. Diff(handler[h].copy, account[u]) = {}
    BY <2>1, <2>2 DEF Handler
  <2>4. handler[h].copy.hasPaidEntryFee = account[u].hasPaidEntryFee
    BY <2>3 DEF Diff, Columns
  <2> QED  BY <1>2, <2>1, <2>4
<1> QED  BY <1>3, <1>4

\* What happens to the payments in a step: one comes into being, one goes on, or none.
LEMMA PaymentStep ==
    ASSUME FeeInv, [Next]_vars, NEW p \in Payments
    PROVE  \/ payment'[p] = payment[p]
           \/ payment'[p].status = "open"
           \/ /\ payment'[p].user = payment[p].user
              /\ payment'[p].status # "paid" \/ p \in due'
<1>1. payment \in [Payments -> Payment]
  BY DEF FeeInv, TypeOK
<1>2. ASSUME NEW q \in Payments, NEW u, NewPayment(q, u)
      PROVE  payment'[p] = payment[p] \/ payment'[p].status = "open"
  BY <1>1, <1>2 DEF NewPayment
<1>3. ASSUME NEW q \in Payments, CustomerActs(q)
      PROVE  \/ payment'[p] = payment[p]
             \/ /\ payment'[p].user = payment[p].user
                /\ payment'[p].status # "paid" \/ p \in due'
  BY <1>1, <1>3 DEF CustomerActs, Payment
<1> QED
  BY <1>2, <1>3 DEF Next, HandlerStep, SaveUser, UpdateUser, StartCreate, RestartPayment, StartRead,
     RetryRead, RetryGet, HookGet, HookRead, OtherRead, StartPayment, RetryPayment, OtherSave,
     AcceptWebhook, Crash, vars

\* What never goes back: Mollie's record and the history of accounts held twice.
LEMMA GrowsAlways ==
    ASSUME FeeInv, [Next]_vars, NEW q \in Payments, payment[q].user # Null
    PROVE  payment'[q].user = payment[q].user
<1>1. payment \in [Payments -> Payment] /\ payment[q].status # "none"
  BY DEF FeeInv, TypeOK, Exists
<1>2. ASSUME NEW p \in Payments, NEW u, NewPayment(p, u) PROVE payment'[q] = payment[q]
  BY <1>1, <1>2 DEF NewPayment
<1>3. ASSUME NEW p \in Payments, CustomerActs(p) PROVE payment'[q].user = payment[q].user
  BY <1>1, <1>3 DEF CustomerActs, Payment
<1> QED
  BY <1>2, <1>3 DEF Next, HandlerStep, SaveUser, UpdateUser, StartCreate, RestartPayment, StartRead,
     RetryRead, RetryGet, HookGet, HookRead, OtherRead, StartPayment, RetryPayment, OtherSave,
     AcceptWebhook, Crash, vars

LEMMA RacedGrows == [Next]_vars => raced \subseteq raced'
  BY DEF Next, HandlerStep, SaveUser, UpdateUser, StartCreate, RestartPayment, StartRead, RetryRead,
     RetryGet, HookGet, HookRead, OtherRead, StartPayment, RetryPayment, OtherSave, AcceptWebhook,
     CustomerActs, Crash, vars, Reads

\* A webhook stops being due when a request takes it over.
LEMMA DueStep ==
    ASSUME [Next]_vars, NEW p \in due, p \notin due'
    PROVE  \E h \in Handlers, q \in Payments : AcceptWebhook(h, q) /\ q = p
<1>1. ASSUME NEW h \in Handlers, NEW q \in Payments, AcceptWebhook(h, q) PROVE q = p
  BY <1>1 DEF AcceptWebhook
<1>2. ASSUME NEW q \in Payments, CustomerActs(q) PROVE FALSE
  BY <1>2 DEF CustomerActs
<1> QED
  BY <1>1, <1>2 DEF Next, HandlerStep, SaveUser, UpdateUser, StartCreate, RestartPayment, StartRead,
     RetryRead, RetryGet, HookGet, HookRead, OtherRead, StartPayment, RetryPayment, OtherSave,
     Crash, vars

LEMMA UnderwayStep == FeeInv /\ TrackInv /\ PaidIsUnderway /\ [Next]_vars => PaidIsUnderway'
<1> SUFFICES ASSUME FeeInv, TrackInv, PaidIsUnderway, [Next]_vars,
                    NEW p \in Payments, NEW u \in Users,
                    payment'[p].status = "paid", payment'[p].user = u,
                    ~account'[u].hasPaidEntryFee, p \notin due', u \notin raced',
                    \A q \in Payments \ {p} : payment'[q].user # u,
                    \A h \in Handlers : handler'[h].kind = "hook" /\ handler'[h].payment = p
                                            => handler'[h].pc = "done"
             PROVE  FALSE
  BY DEF PaidIsUnderway
<1>1. payment[p] = payment'[p] \/ (payment'[p].user = payment[p].user /\ p \in due')
  BY PaymentStep
<1>2. payment[p].status = "paid" /\ payment[p].user = u
  BY <1>1
<1>3. \A q \in Payments \ {p} : payment[q].user # u
  <2>1. \A q \in Payments : payment[q].user # Null => payment'[q].user = payment[q].user
    BY GrowsAlways
  <2> QED  BY <2>1, NullAssumption
<1>4. u \notin raced
  BY RacedGrows
<1>5. \/ account[u].hasPaidEntryFee
      \/ p \in due
      \/ \E h \in Handlers : /\ handler[h].kind = "hook" /\ handler[h].payment = p
                            /\ handler[h].pc # "done"
  BY <1>2, <1>3, <1>4 DEF PaidIsUnderway
<1>6. CASE account[u].hasPaidEntryFee
  <2>1. PICK h \in Handlers : payment[handler[h].payment].user = u
                              /\ payment[handler[h].payment].status # "paid"
                              /\ handler[h].payment \in Payments
    BY <1>6, LostToUnpaid
  <2> QED  BY <1>2, <1>3, <2>1
<1>7. CASE p \in due
  <2>1. PICK h \in Handlers, q \in Payments : AcceptWebhook(h, q) /\ q = p
    BY <1>7, DueStep
  <2>2. handler \in [Handlers -> Handler]
    BY DEF FeeInv, TypeOK
  <2>3. handler' = [handler EXCEPT ![h] = [NoHandler EXCEPT !.kind = "hook", !.pc = "get",
                                                            !.user = Null, !.payment = p]]
    BY <2>1 DEF AcceptWebhook, Begin
  <2>4. handler'[h].kind = "hook" /\ handler'[h].payment = p /\ handler'[h].pc = "get"
    BY <2>2, <2>3 DEF NoHandler
  <2> QED  BY <2>4
<1>8. ASSUME NEW h \in Handlers, handler[h].kind = "hook", handler[h].payment = p,
             handler[h].pc # "done"
      PROVE  FALSE
  <2>1. /\ handler'[h].kind = "hook" /\ handler'[h].payment = p
        /\ handler'[h].pc # "done" \/ SaveUser(h) \/ UpdateUser(h)
    BY <1>8, HookGoesOn
  <2>2. handler'[h].pc = "done" /\ (SaveUser(h) \/ UpdateUser(h))
    BY <2>1
  <2> QED  BY <1>2, <1>4, <1>8, <2>2, HookRecords
<1> QED  BY <1>5, <1>6, <1>7, <1>8

\* A payment that is paid is on the account, about to be reported, or in the hands of a
\* request: the hand-over from Mollie to processWebhook loses none (mollie.service.ts).
THEOREM NoPaymentIsLost == Spec => []PaidIsUnderway
<1>1. Init => PaidIsUnderway
  <2> SUFFICES ASSUME Init, NEW p \in Payments PROVE payment[p].status # "paid"
    BY DEF PaidIsUnderway
  <2> QED  BY DEF Init
<1> QED  BY <1>1, UnderwayStep, TrackAlways, PTL DEF Spec

-----------------------------------------------------------------------------
(* The book of FeeBook: what the steps of the requests do to it.           *)

\* What a request knows of the payment it carries, and that it alone carries it.
CarryInv == \A h \in Handlers, p \in Payments \union {Null} : Carries(h, p) =>
    /\ p \in Payments
    /\ payment[p].user = handler[h].user /\ handler[h].user \in Users
    /\ handler[h].pc \in {"load", "write"} => handler[h].copy.paymentId = p
    /\ \A k \in Handlers : Carries(k, p) => k = h

\* The calls to Mollie that create a payment.
MakesPayment(h, p) == StartCreate(h, p) \/ RestartPayment(h, p)

LEMMA OneMakes ==
    ASSUME FeeInv, NEW h \in Handlers, NEW k \in Handlers, NEW p \in Payments,
           MakesPayment(h, p), MakesPayment(k, p)
    PROVE  k = h
<1>1. handler \in [Handlers -> Handler] /\ handler[h].pc = "create"
  BY DEF FeeInv, TypeOK, MakesPayment, StartCreate, RestartPayment, At
<1>2. handler'[h].pc # "create"
  BY <1>1 DEF MakesPayment, StartCreate, RestartPayment, Handler
<1>3. k # h => handler'[h] = handler[h]
  BY <1>1 DEF MakesPayment, StartCreate, RestartPayment
<1> QED  BY <1>1, <1>2, <1>3

LEMMA MakesNew ==
    ASSUME NEW h \in Handlers, NEW p \in Payments, MakesPayment(h, p)
    PROVE  NewPayment(p, handler[h].user)
  BY DEF MakesPayment, StartCreate, RestartPayment

\* Where the request that carries a payment has it from.
LEMMA CarryMoves ==
    ASSUME FeeInv, [Next]_vars, NEW h \in Handlers, NEW p, Carries(h, p)'
    PROVE  /\ handler'[h].user = handler[h].user
           /\ \/ /\ Carries(h, p)
                 /\ handler'[h].pc \in {"load", "write"} =>
                      \/ handler[h].pc \in {"load", "write"} /\ handler'[h].copy = handler[h].copy
                      \/ handler'[h].copy.paymentId = p
              \/ /\ handler[h].user \in Users /\ p \in Payments /\ MakesPayment(h, p)
                 /\ handler'[h].pc \in {"load", "write"} => handler'[h].copy.paymentId = p
<1> DEFINE Goal == /\ handler'[h].user = handler[h].user
           /\ \/ /\ Carries(h, p)
                 /\ handler'[h].pc \in {"load", "write"} =>
                      \/ handler[h].pc \in {"load", "write"} /\ handler'[h].copy = handler[h].copy
                      \/ handler'[h].copy.paymentId = p
              \/ /\ handler[h].user \in Users /\ p \in Payments /\ MakesPayment(h, p)
                 /\ handler'[h].pc \in {"load", "write"} => handler'[h].copy.paymentId = p
<1>1. handler \in [Handlers -> Handler] /\ handler[h] \in Handler
  BY DEF FeeInv, TypeOK
<1>2. CASE handler'[h] = handler[h]
  BY <1>2 DEF Carries
<1>3. \A how : End(h, how).pc = how
  BY EndFields
<1>4. ASSUME NEW k \in Handlers, HandlerStep(k), handler'[h] # handler[h]
      PROVE  Goal
  <2>1. k = h
    BY <1>1, <1>4 DEF HandlerStep, SaveUser, UpdateUser, StartCreate, RestartPayment, StartRead,
       RetryRead, RetryGet, HookGet, HookRead, OtherRead
  <2>2. CASE SaveUser(h)
    <3>1. \/ handler'[h] = End(h, "done")
          \/ /\ handler[h].pc = "load" /\ handler'[h].pc = "write"
             /\ handler'[h].kind = handler[h].kind /\ handler'[h].user = handler[h].user
             /\ handler'[h].payment = handler[h].payment /\ handler'[h].copy = handler[h].copy
      BY <1>1, <2>2 DEF SaveUser, Handler
    <3> QED  BY <1>3, <3>1 DEF Carries
  <2>3. CASE UpdateUser(h)
    <3>1. handler'[h] = End(h, "done")
      BY <1>1, <2>3 DEF UpdateUser
    <3> QED  BY <1>3, <3>1 DEF Carries
  <2>4. ASSUME NEW q \in Payments, StartCreate(h, q) PROVE Goal
    <3>1. /\ handler'[h].pc = "read" /\ handler'[h].payment = q /\ NewPayment(q, handler[h].user)
          /\ handler'[h].user = handler[h].user /\ handler[h].kind = "start"
          /\ handler[h].pc = "create" /\ MakesPayment(h, q)
      BY <1>1, <2>4 DEF MakesPayment, StartCreate, At, Handler
    <3>2. handler[h].user \in Users
      BY <3>1, HandlerTyped DEF Active
    <3> QED  BY <3>1, <3>2 DEF Carries
  <2>5. ASSUME NEW q \in Payments, RestartPayment(h, q) PROVE Goal
    <3>1. /\ handler'[h].pc = "load" /\ handler'[h].payment = q /\ NewPayment(q, handler[h].user)
          /\ handler'[h].user = handler[h].user /\ handler'[h].copy.paymentId = q
          /\ handler[h].pc = "create" /\ handler[h].kind = "retry" /\ MakesPayment(h, q)
      BY <1>1, <2>5 DEF MakesPayment, RestartPayment, At, Handler, Account
    <3>2. handler[h].user \in Users
      BY <3>1, HandlerTyped DEF Active
    <3> QED  BY <3>1, <3>2 DEF Carries
  <2>6. CASE StartRead(h)
    <3>1. /\ handler[h].kind = "start" /\ handler[h].pc = "read" /\ handler[h].user \in Users
      BY <2>6, HandlerTyped DEF StartRead, At, Active
    <3>2. account[handler[h].user] \in Account
      BY <3>1, HandlerTyped
    <3>3. /\ handler'[h].payment = handler[h].payment /\ handler'[h].user = handler[h].user
          /\ handler'[h].copy.paymentId = handler[h].payment
      BY <1>1, <2>6, <3>2 DEF StartRead, Handler, Account
    <3> QED  BY <3>1, <3>3 DEF Carries
  <2>7. CASE RetryRead(h) \/ OtherRead(h)
    <3>1. handler'[h].kind \in {"retry", "other"} /\ (handler'[h].kind = "retry" => handler'[h].pc = "get")
      BY <1>1, <2>7 DEF RetryRead, OtherRead, At, Handler
    <3> QED  BY <3>1 DEF Carries
  <2>8. CASE RetryGet(h)
    <3>1. handler'[h].pc \in {"done", "create"}
      BY <1>1, <1>3, <2>8 DEF RetryGet, Handler
    <3> QED  BY <3>1 DEF Carries
  <2>9. CASE HookGet(h)
    <3>1. handler'[h].kind = "hook"
      BY <1>1, <2>9 DEF HookGet, At, Handler
    <3> QED  BY <3>1 DEF Carries
  <2>10. CASE HookRead(h)
    <3>1. handler'[h].kind = "hook"
      BY <1>1, <2>10 DEF HookRead, At, Handler
    <3> QED  BY <3>1 DEF Carries
  <2> QED
    BY <1>4, <2>1, <2>2, <2>3, <2>4, <2>5, <2>6, <2>7, <2>8, <2>9, <2>10 DEF HandlerStep
<1>5. ASSUME NEW k \in Handlers, NEW kind, NEW pc, NEW v, NEW q, Begin(k, kind, pc, v, q),
             \/ kind = "start" /\ pc = "create"
             \/ kind = "retry" /\ pc = "read"
             \/ kind \in {"hook", "other"},
             handler'[h] # handler[h]
      PROVE  FALSE
  <2>1. k = h /\ handler'[h] = [NoHandler EXCEPT !.kind = kind, !.pc = pc, !.user = v, !.payment = q]
    BY <1>1, <1>5 DEF Begin
  <2>2. handler'[h].kind = kind /\ handler'[h].pc = pc
    BY <2>1 DEF NoHandler
  <2> QED  BY <1>5, <2>2 DEF Carries
<1>6. CASE Crash
  <2>1. handler'[h] = handler[h] \/ handler'[h].pc = "lost"
    BY <1>3, <1>6 DEF Crash
  <2> QED  BY <1>2, <2>1 DEF Carries
<1>7. CASE \/ \E k \in Handlers, u \in Users :
                 StartPayment(k, u) \/ RetryPayment(k, u) \/ OtherSave(k, u)
           \/ \E k \in Handlers, q \in Payments : AcceptWebhook(k, q)
  BY <1>2, <1>5, <1>7 DEF StartPayment, RetryPayment, OtherSave, AcceptWebhook
<1>8. CASE (\E q \in Payments : CustomerActs(q)) \/ UNCHANGED vars
  BY <1>2, <1>8 DEF CustomerActs, vars
<1> QED
  BY <1>2, <1>4, <1>6, <1>7, <1>8 DEF Next

LEMMA CarryStep == FeeInv /\ CarryInv /\ [Next]_vars => CarryInv'
<1> SUFFICES ASSUME FeeInv, CarryInv, [Next]_vars,
                    NEW h \in Handlers, NEW p \in Payments \union {Null}, Carries(h, p)'
             PROVE  /\ p \in Payments
                    /\ payment'[p].user = handler'[h].user /\ handler'[h].user \in Users
                    /\ handler'[h].pc \in {"load", "write"} => handler'[h].copy.paymentId = p
                    /\ \A k \in Handlers : Carries(k, p)' => k = h
  BY DEF CarryInv
<1> p \in Payments
  BY CarryMoves DEF CarryInv
<1>1. payment \in [Payments -> Payment] /\ (payment[p].status = "none" => payment[p].user = Null)
  BY DEF FeeInv, TypeOK, Exists
<1>2. \A k \in Handlers : Carries(k, p) => payment[p].user # Null /\ payment[p].user \in Users
  BY NullAssumption DEF CarryInv
<1>3. \A k \in Handlers : Carries(k, p)' => Carries(k, p) \/ MakesPayment(k, p)
  BY CarryMoves
<1>4. CASE Carries(h, p)
  <2>1. payment'[p].user = payment[p].user /\ handler'[h].user = handler[h].user
    BY <1>2, <1>4, GrowsAlways, CarryMoves
  <2>2. \A k \in Handlers : ~MakesPayment(k, p)
    BY <1>1, <1>2, <1>4, MakesNew DEF NewPayment
  <2>3. handler'[h].pc \in {"load", "write"} => handler'[h].copy.paymentId = p
    BY <1>4, <2>2, CarryMoves DEF CarryInv
  <2> QED
    BY <1>3, <1>4, <2>1, <2>2, <2>3 DEF CarryInv
<1>5. CASE ~Carries(h, p)
  <2>1. /\ handler[h].user \in Users /\ MakesPayment(h, p)
        /\ handler'[h].user = handler[h].user
        /\ handler'[h].pc \in {"load", "write"} => handler'[h].copy.paymentId = p
    BY <1>5, CarryMoves
  <2>2. payment[p].status = "none" /\ payment'[p].user = handler[h].user
    BY <1>1, <2>1, MakesNew DEF NewPayment
  <2>3. \A k \in Handlers : ~Carries(k, p)
    BY <1>1, <1>2, <2>2
  <2>4. \A k \in Handlers : Carries(k, p)' => k = h
    BY <1>3, <2>1, <2>3, OneMakes
  <2> QED  BY <2>1, <2>2, <2>4
<1> QED  BY <1>4, <1>5

LEMMA CarryAlways == Spec => [](FeeInv /\ TrackInv /\ CarryInv)
<1>1. Init => CarryInv
  BY DEF Init, CarryInv, Carries, NoHandler
<1>2. FeeInv /\ CarryInv /\ [Next]_vars => CarryInv'
  BY CarryStep
<1> QED  BY <1>1, <1>2, TrackAlways, PTL DEF Spec

BookStep == [Book!BookNext]_(Book!bvars)

\* Only the creation of a payment makes a request carry one it did not carry.
LEMMA CarriedFalls ==
    ASSUME FeeInv, [Next]_vars, \A h \in Handlers, p \in Payments : ~MakesPayment(h, p)
    PROVE  Carried' \subseteq Carried
  BY CarryMoves DEF Carried

\* Steps that the book does not see, but for payments that nobody carries any more.
LEMMA StepDrops ==
    ASSUME Carried' \subseteq Carried, UNCHANGED <<StatusOf, OwnerOf, FileOf, PaidOf, raced>>
    PROVE  BookStep
<1>1. Book!Drop(Carried \ Carried')
  BY DEF Book!Drop
<1>2. Carried \ Carried' \in SUBSET Payments
  BY DEF Carried
<1> QED  BY <1>1, <1>2 DEF BookStep, Book!BookNext

LEMMA StepCreates ==
    ASSUME FeeInv, CarryInv, [Next]_vars, NEW h \in Handlers, NEW p \in Payments, MakesPayment(h, p)
    PROVE  BookStep
<1> DEFINE u == handler[h].user
<1>1. /\ NewPayment(p, u) /\ UNCHANGED <<account, raced>> /\ u \in Users
      /\ handler[h].pc = "create" /\ handler[h].kind \in {"start", "retry"}
      /\ \E x : handler' = [handler EXCEPT ![h] = x]
  BY HandlerTyped DEF MakesPayment, StartCreate, RestartPayment, At, Active
<1>2. payment \in [Payments -> Payment] /\ handler \in [Handlers -> Handler]
  BY DEF FeeInv, TypeOK
<1>3. StatusOf[p] = "none" /\ StatusOf' = [StatusOf EXCEPT ![p] = "open"]
  BY <1>1, <1>2 DEF NewPayment, StatusOf
<1>4. OwnerOf' = [OwnerOf EXCEPT ![p] = u]
  BY <1>1, <1>2 DEF NewPayment, OwnerOf
<1>5. Carries(h, p)' /\ \A q \in Payments : ~Carries(h, q)
  <2>1. /\ handler[h].kind = "start" => handler'[h].pc = "read" /\ handler'[h].kind = "start"
        /\ handler[h].kind = "retry" => handler'[h].pc = "load" /\ handler'[h].kind = "retry"
        /\ handler'[h].payment = p
    BY <1>2 DEF MakesPayment, StartCreate, RestartPayment, At, Handler
  <2> QED  BY <1>1, <2>1 DEF Carries
<1>6. \A k \in Handlers \ {h} : handler'[k] = handler[k]
  BY <1>1, <1>2
<1>7. Carried' = Carried \union {p}
  <2>1. \A q \in Payments : \A k \in Handlers : Carries(k, q) => Carries(k, q)'
    BY <1>5, <1>6 DEF Carries
  <2>2. \A q \in Payments \ {p} : \A k \in Handlers : Carries(k, q)' => Carries(k, q)
    <3>1. handler'[h].payment = p
      BY <1>5 DEF Carries
    <3> QED  BY <1>6, <3>1 DEF Carries
  <2> QED  BY <1>5, <2>1, <2>2 DEF Carried
<1>8. FileOf' = FileOf /\ PaidOf' = PaidOf
  BY <1>1 DEF FileOf, PaidOf
<1>9. Book!Create(p, u)
  BY <1>1, <1>3, <1>4, <1>7, <1>8 DEF Book!Create
<1> QED  BY <1>1, <1>9 DEF BookStep, Book!BookNext

LEMMA StepReads ==
    ASSUME FeeInv, CarryInv, [Next]_vars, NEW h \in Handlers,
           StartRead(h) \/ RetryRead(h) \/ OtherRead(h) \/ HookRead(h)
    PROVE  BookStep
<1> DEFINE u == handler[h].user
<1>1. /\ Reads(h, u) /\ UNCHANGED <<payment, account>>
      /\ handler[h].pc = "read" /\ handler[h].kind \in AllKinds
      /\ \E x : handler' = [handler EXCEPT ![h] = x]
  BY DEF StartRead, RetryRead, OtherRead, HookRead, At, AllKinds
<1>2. handler \in [Handlers -> Handler] /\ u \in Users
  BY <1>1, HandlerTyped DEF Active, FeeInv, HandlerOK, AllKinds
<1>3. \A k \in Handlers, q \in Payments : Carries(k, q) => Carries(k, q)'
  <2>1. \A k \in Handlers \ {h} : handler'[k] = handler[k]
    BY <1>1, <1>2
  <2>2. ASSUME handler[h].kind = "start"
        PROVE  /\ handler'[h].kind = "start" /\ handler'[h].pc = "load"
               /\ handler'[h].payment = handler[h].payment
    BY <1>2, <2>2 DEF StartRead, RetryRead, OtherRead, HookRead, At, Handler
  <2> QED  BY <1>1, <2>1, <2>2 DEF Carries
<1>4. \A k \in Handlers, q \in Payments : ~MakesPayment(k, q)
  <2>1. \A k \in Handlers, q \in Payments : MakesPayment(k, q) => payment' # payment
    BY DEF MakesPayment, StartCreate, RestartPayment, NewPayment, FeeInv, TypeOK
  <2> QED  BY <1>1, <2>1
<1>5. Carried' = Carried /\ StatusOf' = StatusOf /\ OwnerOf' = OwnerOf
  <2>1. Carried \subseteq Carried'
    BY <1>3 DEF Carried
  <2> QED  BY <1>1, <1>4, <2>1, CarriedFalls DEF StatusOf, OwnerOf
<1>6. CASE raced' = raced
  <2>1. FileOf' = FileOf /\ PaidOf' = PaidOf
    BY <1>1, <1>6 DEF FileOf, PaidOf
  <2> QED  BY <1>5, <1>6, <2>1, StepDrops
<1>7. CASE raced' # raced
  <2>1. u \notin raced /\ raced' = raced \union {u}
    BY <1>1, <1>7 DEF Reads
  <2>2. FileOf' = [FileOf EXCEPT ![u] = Null] /\ PaidOf' = [PaidOf EXCEPT ![u] = FALSE]
    BY <1>1, <2>1 DEF FileOf, PaidOf
  <2>3. Book!GiveUp(u)
    BY <1>5, <2>1, <2>2 DEF Book!GiveUp
  <2> QED  BY <1>2, <2>3 DEF BookStep, Book!BookNext
<1> QED  BY <1>6, <1>7

\* The update of a request that holds the account alone.
LEMMA StepWrites ==
    ASSUME FeeInv, TrackInv, CarryInv, [Next]_vars, NEW h \in Handlers, UpdateUser(h)
    PROVE  BookStep
<1> DEFINE u == handler[h].user
           c == handler[h].copy
<1>1. /\ handler[h].pc = "write" /\ UNCHANGED <<payment, raced>>
      /\ handler' = [handler EXCEPT ![h] = End(h, "done")]
      /\ account' = [account EXCEPT ![u] = Written(account[u], c, handler[h].cols)]
  BY DEF UpdateUser
<1>2. /\ handler \in [Handlers -> Handler] /\ account \in [Users -> Account] /\ u \in Users
      /\ account[u] \in Account /\ c \in Account /\ handler[h].kind \in AllKinds
      /\ HookOK(h) /\ handler[h].payment \in Payments \union {Null}
  <2>1. HookOK(h) /\ HoldsCopy(h)
    BY <1>1 DEF TrackInv, HoldInv, HoldsCopy
  <2> QED  BY <1>1, <2>1, HandlerTyped DEF HookOK, FeeInv, TypeOK, Handler
<1>3. handler'[h].pc = "done" /\ \A k \in Handlers \ {h} : handler'[k] = handler[k]
  BY <1>1, <1>2, EndFields
<1>4. \A p \in Payments : \A k \in Handlers : Carries(k, p)' <=> Carries(k, p) /\ k # h
  BY <1>3 DEF Carries
<1>5. Carried' \subseteq Carried /\ StatusOf' = StatusOf /\ OwnerOf' = OwnerOf
  BY <1>1, <1>4 DEF Carried, StatusOf, OwnerOf
<1>6. \A v \in Users \ {u} : account'[v] = account[v]
  BY <1>1, <1>2
<1>7. CASE u \in raced
  <2>1. FileOf' = FileOf /\ PaidOf' = PaidOf
    BY <1>1, <1>6, <1>7 DEF FileOf, PaidOf
  <2> QED  BY <1>1, <1>5, <2>1, StepDrops
<1>8. CASE u \notin raced
  <2>1. account'[u] = c /\ Follows(h)
    BY <1>8, WritesCopy
  <2>2. FileOf' = [FileOf EXCEPT ![u] = c.paymentId]
    BY <1>1, <1>2, <1>6, <1>8, <2>1 DEF FileOf
  <2>3. PaidOf' = [PaidOf EXCEPT ![u] = c.hasPaidEntryFee]
    BY <1>1, <1>2, <1>6, <1>8, <2>1 DEF PaidOf, Account
  <2>4. handler[h].kind # "hook" => PaidOf' = PaidOf
    BY <1>2, <1>8, <2>1, <2>3 DEF Follows, PaidOf, Account
  <2>5. ASSUME handler[h].kind \in {"hook", "other"} PROVE FileOf' = FileOf
    <3>1. c.paymentId = account[u].paymentId
      BY <2>1, <2>5 DEF Follows
    <3>2. FileOf[u] = account[u].paymentId
      BY <1>2, <1>8 DEF FileOf
    <3>3. FileOf = [FileOf EXCEPT ![u] = FileOf[u]]
      BY DEF FileOf
    <3> QED  BY <2>2, <3>1, <3>2, <3>3
  <2>6. CASE handler[h].kind = "other"
    BY <1>1, <1>5, <2>4, <2>5, <2>6, StepDrops
  <2>7. CASE handler[h].kind \in {"start", "retry"}
    <3> DEFINE p == handler[h].payment
    <3>1. Carries(h, p)
      BY <1>1, <2>7 DEF Carries
    <3>2. /\ p \in Payments /\ OwnerOf[p] = u /\ c.paymentId = p
          /\ \A k \in Handlers : Carries(k, p) => k = h
      BY <1>1, <1>2, <3>1 DEF CarryInv, OwnerOf
    <3>3. p \in Carried
      BY <3>1, <3>2 DEF Carried
    <3>4. \A q \in Payments \ {p} : ~Carries(h, q)
      BY DEF Carries
    <3>5. Carried' = Carried \ {p}
      BY <1>4, <3>2, <3>4 DEF Carried
    <3>6. Book!Note(p)
      BY <1>1, <1>5, <1>8, <2>2, <2>4, <2>7, <3>2, <3>3, <3>5 DEF Book!Note
    <3> QED  BY <3>2, <3>6 DEF BookStep, Book!BookNext
  <2>8. CASE handler[h].kind = "hook"
    <3> DEFINE p == handler[h].payment
    <3>1. /\ p \in Payments /\ payment[p].status \in Closed /\ payment[p].user = u
          /\ c.hasPaidEntryFee = handler[h].paid /\ (handler[h].paid <=> payment[p].status = "paid")
      BY <1>1, <1>2, <2>8 DEF HookOK, Active
    <3>2. c.hasPaidEntryFee = (payment[p].status = "paid")
      BY <1>2, <3>1 DEF Account
    <3>3. Carried' = Carried
      BY <1>4, <2>8 DEF Carried, Carries
    <3>4. OwnerOf[p] = u /\ StatusOf[p] = payment[p].status
      BY <3>1 DEF OwnerOf, StatusOf
    <3>5. StatusOf[p] \in Book!Ends
      BY <3>1, <3>4 DEF Closed, Book!Ends
    <3>6. PaidOf' = [PaidOf EXCEPT ![OwnerOf[p]] = StatusOf[p] = "paid"]
      BY <2>3, <3>2, <3>4
    <3>7. Book!Report(p)
      BY <1>1, <1>5, <1>8, <2>5, <2>8, <3>3, <3>4, <3>5, <3>6 DEF Book!Report
    <3> QED  BY <3>1, <3>7 DEF BookStep, Book!BookNext
  <2> QED  BY <1>2, <2>6, <2>7, <2>8 DEF AllKinds
<1> QED  BY <1>7, <1>8

LEMMA StepCustomer ==
    ASSUME FeeInv, NEW p \in Payments, CustomerActs(p)
    PROVE  BookStep
<1>1. PICK s \in {"pending"} \union Closed :
         /\ \/ payment[p].status = "open" /\ s = "pending"
            \/ payment[p].status \in Open /\ s \in Closed
         /\ payment' = [payment EXCEPT ![p].status = s]
         /\ UNCHANGED <<account, handler, raced>>
  BY DEF CustomerActs
<1>2. payment \in [Payments -> Payment]
  BY DEF FeeInv, TypeOK
<1>3. StatusOf' = [StatusOf EXCEPT ![p] = s] /\ StatusOf[p] = payment[p].status
  BY <1>1, <1>2 DEF StatusOf, Payment
<1>4. OwnerOf' = OwnerOf
  BY <1>1, <1>2 DEF OwnerOf, Payment
<1>5. Carried' = Carried /\ FileOf' = FileOf /\ PaidOf' = PaidOf
  BY <1>1 DEF Carried, Carries, FileOf, PaidOf
<1>6. Book!Progress(p, s)
  BY <1>1, <1>3, <1>4, <1>5 DEF Book!Progress, Book!Ends, Open, Closed
<1> QED  BY <1>1, <1>6 DEF BookStep, Book!BookNext, Book!Ends, Closed

LEMMA StepOther ==
    ASSUME FeeInv, [Next]_vars, UNCHANGED <<payment, account, raced>>
    PROVE  BookStep
<1>1. \A h \in Handlers, p \in Payments : ~MakesPayment(h, p)
  BY DEF MakesPayment, StartCreate, RestartPayment, NewPayment, FeeInv, TypeOK
<1>2. UNCHANGED <<StatusOf, OwnerOf, FileOf, PaidOf, raced>>
  BY DEF StatusOf, OwnerOf, FileOf, PaidOf
<1> QED  BY <1>1, <1>2, CarriedFalls, StepDrops

LEMMA EveryStep == FeeInv /\ TrackInv /\ CarryInv /\ [Next]_vars => BookStep
<1> SUFFICES ASSUME FeeInv, TrackInv, CarryInv, [Next]_vars PROVE BookStep
  OBVIOUS
<1> DEFINE Quiet == UNCHANGED <<payment, account, raced>>
<1>1. ASSUME NEW h \in Handlers, HandlerStep(h) PROVE BookStep
  <2>1. SaveUser(h) \/ RetryGet(h) \/ HookGet(h) => Quiet
    BY DEF SaveUser, RetryGet, HookGet
  <2> QED
    BY <1>1, <2>1, StepOther, StepWrites, StepCreates, StepReads DEF HandlerStep, MakesPayment
<1>2. CASE \/ \E h \in Handlers, u \in Users :
                 StartPayment(h, u) \/ RetryPayment(h, u) \/ OtherSave(h, u)
           \/ \E h \in Handlers, p \in Payments : AcceptWebhook(h, p)
           \/ Crash \/ UNCHANGED vars
  <2>1. Quiet
    BY <1>2 DEF StartPayment, RetryPayment, OtherSave, AcceptWebhook, Crash, vars
  <2> QED  BY <2>1, StepOther
<1> QED  BY <1>1, <1>2, StepCustomer DEF Next

LEMMA BookOpens == Init => Book!BookInit
<1> SUFFICES ASSUME Init PROVE Book!BookInit
  OBVIOUS
<1>1. FeeInv
  BY FeeInit
<1>2. StatusOf \in [Payments -> {"none", "open"}] /\ OwnerOf \in [Payments -> Users \union {Null}]
  BY DEF Init, StatusOf, OwnerOf
<1>3. \A p \in Payments : StatusOf[p] = "none" <=> OwnerOf[p] = Null
  BY <1>1 DEF FeeInv, Exists, StatusOf, OwnerOf
<1>4. Carried = {} /\ raced = {} /\ PaidOf = [u \in Users |-> FALSE]
  BY DEF Init, Carried, Carries, NoHandler, PaidOf
<1>5. ASSUME NEW u \in Users
      PROVE  FileOf[u] \in Payments \union {Null} /\ (FileOf[u] # Null => OwnerOf[FileOf[u]] = u)
  <2>1. FileOf[u] = account[u].paymentId /\ account[u] \in Account /\ Backed(payment, account[u], u)
    BY <1>1, <1>4 DEF FileOf, FeeInv, TypeOK
  <2> QED  BY <2>1 DEF Account, Backed, Own, OwnerOf
<1>6. FileOf \in [Users -> Payments \union {Null}]
  BY <1>5 DEF FileOf
<1> QED  BY <1>2, <1>3, <1>4, <1>5, <1>6 DEF Book!BookInit

\* For members whose account one request at a time works on, every run of the requests,
\* webhooks, crashes and customers is one of the book: a payment goes on file once, by the
\* request that created it, and the paid flag moves only with the report of a payment
\* (ImplementsBook, a refinement of FeeBook under the mapping of EntryFee).
THEOREM EntryFeeImplementsBook == Spec => ImplementsBook
<1>1. FeeInv /\ TrackInv /\ CarryInv /\ [Next]_vars => [Book!BookNext]_(Book!bvars)
  BY EveryStep DEF BookStep
<1> QED
  BY <1>1, BookOpens, CarryAlways, PTL DEF Spec, ImplementsBook, Book!BookSpec
=============================================================================

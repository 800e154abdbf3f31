---------------------------- MODULE AccountsProofs ----------------------------
(***************************************************************************)
(* Proofs about Accounts: types, what a save changes, how often a link     *)
(* works, whose members a market lead changes, and what a team knows of    *)
(* its members.                                                            *)
(***************************************************************************)
EXTENDS Accounts, FiniteSetTheorems, TLAPS

-----------------------------------------------------------------------------
(* Rows and calls.                                                         *)

LEMMA NullIsNobody == Null \notin Ids /\ Null \notin Addresses
  BY AccountsNames DEF Ids, Addresses

LEMMA NoAccountIsNone == NoAccount \notin Account
  BY NullIsNobody DEF NoAccount, Account

LEMMA EditedIsAccount ==
    ASSUME NEW a \in Account
    PROVE  /\ \A x \in Ids : [a EXCEPT !.password = x] \in Account
           /\ \A x \in SUBSET Roles : [a EXCEPT !.roles = x] \in Account
           /\ \A x \in BOOLEAN : [a EXCEPT !.paid = x] \in Account
           /\ \A x \in Capacities \union {Null} : [a EXCEPT !.capacity = x] \in Account
           /\ \A x \in Teams \union {Null} : [a EXCEPT !.team = x] \in Account
           /\ \A x \in Statuses : [a EXCEPT !.status = x] \in Account
           /\ \A x \in Statuses, y \in Capacities \union {Null} :
                [a EXCEPT !.status = x, !.capacity = y] \in Account
  BY DEF Account

LEMMA NewIsAccount ==
    ASSUME NEW r \in Requests, NEW e \in Addresses, NEW c \in Capacities \union {Null},
           NEW t \in Teams \union {Null}
    PROVE  NewAccount(r, e, c, t) \in Account
  BY DEF NewAccount, Account, Roles, Statuses, Ids

LEMMA ChosenIsCapacity == \A c : Chosen(c) \in Capacities
  BY DEF Chosen, Capacities

LEMMA WrittenIsAccount ==
    ASSUME NEW row \in Account, NEW entity \in Account, NEW cols
    PROVE  Written(row, entity, cols) \in Account
<1> DEFINE pick(c, x, y) == IF c \in cols THEN x ELSE y
<1>1. /\ row.email \in Addresses
      /\ pick("password", entity.password, row.password) \in Ids
      /\ pick("roles", entity.roles, row.roles) \in SUBSET Roles
      /\ pick("paid", entity.paid, row.paid) \in BOOLEAN
      /\ pick("status", entity.status, row.status) \in Statuses
      /\ pick("capacity", entity.capacity, row.capacity) \in Capacities \union {Null}
      /\ pick("team", entity.team, row.team) \in Teams \union {Null}
  BY DEF Account
<1>2. Written(row, entity, cols) =
        [email |-> row.email, password |-> pick("password", entity.password, row.password),
         roles |-> pick("roles", entity.roles, row.roles),
         paid |-> pick("paid", entity.paid, row.paid),
         status |-> pick("status", entity.status, row.status),
         capacity |-> pick("capacity", entity.capacity, row.capacity),
         team |-> pick("team", entity.team, row.team)]
  BY DEF Written
<1> HIDE DEF pick
<1> QED
  BY <1>1, <1>2 DEF Account

\* A column that is written is the entity's, any other stays.
LEMMA WrittenColumn ==
    ASSUME NEW row \in Account, NEW entity \in Account, NEW cols, NEW c \in Columns
    PROVE  Written(row, entity, cols)[c] = IF c \in cols THEN entity[c] ELSE row[c]
<1>1. c \in {"password", "roles", "paid", "status", "capacity", "team"}
  BY DEF Columns, ByEmailColumns, ByIdColumns
<1> QED
  BY <1>1 DEF Written

LEMMA NewIsCall ==
    ASSUME NEW kind \in AllKinds, NEW pc \in Pcs
    PROVE  New(kind, pc) \in Call
  BY DEF New, NoCall, Call

LEMMA EndedIsCall ==
    ASSUME TypeOK, NEW r \in Requests, NEW pc \in Pcs
    PROVE  Ended(r, pc) \in Call
<1>1. call[r].kind \in AllKinds \union {Null} /\ call[r].token \in Requests \union {Null}
  BY DEF TypeOK, Call
<1> QED
  BY <1>1 DEF Ended, New, NoCall, Call

-----------------------------------------------------------------------------
(* Types.  What a request has read by the time it needs it.                *)

Read(x) ==
    /\ x.pc \in {"compare", "load", "write"} => x.id \in Ids /\ x.copy \in Account
    /\ x.pc \in {"load", "write"} => x.kind \in {"change", "profile", "team-member"}
    /\ x.pc \in {"member", "load", "write"} /\ x.kind = "team-member" =>
         x.lead \in Members /\ x.id \in Ids
    /\ x.pc = "member" => x.kind = "team-member"
    /\ x.pc \in {"read", "load", "write", "forget"} /\ x.kind = "change" => x.token \in Requests
    /\ x.pc = "forget" => x.kind = "change"
    /\ x.pc = "read" => x.email \in Addresses
    /\ x.pc = "idle" => x.token = Null

TypeInv == TypeOK /\ \A r \in Requests : Read(call[r])

LEMMA TypeInit == Init => TypeInv
<1> SUFFICES ASSUME Init PROVE TypeInv
  OBVIOUS
<1>1. PICK start \in [Members -> StartTeams] :
        account = [i \in Ids |->
           IF i \in Requests THEN NoAccount
           ELSE [email |-> i, password |-> i, paid |-> FALSE, status |-> "active",
                 roles |-> IF i \in Leads THEN Roles ELSE {"member"},
                 capacity |-> "low", team |-> start[i]]]
  BY DEF Init
<1>2. ASSUME NEW i \in Members
      PROVE  [email |-> i, password |-> i, paid |-> FALSE, status |-> "active",
              roles |-> IF i \in Leads THEN Roles ELSE {"member"},
              capacity |-> "low", team |-> start[i]] \in Account
  <2>1. start[i] \in Teams /\ i \in Addresses /\ i \in Ids
    BY <1>2, AccountsStart DEF Addresses, Ids
  <2>2. (IF i \in Leads THEN Roles ELSE {"member"}) \in SUBSET Roles
    BY DEF Roles
  <2> QED
    BY <2>1, <2>2 DEF Account, Statuses, Capacities
<1>3. account \in [Ids -> Account \union {NoAccount}]
  BY <1>1, <1>2 DEF Ids
<1>4. ASSUME NEW i \in Members PROVE account[i] \in Account
  BY <1>1, <1>2, AccountsNames DEF Ids
<1>5. access \subseteq Claims
  BY <1>4 DEF Init, Claims, Account, Addresses, Ids
<1>6. call \in [Requests -> Call]
  BY DEF Init, NoCall, Call, Pcs
<1>7. edits \in 0 .. MaxEdits
  BY AccountsBounds DEF Init
<1>8. TypeOK
  BY <1>3, <1>5, <1>6, <1>7 DEF Init, TypeOK
<1>9. \A r \in Requests : Read(call[r])
  BY DEF Init, NoCall, Read
<1> QED
  BY <1>8, <1>9 DEF TypeInv

LEMMA CallChanges ==
    ASSUME TypeInv, NEW r \in Requests, NEW x \in Call, Read(x),
           call' = [call EXCEPT ![r] = x]
    PROVE  /\ call' \in [Requests -> Call]
           /\ \A q \in Requests : Read(call'[q])
  BY DEF TypeInv, TypeOK

LEMMA CallBegins ==
    ASSUME TypeInv, NEW r \in Requests, NEW kind, NEW x \in Call, Read(x), Begin(r, kind, x)
    PROVE  /\ call' \in [Requests -> Call]
           /\ \A q \in Requests : Read(call'[q])
  BY CallChanges DEF Begin

LEMMA CallEnds ==
    ASSUME TypeInv, NEW r \in Requests, End(r)
    PROVE  /\ call' \in [Requests -> Call]
           /\ \A q \in Requests : Read(call'[q])
<1>1. Ended(r, "done") \in Call
  BY EndedIsCall DEF TypeInv, Pcs
<1>2. Read(Ended(r, "done"))
  BY DEF Ended, New, NoCall, Read
<1> QED
  BY <1>1, <1>2, CallChanges DEF End

LEMMA CallDoneAtOnce ==
    ASSUME TypeInv, NEW r \in Requests, NEW kind \in AllKinds, Begin(r, kind, New(kind, "done"))
    PROVE  /\ call' \in [Requests -> Call]
           /\ \A q \in Requests : Read(call'[q])
<1>1. New(kind, "done") \in Call
  BY NewIsCall DEF Pcs
<1>2. Read(New(kind, "done"))
  BY DEF New, NoCall, Read
<1> QED
  BY <1>1, <1>2, CallBegins

\* What a request holds of a row that it has just read is a row.
LEMMA AccountRead ==
    ASSUME TypeOK, NEW i, i \in Ids, Exists(i)
    PROVE  account[i] \in Account
  BY DEF TypeOK, Exists

\* What a profile may give: a capacity, none, or the one that is there.
LEMMA GivenCapacity ==
    ASSUME TypeOK, NEW i \in Ids
    PROVE  Given \union {account[i].capacity} \subseteq Capacities \union {Null}
<1>1. account[i] \in Account \/ account[i] = NoAccount
  BY DEF TypeOK
<1> QED
  BY <1>1, AccountsBounds DEF Account, NoAccount

LEMMA FoundByEmail ==
    ASSUME NEW e, NEW i \in WithEmail(e)
    PROVE  i \in Ids /\ Exists(i) /\ account[i].email = e
  BY DEF WithEmail

LEMMA SessionTypes ==
    ASSUME TypeInv, NEW r \in Requests,
           \/ \E e \in Addresses : Login(r, e) \/ SendPasswordResetLink(r, e)
           \/ \E t \in Requests : Logout(r, t) \/ Refresh(r, t) \/ ChangePassword(r, t)
    PROVE  TypeInv'
<1> USE DEF tokens, ghosts
<1>1. TypeOK
  BY DEF TypeInv
<1>2. ASSUME NEW e \in Addresses, Login(r, e) PROVE TypeInv'
  <2>1. call' \in [Requests -> Call] /\ \A q \in Requests : Read(call'[q])
    <3>1. CASE WithEmail(e) = {} /\ Begin(r, "login", New("login", "done"))
      BY <3>1, CallDoneAtOnce DEF AllKinds
    <3>2. ASSUME NEW i \in WithEmail(e),
                 Begin(r, "login", [New("login", "compare") EXCEPT !.id = i, !.copy = account[i]])
          PROVE  call' \in [Requests -> Call] /\ \A q \in Requests : Read(call'[q])
      <4> DEFINE x == [New("login", "compare") EXCEPT !.id = i, !.copy = account[i]]
      <4>1. account[i] \in Account /\ i \in Ids
        BY <1>1, <3>2, FoundByEmail, AccountRead
      <4>2. x \in Call /\ Read(x)
        BY <4>1 DEF New, NoCall, Call, Read, AllKinds, Pcs
      <4> HIDE DEF x
      <4> QED
        BY <3>2, <4>2, CallBegins DEF x
    <3> QED
      BY <1>2, <3>1, <3>2 DEF Login
  <2> QED
    BY <1>2, <2>1 DEF Login, TypeInv, TypeOK
<1>3. ASSUME NEW e \in Addresses, SendPasswordResetLink(r, e) PROVE TypeInv'
  <2>1. call' \in [Requests -> Call] /\ \A q \in Requests : Read(call'[q])
    BY <1>3, CallDoneAtOnce DEF SendPasswordResetLink, AllKinds
  <2> QED
    BY <1>3, <2>1 DEF SendPasswordResetLink, TypeInv, TypeOK
<1>4. ASSUME NEW t \in Requests, Logout(r, t) PROVE TypeInv'
  <2>1. call' \in [Requests -> Call] /\ \A q \in Requests : Read(call'[q])
    BY <1>4, CallDoneAtOnce DEF Logout, AllKinds
  <2> QED
    BY <1>4, <2>1 DEF Logout, TypeInv, TypeOK
<1>5. ASSUME NEW t \in Requests, Refresh(r, t) PROVE TypeInv'
  <2>1. call' \in [Requests -> Call] /\ \A q \in Requests : Read(call'[q])
    <3>1. CASE refreshTokens[t] = Null
      BY <1>5, <3>1, CallDoneAtOnce DEF Refresh, AllKinds
    <3>2. CASE refreshTokens[t] # Null
      <4> DEFINE x == [New("refresh", "read") EXCEPT !.email = refreshTokens[t]]
      <4>1. refreshTokens[t] \in Addresses
        BY <1>1, <3>2 DEF TypeOK
      <4>2. x \in Call /\ Read(x)
        BY <4>1 DEF New, NoCall, Call, Read, AllKinds, Pcs
      <4>3. Begin(r, "refresh", x)
        BY <1>5, <3>2 DEF Refresh
      <4> HIDE DEF x
      <4> QED
        BY <4>2, <4>3, CallBegins
    <3> QED
      BY <3>1, <3>2
  <2> QED
    BY <1>5, <2>1 DEF Refresh, TypeInv, TypeOK
<1>6. ASSUME NEW l \in Requests, ChangePassword(r, l) PROVE TypeInv'
  <2> DEFINE x == IF passwordResetTokens[l] = Null
                  THEN [New("change", "done") EXCEPT !.token = l]
                  ELSE [New("change", "read") EXCEPT !.token = l, !.email = passwordResetTokens[l]]
  <2>1. passwordResetTokens[l] \in Addresses \union {Null}
    BY <1>1 DEF TypeOK
  <2>2. x \in Call /\ Read(x)
    BY <2>1 DEF New, NoCall, Call, Read, AllKinds, Pcs
  <2>3. Begin(r, "change", x)
    BY <1>6 DEF ChangePassword
  <2> HIDE DEF x
  <2>4. call' \in [Requests -> Call] /\ \A q \in Requests : Read(call'[q])
    BY <2>2, <2>3, CallBegins
  <2> QED
    BY <1>6, <2>4 DEF ChangePassword, TypeInv, TypeOK
<1> QED
  BY <1>2, <1>3, <1>4, <1>5, <1>6

LEMMA SignUpTypes ==
    ASSUME TypeInv, NEW r \in Requests, NEW e \in Addresses,
           SendEmailConfirmation(r, e) \/ \E c \in Capacities : ProcessForm(r, e, c)
    PROVE  TypeInv'
<1> USE DEF tokens, ghosts
<1>1. CASE SendEmailConfirmation(r, e)
  <2>1. call' \in [Requests -> Call] /\ \A q \in Requests : Read(call'[q])
    BY <1>1, CallDoneAtOnce DEF SendEmailConfirmation, AllKinds
  <2> QED
    BY <1>1, <2>1 DEF SendEmailConfirmation, TypeInv, TypeOK
<1>2. ASSUME NEW c \in Capacities, ProcessForm(r, e, c) PROVE TypeInv'
  <2> DEFINE a == NewAccount(r, e, Chosen(c), Null)
  <2>1. call' \in [Requests -> Call] /\ \A q \in Requests : Read(call'[q])
    BY <1>2, CallDoneAtOnce DEF ProcessForm, AllKinds
  <2>2. a \in Account
    BY NewIsAccount, ChosenIsCapacity
  <2>3. account' = account \/ account' = [account EXCEPT ![r] = a]
    BY <1>2 DEF ProcessForm, Insert
  <2> HIDE DEF a
  <2>4. account' \in [Ids -> Account \union {NoAccount}]
    BY <2>2, <2>3 DEF TypeInv, TypeOK, Ids
  <2> QED
    BY <1>2, <2>1, <2>4 DEF ProcessForm, TypeInv, TypeOK
<1> QED
  BY <1>1, <1>2

LEMMA UserTypes ==
    ASSUME TypeInv, NEW r \in Requests, NEW i \in Ids,
           \/ \E c \in Capacities \union {Null} : UpdateProfile(r, i, c)
           \/ \E lead \in Members : UpdateTeamMember(r, lead, i)
    PROVE  TypeInv'
<1> USE DEF tokens, ghosts
<1>1. ASSUME NEW c \in Capacities \union {Null}, UpdateProfile(r, i, c) PROVE TypeInv'
  <2>1. call' \in [Requests -> Call] /\ \A q \in Requests : Read(call'[q])
    <3>1. CASE Exists(i)
      <4> DEFINE a == [account[i] EXCEPT !.capacity = c]
                 x == [New("profile", "load") EXCEPT !.id = i, !.copy = a]
      <4>1. a \in Account
        BY <3>1, AccountRead, EditedIsAccount DEF TypeInv
      <4>2. Begin(r, "profile", x)
        BY <1>1, <3>1 DEF UpdateProfile
      <4> HIDE DEF a
      <4>3. x \in Call /\ Read(x)
        BY <4>1 DEF New, NoCall, Call, Read, AllKinds, Pcs
      <4> HIDE DEF x
      <4> QED
        BY <4>2, <4>3, CallBegins
    <3>2. CASE ~Exists(i)
      BY <1>1, <3>2, CallDoneAtOnce DEF UpdateProfile, AllKinds
    <3> QED
      BY <3>1, <3>2
  <2> QED
    BY <1>1, <2>1 DEF UpdateProfile, Touches, Clears, TypeInv, TypeOK
<1>2. ASSUME NEW lead \in Members, UpdateTeamMember(r, lead, i) PROVE TypeInv'
  <2>1. call' \in [Requests -> Call] /\ \A q \in Requests : Read(call'[q])
    <3>1. CASE Exists(lead)
      <4> DEFINE x == [New("team-member", "member") EXCEPT !.id = i, !.lead = lead,
                                                           !.team = account[lead].team]
      <4>1. account[lead] \in Account
        BY <3>1, AccountRead DEF TypeInv, Ids
      <4>2. account[lead].team \in Teams \union {Null}
        BY <4>1 DEF Account
      <4>3. Begin(r, "team-member", x)
        BY <1>2, <3>1 DEF UpdateTeamMember
      <4>4. x \in Call /\ Read(x)
        BY <4>2 DEF New, NoCall, Call, Read, AllKinds, Pcs
      <4> HIDE DEF x
      <4> QED
        BY <4>3, <4>4, CallBegins
    <3>2. CASE ~Exists(lead)
      BY <1>2, <3>2, CallDoneAtOnce DEF UpdateTeamMember, AllKinds
    <3> QED
      BY <3>1, <3>2
  <2> QED
    BY <1>2, <2>1 DEF UpdateTeamMember, TypeInv, TypeOK
<1> QED
  BY <1>1, <1>2


LEMMA StepTypes ==
    ASSUME TypeInv, NEW r \in Requests, RequestStep(r)
    PROVE  TypeInv'
<1> USE DEF tokens, ghosts
<1>1. TypeOK /\ call[r] \in Call /\ Read(call[r])
  BY DEF TypeInv, TypeOK
<1>2. CASE LoginCompared(r)
  <2>1. call' \in [Requests -> Call] /\ \A q \in Requests : Read(call'[q])
    BY <1>2, CallEnds DEF LoginCompared
  <2>2. call[r].id \in Ids /\ call[r].copy.email \in Addresses /\ call[r].copy.roles \subseteq Roles
    BY <1>1, <1>2 DEF LoginCompared, At, Read, Account
  <2>3. ClaimsOf(call[r].id, call[r].copy) \in Claims
    BY <2>2 DEF ClaimsOf, Claims
  <2>4. refreshTokens' \in [Requests -> Addresses \union {Null}] /\ access' \subseteq Claims
    BY <1>1, <1>2, <2>2, <2>3 DEF LoginCompared, TypeOK
  <2> QED
    BY <1>1, <1>2, <2>1, <2>4 DEF LoginCompared, TypeInv, TypeOK
<1>3. CASE RefreshRead(r)
  <2>1. call' \in [Requests -> Call] /\ \A q \in Requests : Read(call'[q])
    BY <1>3, CallEnds DEF RefreshRead
  <2>2. ASSUME NEW i \in WithEmail(call[r].email) PROVE ClaimsOf(i, account[i]) \in Claims
    <3>1. i \in Ids /\ account[i] \in Account
      BY <1>1, FoundByEmail, AccountRead
    <3> QED
      BY <3>1 DEF ClaimsOf, Claims, Account
  <2>3. access' \subseteq Claims
    BY <1>1, <1>3, <2>2 DEF RefreshRead, TypeOK
  <2> QED
    BY <1>1, <1>3, <2>1, <2>3 DEF RefreshRead, TypeInv, TypeOK
<1>4. CASE ChangeRead(r)
  <2>1. /\ call' \in [Requests -> Call] /\ \A q \in Requests : Read(call'[q])
        /\ raced' \subseteq Ids
    <3>1. CASE End(r) /\ UNCHANGED raced
      BY <1>1, <3>1, CallEnds DEF TypeOK
    <3>2. ASSUME NEW i \in WithEmail(call[r].email), Touches(i),
                 call' = [call EXCEPT ![r].pc = "load", ![r].id = i,
                                      ![r].copy = [account[i] EXCEPT !.password = r]]
          PROVE  /\ call' \in [Requests -> Call] /\ \A q \in Requests : Read(call'[q])
                 /\ raced' \subseteq Ids
      <4> DEFINE a == [account[i] EXCEPT !.password = r]
                 x == [call[r] EXCEPT !.pc = "load", !.id = i, !.copy = a]
      <4>1. i \in Ids /\ a \in Account
        BY <1>1, FoundByEmail, AccountRead, EditedIsAccount DEF Ids
      <4>2. call' = [call EXCEPT ![r] = x]
        BY <1>1, <3>2 DEF TypeOK
      <4> HIDE DEF a
      <4>3. x \in Call /\ Read(x)
        BY <1>1, <1>4, <4>1 DEF ChangeRead, At, Call, Read, AllKinds, Pcs
      <4> HIDE DEF x
      <4>4. call' \in [Requests -> Call] /\ \A q \in Requests : Read(call'[q])
        BY <4>2, <4>3, CallChanges
      <4> QED
        BY <1>1, <3>2, <4>1, <4>4 DEF Touches, TypeOK
    <3> QED
      BY <1>4, <3>1, <3>2 DEF ChangeRead
  <2> QED
    BY <1>1, <1>4, <2>1 DEF ChangeRead, TypeInv, TypeOK
<1>5. CASE ForgetLink(r)
  <2>1. call' \in [Requests -> Call] /\ \A q \in Requests : Read(call'[q])
    BY <1>5, CallEnds DEF ForgetLink
  <2>2. passwordResetTokens' \in [Requests -> Addresses \union {Null}]
    BY <1>1, <1>5 DEF ForgetLink, TypeOK
  <2> QED
    BY <1>1, <1>5, <2>1, <2>2 DEF ForgetLink, TypeInv, TypeOK
<1>6. ASSUME NEW st \in Statuses, NEW c \in Given, ReadTeamMember(r, st, c) PROVE TypeInv'
  <2> DEFINE i == call[r].id
             a == [account[i] EXCEPT !.status = st, !.capacity = c]
             x == [call[r] EXCEPT !.pc = "load", !.copy = a]
  <2>1. i \in Ids
    BY <1>1, <1>6 DEF ReadTeamMember, At, Read
  <2>2. CASE Exists(i) /\ account[i].team = call[r].team
    <3>1. a \in Account
      BY <1>1, <2>1, <2>2, AccountRead, EditedIsAccount, AccountsBounds
    <3>2. call' = [call EXCEPT ![r] = x] /\ Touches(i)
          /\ UNCHANGED <<account, tokens, access, mailed, edits, used, doubled, moved>>
          /\ Clears(i, c)
      BY <1>1, <1>6, <2>2 DEF ReadTeamMember, TypeOK
    <3> HIDE DEF a
    <3>3. x \in Call /\ Read(x)
      BY <1>1, <1>6, <2>1, <3>1 DEF ReadTeamMember, At, Call, Read, AllKinds, Pcs
    <3> HIDE DEF x, i
    <3>4. call' \in [Requests -> Call] /\ \A q \in Requests : Read(call'[q])
      BY <3>2, <3>3, CallChanges
    <3>5. raced' \subseteq Ids /\ cleared' \subseteq Ids
      BY <1>1, <2>1, <3>2 DEF Touches, Clears, TypeOK
    <3> QED
      BY <1>1, <3>2, <3>4, <3>5 DEF TypeInv, TypeOK
  <2>3. CASE ~(Exists(i) /\ account[i].team = call[r].team)
    <3>1. End(r) /\ UNCHANGED <<raced, cleared, account, tokens, access, mailed, edits, used,
                                doubled, moved>>
      BY <1>6, <2>3 DEF ReadTeamMember
    <3>2. call' \in [Requests -> Call] /\ \A q \in Requests : Read(call'[q])
      BY <3>1, CallEnds
    <3> QED
      BY <1>1, <3>1, <3>2 DEF TypeInv, TypeOK
  <2> QED
    BY <2>2, <2>3
<1>7. CASE SaveUser(r)
  <2> DEFINE cols == Diff(call[r].copy, account[call[r].id], call[r].kind)
             x == [call[r] EXCEPT !.pc = "write", !.cols = cols]
  <2>1. End(r) \/ call' = [call EXCEPT ![r] = x]
    BY <1>1, <1>7 DEF SaveUser, TypeOK
  <2>2. cols \subseteq Columns
    BY DEF Diff, Loaded, Columns
  <2> HIDE DEF cols
  <2>3. x \in Call /\ Read(x)
    BY <1>1, <1>7, <2>2 DEF SaveUser, Call, Read, AllKinds, Pcs
  <2> HIDE DEF x
  <2>4. call' \in [Requests -> Call] /\ \A q \in Requests : Read(call'[q])
    BY <2>1, <2>3, CallChanges, CallEnds
  <2> QED
    BY <1>1, <1>7, <2>4 DEF SaveUser, TypeInv, TypeOK
<1>8. CASE UpdateUser(r)
  <2>1. call[r].id \in Ids /\ call[r].copy \in Account
    BY <1>1, <1>8 DEF UpdateUser, Read
  <2>2. account' \in [Ids -> Account \union {NoAccount}]
    <3> DEFINE i == call[r].id
               a == Written(account[i], call[r].copy, call[r].cols)
    <3>1. CASE Exists(i)
      <4>1. a \in Account
        BY <1>1, <2>1, <3>1, AccountRead, WrittenIsAccount
      <4>2. account' = [account EXCEPT ![i] = a]
        BY <1>8, <3>1 DEF UpdateUser
      <4> HIDE DEF a
      <4> QED
        BY <1>1, <2>1, <4>1, <4>2 DEF TypeOK
    <3>2. CASE ~Exists(i)
      BY <1>1, <1>8, <3>2 DEF UpdateUser, TypeOK
    <3> QED
      BY <3>1, <3>2
  <2>3. /\ call' \in [Requests -> Call] /\ \A q \in Requests : Read(call'[q])
        /\ used' \subseteq Requests \X Requests
    <3>1. CASE call[r].kind = "change"
      <4> DEFINE x == [Ended(r, "forget") EXCEPT !.id = call[r].id]
      <4>1. call[r].token \in Requests
        BY <1>1, <1>8, <3>1 DEF UpdateUser, Read
      <4>2. call' = [call EXCEPT ![r] = x] /\ used' = used \union {<<call[r].token, r>>}
        BY <1>8, <3>1 DEF UpdateUser
      <4>3. x \in Call /\ Read(x)
        BY <2>1, <3>1, <4>1 DEF Ended, New, NoCall, Call, Read, AllKinds, Pcs
      <4> HIDE DEF x
      <4>4. call' \in [Requests -> Call] /\ \A q \in Requests : Read(call'[q])
        BY <4>2, <4>3, CallChanges
      <4> QED
        BY <1>1, <4>1, <4>2, <4>4 DEF TypeOK
    <3>2. CASE call[r].kind # "change"
      BY <1>1, <1>8, <3>2, CallEnds DEF UpdateUser, TypeOK
    <3> QED
      BY <3>1, <3>2
  <2>4. moved' \subseteq Requests /\ cleared' \subseteq Ids
    BY <1>1, <1>8 DEF UpdateUser, Moves, TypeOK
  <2> QED
    BY <1>1, <1>8, <2>2, <2>3, <2>4 DEF UpdateUser, TypeInv, TypeOK
<1> QED
  BY <1>2, <1>3, <1>4, <1>5, <1>6, <1>7, <1>8 DEF RequestStep

LEMMA EditTypes ==
    ASSUME TypeInv, NEW i \in Ids, NEW a \in AdminEdits(i), EditUser(i, a)
    PROVE  TypeInv'
<1> USE DEF tokens, ghosts
<1>1. TypeOK /\ account[i] \in Account
  BY AccountRead DEF TypeInv, EditUser
<1>2. a \in Account \union {NoAccount}
  <2>1. {"member"} \in SUBSET Roles /\ Roles \in SUBSET Roles /\ TRUE \in BOOLEAN
    BY DEF Roles
  <2>2. \A x \in {{"member"}, Roles} : [account[i] EXCEPT !.roles = x] \in Account
    BY <1>1, <2>1, EditedIsAccount
  <2>3. \A x \in Statuses : [account[i] EXCEPT !.status = x] \in Account
    BY <1>1, EditedIsAccount
  <2>4. \A x \in Given : [account[i] EXCEPT !.capacity = x] \in Account
    <3>1. \A x \in Capacities \union {Null} : [account[i] EXCEPT !.capacity = x] \in Account
      BY <1>1, EditedIsAccount
    <3> QED
      BY <3>1, AccountsBounds
  <2>5. \A x \in Teams \union {Null} : [account[i] EXCEPT !.team = x] \in Account
    BY <1>1, EditedIsAccount
  <2>6. [account[i] EXCEPT !.paid = TRUE] \in Account
    BY <1>1, <2>1, EditedIsAccount
  <2> QED
    BY <2>2, <2>3, <2>4, <2>5, <2>6 DEF AdminEdits
<1>3. account' \in [Ids -> Account \union {NoAccount}]
  BY <1>1, <1>2 DEF EditUser, TypeOK
<1>4. raced' \subseteq Ids /\ moved' \subseteq Requests /\ cleared' \subseteq Ids
  BY <1>1 DEF EditUser, Touches, Moves, Clears, TypeOK
<1>5. edits' \in 0 .. MaxEdits
  BY <1>1, AccountsBounds DEF EditUser, TypeOK
<1> QED
  BY <1>1, <1>3, <1>4, <1>5 DEF EditUser, TypeInv, TypeOK

LEMMA CreateTypes ==
    ASSUME TypeInv, NEW r \in Requests, NEW e \in Addresses, NEW c \in Given,
           NEW t \in Teams \union {Null}, CreateUser(r, e, c, t)
    PROVE  TypeInv'
<1> USE DEF tokens, ghosts
<1> DEFINE a == NewAccount(r, e, c, t)
<1>1. call' \in [Requests -> Call] /\ \A q \in Requests : Read(call'[q])
  BY CallDoneAtOnce DEF CreateUser, AllKinds
<1>2. a \in Account
  BY NewIsAccount, AccountsBounds
<1>3. account' = account \/ account' = [account EXCEPT ![r] = a]
  BY DEF CreateUser, Insert
<1> HIDE DEF a
<1>4. account' \in [Ids -> Account \union {NoAccount}]
  BY <1>2, <1>3 DEF TypeInv, TypeOK, Ids
<1>5. edits' \in 0 .. MaxEdits /\ cleared' \subseteq Ids
  BY AccountsBounds DEF CreateUser, TypeInv, TypeOK, Ids
<1> QED
  BY <1>1, <1>4, <1>5 DEF CreateUser, TypeInv, TypeOK

LEMMA CrashTypes == ASSUME TypeInv, Crash PROVE TypeInv'
<1> USE DEF tokens, ghosts
<1>1. ASSUME NEW r \in Requests PROVE Ended(r, "lost") \in Call /\ Read(Ended(r, "lost"))
  <2>1. Ended(r, "lost") \in Call
    BY EndedIsCall DEF TypeInv, Pcs
  <2>2. Read(Ended(r, "lost"))
    BY DEF Ended, New, NoCall, Read
  <2> QED
    BY <2>1, <2>2
<1>2. call' = [r \in Requests |-> IF Active(r) THEN Ended(r, "lost") ELSE call[r]]
  BY DEF Crash
<1>3. call' \in [Requests -> Call] /\ \A r \in Requests : Read(call'[r])
  BY <1>1, <1>2 DEF TypeInv, TypeOK
<1> QED
  BY <1>3 DEF Crash, TypeInv, TypeOK

LEMMA TypeNext == TypeInv /\ [Next]_vars => TypeInv'
<1> SUFFICES ASSUME TypeInv, [Next]_vars PROVE TypeInv'
  OBVIOUS
<1>1. CASE AuthController
  BY <1>1, SessionTypes DEF AuthController
<1>2. CASE NewUserController
  BY <1>2, SignUpTypes DEF NewUserController
<1>3. CASE UserController
  <2>1. \A i \in Ids : Given \union {account[i].capacity} \subseteq Capacities \union {Null}
    BY GivenCapacity DEF TypeInv
  <2> QED
    BY <1>3, <2>1, UserTypes DEF UserController, Ids
<1>4. ASSUME NEW r \in Requests, RequestStep(r) PROVE TypeInv'
  BY <1>4, StepTypes
<1>5. CASE UserAdminController
  BY <1>5, EditTypes, CreateTypes DEF UserAdminController
<1>6. CASE Crash
  BY <1>6, CrashTypes
<1>7. CASE UNCHANGED vars
  BY <1>7 DEF vars, tokens, ghosts, TypeInv, TypeOK
<1> QED
  BY <1>1, <1>2, <1>3, <1>4, <1>5, <1>6, <1>7 DEF Next

LEMMA TypeInductive == Spec => []TypeInv
  BY TypeInit, TypeNext, PTL DEF Spec

\* Every reachable state is well typed.
THEOREM AccountsTypeCorrect == Spec => []TypeOK
<1>1. TypeInv => TypeOK
  BY DEF TypeInv
<1> QED
  BY <1>1, TypeInductive, PTL


-----------------------------------------------------------------------------
(* Links.  A request that has used a link and is not in the middle of forgetting it   *)
(* leaves no link behind; until then it holds it, as every request does that may      *)
(* still use it.                                                                      *)

Holds(r, l) == Active(r) /\ call[r].token = l

Spent(l, r) ==
    <<l, r>> \in used =>
        /\ call[r].token = l /\ call[r].pc \in {"forget", "done", "lost"}
        /\ call[r].pc # "forget" => passwordResetTokens[l] = Null /\ call[l].pc # "idle"

\* A link was issued by a request, which issues no second one.
Issued(l) ==
    /\ passwordResetTokens[l] # Null => call[l].pc # "idle"
    /\ \A r \in Requests : Holds(r, l) => call[l].pc # "idle"

\* Two requests that hold a link, or have used it while the other holds it, are noted.
Noted(l, q, r) ==
    q # r => /\ Holds(q, l) /\ (Holds(r, l) \/ <<l, r>> \in used) => l \in doubled
             /\ <<l, q>> \in used /\ <<l, r>> \in used => l \in doubled

LinkInv ==
    /\ \A l, r \in Requests : Spent(l, r)
    /\ \A l \in Requests : Issued(l)
    /\ \A l, q, r \in Requests : Noted(l, q, r)

LEMMA LinkInit == Init => LinkInv
<1> SUFFICES ASSUME Init PROVE LinkInv
  OBVIOUS
<1>1. used = {} /\ \A r \in Requests : ~Active(r) /\ passwordResetTokens[r] = Null
  BY DEF Init, NoCall, Active
<1> QED
  BY <1>1 DEF LinkInv, Spent, Issued, Noted, Holds

\* A step of one request that neither uses a link nor takes one up.
LEMMA LinkKept ==
    ASSUME TypeInv, LinkInv, NEW r \in Requests,
           \A q \in Requests \ {r} : call'[q] = call[q],
           call[r].pc \notin {"forget", "done", "lost"}, call'[r].pc # "idle",
           \A l \in Requests : Holds(r, l)' => Holds(r, l),
           \A l \in Requests : passwordResetTokens'[l] # Null =>
              passwordResetTokens[l] # Null \/ (l = r /\ call[r].pc = "idle"),
           used' = used, doubled' = doubled
    PROVE  LinkInv'
<1>1. \A l \in Requests : <<l, r>> \notin used
  BY DEF LinkInv, Spent
<1>2. \A l \in Requests : call[l].pc # "idle" => call'[l].pc # "idle"
  OBVIOUS
<1>3. \A l, q \in Requests : Holds(q, l)' => Holds(q, l)
  BY DEF Holds, Active
<1>4. ASSUME NEW l \in Requests, NEW q \in Requests PROVE Spent(l, q)'
  BY <1>1, <1>2 DEF LinkInv, Spent
<1>5. ASSUME NEW l \in Requests PROVE Issued(l)'
  BY <1>2, <1>3 DEF LinkInv, Issued
<1>6. ASSUME NEW l \in Requests, NEW q \in Requests, NEW t \in Requests PROVE Noted(l, q, t)'
  BY <1>3 DEF LinkInv, Noted
<1> QED
  BY <1>4, <1>5, <1>6 DEF LinkInv

LEMMA NullIsNoRequest == Null \notin Requests
  BY NullIsNobody DEF Ids

\* A request that begins, and ends at once or has no link, takes none up.
LEMMA LinkBegins ==
    ASSUME TypeInv, LinkInv, NEW r \in Requests, NEW kind, NEW x, Begin(r, kind, x),
           x.pc # "idle", x.token = Null \/ x.pc = "done",
           \A l \in Requests : passwordResetTokens'[l] = passwordResetTokens[l] \/ l = r,
           used' = used, doubled' = doubled
    PROVE  LinkInv'
<1>1. /\ call[r].pc = "idle" /\ call'[r] = x
      /\ \A q \in Requests \ {r} : call'[q] = call[q]
  BY DEF Begin, TypeInv, TypeOK
<1>2. \A l \in Requests : ~Holds(r, l)'
  BY <1>1, NullIsNoRequest DEF Holds, Active
<1> QED
  BY <1>1, <1>2, LinkKept

LEMMA LinkEnds ==
    ASSUME TypeInv, LinkInv, NEW r \in Requests, End(r),
           call[r].pc \notin {"idle", "forget", "done", "lost"},
           UNCHANGED <<passwordResetTokens, used, doubled>>
    PROVE  LinkInv'
<1>1. /\ call'[r].pc = "done"
      /\ \A q \in Requests \ {r} : call'[q] = call[q]
  BY DEF End, Ended, New, NoCall, TypeInv, TypeOK
<1>2. \A l \in Requests : ~Holds(r, l)'
  BY <1>1 DEF Holds, Active
<1> QED
  BY <1>1, <1>2, LinkKept

LEMMA LinkGoesOn ==
    ASSUME TypeInv, LinkInv, NEW r \in Requests,
           \A q \in Requests \ {r} : call'[q] = call[q],
           Active(r), call[r].pc # "forget",
           call'[r].pc # "idle", call'[r].token = call[r].token,
           UNCHANGED <<passwordResetTokens, used, doubled>>
    PROVE  LinkInv'
<1>1. \A l \in Requests : Holds(r, l)' => Holds(r, l)
  BY DEF Holds
<1> QED
  BY <1>1, LinkKept DEF Active

\* Taking up a link that is still there.  Whoever has used it holds it.
LEMMA LinkTaken ==
    ASSUME TypeInv, LinkInv, NEW r \in Requests, NEW l \in Requests, ChangePassword(r, l)
    PROVE  LinkInv'
<1> USE DEF tokens, ghosts
<1>1. CASE passwordResetTokens[l] = Null
  <2> DEFINE x == [New("change", "done") EXCEPT !.token = l]
  <2>1. Begin(r, "change", x) /\ x.pc = "done"
    BY <1>1 DEF ChangePassword, New, NoCall
  <2>2. \A k \in Requests : Holds(r, k)' => Holds(r, k)
    BY <2>1 DEF Begin, Holds, Active, TypeInv, TypeOK
  <2>3. /\ call[r].pc = "idle" /\ call'[r].pc = "done"
        /\ \A q \in Requests \ {r} : call'[q] = call[q]
    BY <2>1 DEF Begin, TypeInv, TypeOK
  <2>4. UNCHANGED <<passwordResetTokens, used>> /\ doubled \subseteq doubled'
    BY DEF ChangePassword
  <2>5. \A k \in Requests : <<k, r>> \notin used
    BY <2>3 DEF LinkInv, Spent
  <2>6. \A k, q \in Requests : Holds(q, k)' => Holds(q, k)
    BY <2>2, <2>3 DEF Holds, Active
  <2>7. ASSUME NEW k \in Requests, NEW q \in Requests PROVE Spent(k, q)'
    BY <2>3, <2>4, <2>5 DEF LinkInv, Spent
  <2>8. ASSUME NEW k \in Requests PROVE Issued(k)'
    BY <2>3, <2>4, <2>6 DEF LinkInv, Issued
  <2>9. ASSUME NEW k \in Requests, NEW q \in Requests, NEW t \in Requests PROVE Noted(k, q, t)'
    BY <2>4, <2>6 DEF LinkInv, Noted
  <2> QED
    BY <2>7, <2>8, <2>9 DEF LinkInv
<1>2. CASE passwordResetTokens[l] # Null
  <2> DEFINE x == [New("change", "read") EXCEPT !.token = l, !.email = passwordResetTokens[l]]
  <2>1. Begin(r, "change", x) /\ x.pc = "read" /\ x.token = l
    BY <1>2 DEF ChangePassword, New, NoCall
  <2>2. /\ call[r].pc = "idle" /\ call'[r].pc = "read" /\ call'[r].token = l
        /\ \A q \in Requests \ {r} : call'[q] = call[q]
    BY <2>1 DEF Begin, TypeInv, TypeOK
  <2>3. UNCHANGED <<passwordResetTokens, used>> /\ doubled \subseteq doubled'
        /\ ((\E q \in Requests : call[q].token = l /\ Active(q)) => l \in doubled')
    BY DEF ChangePassword
  <2>4. \A k \in Requests : <<k, r>> \notin used
    BY <2>2 DEF LinkInv, Spent
  <2>5. \A q \in Requests : Holds(q, l) \/ <<l, q>> \in used => l \in doubled'
    BY <1>2, <2>3 DEF LinkInv, Spent, Holds, Active
  <2>6. \A k, q \in Requests : q # r \/ k # l => (Holds(q, k)' => Holds(q, k))
    BY <2>2 DEF Holds, Active
  <2>7. ASSUME NEW k \in Requests, NEW q \in Requests PROVE Spent(k, q)'
    BY <2>2, <2>3, <2>4 DEF LinkInv, Spent
  <2>8. call[l].pc # "idle"
    BY <1>2 DEF LinkInv, Issued
  <2>9. ASSUME NEW k \in Requests PROVE Issued(k)'
    BY <2>2, <2>3, <2>6, <2>8 DEF LinkInv, Issued
  <2>10. ASSUME NEW k \in Requests, NEW q \in Requests, NEW t \in Requests PROVE Noted(k, q, t)'
    <3>1. CASE k = l /\ (q = r \/ t = r)
      BY <2>3, <2>4, <2>5, <2>6, <3>1 DEF Noted
    <3>2. CASE k # l \/ (q # r /\ t # r)
      BY <2>3, <2>6, <3>2 DEF LinkInv, Noted
    <3> QED
      BY <3>1, <3>2
  <2> QED
    BY <2>7, <2>9, <2>10 DEF LinkInv
<1> QED
  BY <1>1, <1>2

\* The password is stored: the request has used its link, and holds it still.
LEMMA LinkUsed ==
    ASSUME TypeInv, LinkInv, NEW r \in Requests, UpdateUser(r), call[r].kind = "change"
    PROVE  LinkInv'
<1> USE DEF tokens, ghosts
<1> DEFINE l == call[r].token
<1>1. l \in Requests /\ call[r].pc = "write"
  BY DEF TypeInv, Read, UpdateUser
<1>2. /\ call'[r].pc = "forget" /\ call'[r].token = l
      /\ \A q \in Requests \ {r} : call'[q] = call[q]
      /\ used' = used \union {<<l, r>>}
      /\ UNCHANGED <<passwordResetTokens, doubled>>
  BY DEF UpdateUser, Ended, New, NoCall, TypeInv, TypeOK
<1>3. Holds(r, l) /\ \A k \in Requests : <<k, r>> \notin used
  BY <1>1 DEF Holds, Active, LinkInv, Spent
<1> HIDE DEF l
<1>4. \A k, q \in Requests : Holds(q, k)' => Holds(q, k)
  BY <1>2, <1>3 DEF Holds, Active
<1>5. ASSUME NEW k \in Requests, NEW q \in Requests PROVE Spent(k, q)'
  BY <1>1, <1>2, <1>3 DEF LinkInv, Spent
<1>6. ASSUME NEW k \in Requests PROVE Issued(k)'
  BY <1>1, <1>2, <1>4 DEF LinkInv, Issued
<1>7. ASSUME NEW k \in Requests, NEW q \in Requests, NEW t \in Requests PROVE Noted(k, q, t)'
  BY <1>1, <1>2, <1>3, <1>4 DEF LinkInv, Noted
<1> QED
  BY <1>5, <1>6, <1>7 DEF LinkInv

LEMMA LinkForgotten ==
    ASSUME TypeInv, LinkInv, NEW r \in Requests, ForgetLink(r)
    PROVE  LinkInv'
<1> USE DEF tokens, ghosts
<1> DEFINE l == call[r].token
<1>1. l \in Requests /\ call[r].pc = "forget"
  BY DEF TypeInv, Read, ForgetLink, At
<1>2. /\ call'[r].pc = "done" /\ call'[r].token = l
      /\ \A q \in Requests \ {r} : call'[q] = call[q]
      /\ passwordResetTokens' = [passwordResetTokens EXCEPT ![l] = Null]
      /\ UNCHANGED <<used, doubled>>
  BY DEF ForgetLink, End, Ended, New, NoCall, TypeInv, TypeOK
<1>3. \A k \in Requests : passwordResetTokens'[k] \in {passwordResetTokens[k], Null}
      /\ passwordResetTokens'[l] = Null
  BY <1>1, <1>2 DEF TypeInv, TypeOK
<1>4. Holds(r, l)
  BY <1>1 DEF Holds, Active
<1> HIDE DEF l
<1>5. ASSUME NEW k \in Requests, NEW q \in Requests, Holds(q, k)' PROVE Holds(q, k)
  <2>1. q # r
    BY <1>2, <1>5 DEF Holds, Active
  <2> QED
    BY <1>2, <1>5, <2>1 DEF Holds, Active
<1>6. ASSUME NEW k \in Requests, NEW q \in Requests PROVE Spent(k, q)'
  <2>1. Spent(k, q) /\ (Holds(r, k) => call[k].pc # "idle")
    BY DEF LinkInv, Issued
  <2>2. call[k].pc # "idle" => call'[k].pc # "idle"
    BY <1>2
  <2>3. CASE q = r
    <3>1. <<k, q>> \in used => k = l
      BY <2>1, <2>3 DEF Spent, l
    <3> QED
      BY <1>2, <1>3, <1>4, <2>1, <2>2, <2>3, <3>1 DEF Spent
  <2>4. CASE q # r
    BY <1>2, <1>3, <2>1, <2>2, <2>4 DEF Spent
  <2> QED
    BY <2>3, <2>4
<1>7. ASSUME NEW k \in Requests PROVE Issued(k)'
  BY <1>1, <1>2, <1>3, <1>5 DEF LinkInv, Issued
<1>8. ASSUME NEW k \in Requests, NEW q \in Requests, NEW t \in Requests PROVE Noted(k, q, t)'
  BY <1>2, <1>5 DEF LinkInv, Noted
<1> QED
  BY <1>6, <1>7, <1>8 DEF LinkInv

LEMMA LinkLost == ASSUME TypeInv, LinkInv, Crash PROVE LinkInv'
<1> USE DEF tokens, ghosts
<1>1. /\ \A r \in Requests : passwordResetTokens'[r] = Null
      /\ UNCHANGED <<used, doubled>>
  BY DEF Crash
<1>2. ASSUME NEW r \in Requests
      PROVE  /\ call'[r].token = call[r].token /\ ~Active(r)'
             /\ Active(r) => call'[r].pc = "lost"
             /\ ~Active(r) => call'[r].pc = call[r].pc
  BY DEF Crash, Active, Ended, New, NoCall
<1>3. \A k, q \in Requests : ~Holds(q, k)'
  BY <1>2 DEF Holds
<1>4. \A k \in Requests : call[k].pc # "idle" => call'[k].pc # "idle"
  BY <1>2
<1>5. ASSUME NEW k \in Requests, NEW q \in Requests PROVE Spent(k, q)'
  <2>1. Spent(k, q) /\ Issued(k)
    BY DEF LinkInv
  <2>2. <<k, q>> \in used => call[k].pc # "idle"
    BY <2>1 DEF Spent, Issued, Holds, Active
  <2>3. <<k, q>> \in used => call'[q].pc \in {"done", "lost"}
    BY <1>2, <2>1 DEF Spent, Active
  <2> QED
    BY <1>1, <1>2, <1>4, <2>1, <2>2, <2>3 DEF Spent
<1>6. ASSUME NEW k \in Requests PROVE Issued(k)'
  BY <1>1, <1>3 DEF Issued
<1>7. ASSUME NEW k \in Requests, NEW q \in Requests, NEW t \in Requests PROVE Noted(k, q, t)'
  BY <1>1, <1>3 DEF LinkInv, Noted
<1> QED
  BY <1>5, <1>6, <1>7 DEF LinkInv


LEMMA LinkNext == TypeInv /\ LinkInv /\ [Next]_vars => LinkInv'
<1> SUFFICES ASSUME TypeInv, LinkInv, [Next]_vars PROVE LinkInv'
  OBVIOUS
<1> USE DEF tokens, ghosts
<1>1. ASSUME NEW r \in Requests, NEW e \in Addresses, Login(r, e) PROVE LinkInv'
  <2>1. ASSUME NEW i, Begin(r, "login", [New("login", "compare") EXCEPT !.id = i,
                                                                  !.copy = account[i]])
        PROVE  LinkInv'
    <3> DEFINE x == [New("login", "compare") EXCEPT !.id = i, !.copy = account[i]]
    <3>1. x.pc # "idle" /\ x.token = Null
      BY DEF New, NoCall
    <3> HIDE DEF x
    <3> QED
      BY <1>1, <2>1, <3>1, LinkBegins DEF Login, x
  <2>2. CASE Begin(r, "login", New("login", "done"))
    BY <1>1, <2>2, LinkBegins DEF Login, New, NoCall
  <2> QED
    BY <1>1, <2>1, <2>2 DEF Login
<1>2. ASSUME NEW r \in Requests, NEW e \in Addresses, SendPasswordResetLink(r, e) PROVE LinkInv'
  <2>1. \A l \in Requests : passwordResetTokens'[l] = passwordResetTokens[l] \/ l = r
    BY <1>2 DEF SendPasswordResetLink, TypeInv, TypeOK
  <2>2. Begin(r, "link", New("link", "done")) /\ used' = used /\ doubled' = doubled
    BY <1>2 DEF SendPasswordResetLink
  <2> QED
    BY <2>1, <2>2, LinkBegins DEF New, NoCall
<1>3. ASSUME NEW r \in Requests, NEW t \in Requests, Logout(r, t) \/ Refresh(r, t) PROVE LinkInv'
  <2> DEFINE x == [New("refresh", "read") EXCEPT !.email = refreshTokens[t]]
  <2>1. x.pc # "idle" /\ x.token = Null
    BY DEF New, NoCall
  <2>2. /\ Begin(r, "refresh", x) \/ Begin(r, "refresh", New("refresh", "done"))
           \/ Begin(r, "logout", New("logout", "done"))
        /\ UNCHANGED <<passwordResetTokens, used, doubled>>
    BY <1>3 DEF Logout, Refresh
  <2> HIDE DEF x
  <2> QED
    BY <2>1, <2>2, LinkBegins DEF New, NoCall
<1>4. ASSUME NEW r \in Requests, NEW l \in Requests, ChangePassword(r, l) PROVE LinkInv'
  BY <1>4, LinkTaken
<1>5. ASSUME NEW r \in Requests, NEW e \in Addresses,
             \/ SendEmailConfirmation(r, e) \/ \E c \in Capacities : ProcessForm(r, e, c)
             \/ \E c \in Given, t \in Teams \union {Null} : CreateUser(r, e, c, t)
      PROVE  LinkInv'
  <2>1. /\ \/ Begin(r, "confirm", New("confirm", "done")) \/ Begin(r, "form", New("form", "done"))
           \/ Begin(r, "create", New("create", "done"))
        /\ UNCHANGED <<passwordResetTokens, used, doubled>>
    BY <1>5 DEF SendEmailConfirmation, ProcessForm, CreateUser
  <2> QED
    BY <2>1, LinkBegins DEF New, NoCall
<1>6. ASSUME NEW r \in Requests, NEW i \in Ids, NEW c \in Capacities \union {Null}, UpdateProfile(r, i, c)
      PROVE  LinkInv'
  <2> DEFINE x == [New("profile", "load") EXCEPT
                     !.id = i, !.copy = [account[i] EXCEPT !.capacity = c]]
  <2>1. x.pc # "idle" /\ x.token = Null
    BY DEF New, NoCall
  <2>2. /\ Begin(r, "profile", x) \/ Begin(r, "profile", New("profile", "done"))
        /\ UNCHANGED <<passwordResetTokens, used, doubled>>
    BY <1>6 DEF UpdateProfile
  <2> HIDE DEF x
  <2> QED
    BY <2>1, <2>2, LinkBegins DEF New, NoCall
<1>7. ASSUME NEW r \in Requests, NEW lead \in Members, NEW i \in Ids, UpdateTeamMember(r, lead, i)
      PROVE  LinkInv'
  <2> DEFINE x == [New("team-member", "member") EXCEPT !.id = i, !.lead = lead,
                                                       !.team = account[lead].team]
  <2>1. x.pc # "idle" /\ x.token = Null
    BY DEF New, NoCall
  <2>2. /\ Begin(r, "team-member", x) \/ Begin(r, "team-member", New("team-member", "done"))
        /\ UNCHANGED <<passwordResetTokens, used, doubled>>
    BY <1>7 DEF UpdateTeamMember
  <2> HIDE DEF x
  <2> QED
    BY <2>1, <2>2, LinkBegins DEF New, NoCall
<1>8. ASSUME NEW r \in Requests, LoginCompared(r) \/ RefreshRead(r) PROVE LinkInv'
  BY <1>8, LinkEnds DEF LoginCompared, RefreshRead, At
<1>9. ASSUME NEW r \in Requests, ChangeRead(r) PROVE LinkInv'
  <2>1. UNCHANGED <<passwordResetTokens, used, doubled>> /\ call[r].pc = "read"
    BY <1>9 DEF ChangeRead, At
  <2>2. ASSUME NEW i, call' = [call EXCEPT ![r].pc = "load", ![r].id = i,
                                  ![r].copy = [account[i] EXCEPT !.password = r]]
        PROVE  LinkInv'
    <3>1. /\ call'[r].pc = "load" /\ call'[r].token = call[r].token
          /\ \A q \in Requests \ {r} : call'[q] = call[q]
      BY <2>2 DEF TypeInv, TypeOK, Call
    <3> QED
      BY <2>1, <3>1, LinkGoesOn DEF Active
  <2>3. CASE End(r)
    BY <2>1, <2>3, LinkEnds
  <2> QED
    BY <1>9, <2>2, <2>3 DEF ChangeRead
<1>10. ASSUME NEW r \in Requests, ForgetLink(r) PROVE LinkInv'
  BY <1>10, LinkForgotten
<1>11. ASSUME NEW r \in Requests, SaveUser(r) PROVE LinkInv'
  <2>1. UNCHANGED <<passwordResetTokens, used, doubled>> /\ call[r].pc = "load"
    BY <1>11 DEF SaveUser
  <2>2. ASSUME NEW cols, call' = [call EXCEPT ![r].pc = "write", ![r].cols = cols]
        PROVE  LinkInv'
    <3>1. /\ call'[r].pc = "write" /\ call'[r].token = call[r].token
          /\ \A q \in Requests \ {r} : call'[q] = call[q]
      BY <2>2 DEF TypeInv, TypeOK, Call
    <3> QED
      BY <2>1, <3>1, LinkGoesOn DEF Active
  <2>3. CASE End(r)
    BY <2>1, <2>3, LinkEnds
  <2> QED
    BY <1>11, <2>2, <2>3 DEF SaveUser
<1>12. ASSUME NEW r \in Requests, UpdateUser(r) PROVE LinkInv'
  <2>1. CASE call[r].kind = "change"
    BY <1>12, <2>1, LinkUsed
  <2>2. CASE call[r].kind # "change"
    BY <1>12, <2>2, LinkEnds DEF UpdateUser
  <2> QED
    BY <2>1, <2>2
<1>13. ASSUME NEW r \in Requests, NEW st \in Statuses, NEW c \in Given, ReadTeamMember(r, st, c)
       PROVE  LinkInv'
  <2>1. UNCHANGED <<passwordResetTokens, used, doubled>> /\ call[r].pc = "member"
    BY <1>13 DEF ReadTeamMember, At
  <2>2. ASSUME NEW a, call' = [call EXCEPT ![r].pc = "load", ![r].copy = a] PROVE LinkInv'
    <3>1. /\ call'[r].pc = "load" /\ call'[r].token = call[r].token
          /\ \A q \in Requests \ {r} : call'[q] = call[q]
      BY <2>2 DEF TypeInv, TypeOK, Call
    <3> QED
      BY <2>1, <3>1, LinkGoesOn DEF Active
  <2>3. CASE End(r)
    BY <2>1, <2>3, LinkEnds
  <2> QED
    BY <1>13, <2>2, <2>3 DEF ReadTeamMember
<1>14. ASSUME NEW i \in Ids, NEW a \in AdminEdits(i), EditUser(i, a) PROVE LinkInv'
  BY <1>14 DEF EditUser, LinkInv, Spent, Issued, Noted, Holds, Active
<1>15. CASE Crash
  BY <1>15, LinkLost
<1>16. CASE UNCHANGED vars
  BY <1>16 DEF vars, LinkInv, Spent, Issued, Noted, Holds, Active
<1>17. CASE AuthController
  BY <1>1, <1>2, <1>3, <1>4, <1>17 DEF AuthController
<1>18. CASE NewUserController
  BY <1>5, <1>18 DEF NewUserController
<1>19. CASE UserController
  <2>1. \A i \in Ids : Given \union {account[i].capacity} \subseteq Capacities \union {Null}
    BY GivenCapacity DEF TypeInv
  <2> QED
    BY <1>6, <1>7, <1>19, <2>1 DEF UserController
<1>20. ASSUME NEW r \in Requests, RequestStep(r) PROVE LinkInv'
  BY <1>8, <1>9, <1>10, <1>11, <1>12, <1>13, <1>20 DEF RequestStep
<1>30. CASE UserAdminController
  BY <1>14, <1>5, <1>30 DEF UserAdminController
<1> QED
  BY <1>30, <1>15, <1>16, <1>17, <1>18, <1>19, <1>20 DEF Next

\* A mailed link changes one password once, whatever is lost by a restart, unless two
\* requests held it at the same time.
THEOREM LinksWorkOnce == Spec => []LinkUsedOnce
<1>1. Init => TypeInv /\ LinkInv
  BY TypeInit, LinkInit
<1>2. (TypeInv /\ LinkInv) /\ [Next]_vars => (TypeInv /\ LinkInv)'
  BY TypeNext, LinkNext
<1>3. TypeInv /\ LinkInv => LinkUsedOnce
  BY DEF LinkInv, Noted, LinkUsedOnce
<1> QED
  BY <1>1, <1>2, <1>3, PTL DEF Spec


-----------------------------------------------------------------------------
(* Saves.  As long as nobody else has touched it, the row that a request holds is the *)
(* row it read, but for the columns the request is about; and nobody else holds it.   *)

Holding(r, i) == call[r].id = i /\ call[r].pc \in {"load", "write"}

SameBut(kind, a, b) == \A c \in Columns \ Own(kind) : a[c] = b[c]

Faithful(r, i) ==
    Holding(r, i) /\ i \notin raced =>
        Exists(i) /\ SameBut(call[r].kind, call[r].copy, account[i])

SaveInv ==
    /\ \A r \in Requests, i \in Ids : Faithful(r, i)
    /\ \A q, r \in Requests, i \in Ids : Holding(q, i) /\ Holding(r, i) /\ i \notin raced => q = r
    /\ \A r \in Requests : Exists(r) => call[r].pc # "idle"
    /\ \A q, r \in Requests : Holding(q, r) => call[r].pc # "idle"

LEMMA SaveInit == Init => SaveInv
<1> SUFFICES ASSUME Init PROVE SaveInv
  OBVIOUS
<1>1. \A r \in Requests : account[r] = NoAccount /\ call[r].pc = "idle"
  BY DEF Init, NoCall, Ids
<1> QED
  BY <1>1 DEF SaveInv, Faithful, Holding, Exists

\* A step after which nobody holds what it did not hold, and nobody holds what changed.
LEMMA SaveKept ==
    ASSUME SaveInv, raced \subseteq raced',
           \A r \in Requests, i \in Ids : Holding(r, i)' =>
              Holding(r, i) /\ call'[r].kind = call[r].kind /\ call'[r].copy = call[r].copy,
           \A r \in Requests, i \in Ids : Holding(r, i)' /\ i \notin raced' =>
              account'[i] = account[i],
           \A r \in Requests : Exists(r)' => Exists(r) \/ call'[r].pc # "idle",
           \A r \in Requests : call[r].pc # "idle" => call'[r].pc # "idle"
    PROVE  SaveInv'
<1>1. ASSUME NEW r \in Requests, NEW i \in Ids PROVE Faithful(r, i)'
  <2> SUFFICES ASSUME Holding(r, i)', i \notin raced' PROVE (Exists(i) /\ SameBut(call[r].kind, call[r].copy, account[i]))'
    BY DEF Faithful
  <2>1. Exists(i) /\ SameBut(call[r].kind, call[r].copy, account[i])
    BY DEF SaveInv, Faithful
  <2>2. account'[i] = account[i] /\ call'[r].kind = call[r].kind /\ call'[r].copy = call[r].copy
    OBVIOUS
  <2> QED
    BY <2>1, <2>2 DEF Exists, SameBut
<1>2. ASSUME NEW q \in Requests, NEW r \in Requests, NEW i \in Ids,
             Holding(q, i)', Holding(r, i)', i \notin raced'
      PROVE  q = r
  BY <1>2 DEF SaveInv
<1>3. ASSUME NEW r \in Requests, Exists(r)' PROVE call'[r].pc # "idle"
  BY <1>3 DEF SaveInv
<1>4. ASSUME NEW q \in Requests, NEW r \in Requests, Holding(q, r)' PROVE call'[r].pc # "idle"
  BY <1>4 DEF SaveInv, Ids
<1> QED
  BY <1>1, <1>2, <1>3, <1>4 DEF SaveInv

\* A request that begins without a row, or ends.
LEMMA SaveElsewhere ==
    ASSUME TypeInv, SaveInv, NEW r \in Requests, NEW x,
           call' = [call EXCEPT ![r] = x], x.pc \notin {"idle", "load", "write"},
           UNCHANGED <<account, raced>>
    PROVE  SaveInv'
<1>1. call'[r] = x /\ \A q \in Requests \ {r} : call'[q] = call[q]
  BY DEF TypeInv, TypeOK
<1>2. ASSUME NEW q \in Requests, NEW i \in Ids, Holding(q, i)'
      PROVE  Holding(q, i) /\ call'[q].kind = call[q].kind /\ call'[q].copy = call[q].copy
  BY <1>1, <1>2 DEF Holding
<1>3. \A q \in Requests : call[q].pc # "idle" => call'[q].pc # "idle"
  BY <1>1
<1> QED
  BY <1>2, <1>3, SaveKept DEF Exists

\* A request that takes a row with what it will change in it.
LEMMA SaveTaken ==
    ASSUME TypeInv, SaveInv, NEW r \in Requests, NEW i \in Ids, NEW x,
           call' = [call EXCEPT ![r] = x], x.pc = "load", x.id = i, Exists(i),
           SameBut(x.kind, x.copy, account[i]),
           call[r].pc \notin {"load", "write"}, Touches(i), UNCHANGED account
    PROVE  SaveInv'
<1>1. call'[r] = x /\ \A q \in Requests \ {r} : call'[q] = call[q]
  BY DEF TypeInv, TypeOK
<1>2. raced \subseteq raced' /\ ((\E q \in Requests : Holding(q, i)) => i \in raced')
  BY DEF Touches, Held, Holding
<1>3. ASSUME NEW q \in Requests, NEW j \in Ids PROVE Faithful(q, j)'
  <2>1. CASE q = r
    BY <1>1, <2>1 DEF Faithful, Holding, Exists, SameBut
  <2>2. CASE q # r
    <3>1. Faithful(q, j)
      BY DEF SaveInv
    <3> QED
      BY <1>1, <1>2, <2>2, <3>1 DEF Faithful, Holding, Exists, SameBut
  <2> QED
    BY <2>1, <2>2
<1>4. ASSUME NEW q \in Requests, NEW t \in Requests, NEW j \in Ids,
             Holding(q, j)', Holding(t, j)', j \notin raced'
      PROVE  q = t
  <2>1. CASE q # r /\ t # r
    BY <1>1, <1>2, <1>4, <2>1 DEF SaveInv, Holding
  <2>2. CASE q = r /\ t # r
    BY <1>1, <1>2, <1>4, <2>2 DEF Holding
  <2>3. CASE q # r /\ t = r
    BY <1>1, <1>2, <1>4, <2>3 DEF Holding
  <2> QED
    BY <2>1, <2>2, <2>3
<1>5. ASSUME NEW q \in Requests, Exists(q)' PROVE call'[q].pc # "idle"
  BY <1>1, <1>5 DEF SaveInv, Exists
<1>6. ASSUME NEW q \in Requests, NEW t \in Requests, Holding(q, t)' PROVE call'[t].pc # "idle"
  BY <1>1, <1>6 DEF SaveInv, Holding
<1> QED
  BY <1>3, <1>4, <1>5, <1>6 DEF SaveInv

LEMMA EditedIsSameBut ==
    ASSUME NEW a \in Account
    PROVE  /\ \A x : SameBut("change", [a EXCEPT !.password = x], a)
           /\ \A x : SameBut("profile", [a EXCEPT !.capacity = x], a)
           /\ \A x, y : SameBut("team-member", [a EXCEPT !.status = x, !.capacity = y], a)
<1>1. \A c \in Columns : c \in {"password", "roles", "paid", "status", "capacity", "team"}
  BY DEF Columns, ByEmailColumns, ByIdColumns
<1> QED
  BY <1>1 DEF SameBut, Own, Account

LEMMA SaveNext == TypeInv /\ SaveInv /\ [Next]_vars => SaveInv'
<1> SUFFICES ASSUME TypeInv, SaveInv, [Next]_vars PROVE SaveInv'
  OBVIOUS
<1> USE DEF tokens, ghosts
<1>1. ASSUME NEW r \in Requests, NEW kind, NEW x, Begin(r, kind, x),
             x.pc \notin {"idle", "load", "write"}, UNCHANGED <<account, raced>>
      PROVE  SaveInv'
  BY <1>1, SaveElsewhere DEF Begin
<1>2. ASSUME NEW r \in Requests, End(r), UNCHANGED <<account, raced>> PROVE SaveInv'
  <2>1. Ended(r, "done").pc = "done"
    BY DEF Ended, New, NoCall
  <2> QED
    BY <1>2, <2>1, SaveElsewhere DEF End
<1>3. ASSUME NEW r \in Requests, NEW e \in Addresses, Login(r, e) PROVE SaveInv'
  <2>1. ASSUME NEW i, Begin(r, "login", [New("login", "compare") EXCEPT !.id = i,
                                                                  !.copy = account[i]])
        PROVE  SaveInv'
    <3> DEFINE x == [New("login", "compare") EXCEPT !.id = i, !.copy = account[i]]
    <3>1. x.pc = "compare"
      BY DEF New, NoCall
    <3> HIDE DEF x
    <3> QED
      BY <1>1, <1>3, <2>1, <3>1 DEF Login, x
  <2>2. CASE Begin(r, "login", New("login", "done"))
    BY <1>1, <1>3, <2>2 DEF Login, New, NoCall
  <2> QED
    BY <1>3, <2>1, <2>2 DEF Login
<1>4. ASSUME NEW r \in Requests, NEW e \in Addresses,
             SendPasswordResetLink(r, e) \/ SendEmailConfirmation(r, e)
      PROVE  SaveInv'
  BY <1>1, <1>4 DEF SendPasswordResetLink, SendEmailConfirmation, New, NoCall
<1>5. ASSUME NEW r \in Requests, NEW t \in Requests,
             Logout(r, t) \/ Refresh(r, t) \/ ChangePassword(r, t)
      PROVE  SaveInv'
  <2> DEFINE x == [New("refresh", "read") EXCEPT !.email = refreshTokens[t]]
             y == [New("change", "read") EXCEPT !.token = t, !.email = passwordResetTokens[t]]
             z == [New("change", "done") EXCEPT !.token = t]
  <2>1. x.pc = "read" /\ y.pc = "read" /\ z.pc = "done"
    BY DEF New, NoCall
  <2>2. /\ \/ Begin(r, "refresh", x) \/ Begin(r, "refresh", New("refresh", "done"))
           \/ Begin(r, "logout", New("logout", "done"))
           \/ Begin(r, "change", y) \/ Begin(r, "change", z)
        /\ UNCHANGED <<account, raced>>
    BY <1>5 DEF Logout, Refresh, ChangePassword
  <2> HIDE DEF x, y, z
  <2> QED
    BY <1>1, <2>1, <2>2 DEF New, NoCall
<1>6. ASSUME NEW r \in Requests, NEW e \in Addresses,
             \/ \E c \in Capacities : ProcessForm(r, e, c)
             \/ \E c \in Given, t \in Teams \union {Null} : CreateUser(r, e, c, t)
      PROVE  SaveInv'
  <2>1. /\ call[r].pc = "idle" /\ call'[r].pc = "done"
        /\ \A q \in Requests \ {r} : call'[q] = call[q]
        /\ \A i \in Ids \ {r} : account'[i] = account[i]
        /\ UNCHANGED raced
    <3>1. ASSUME NEW kind, NEW c, NEW t, Begin(r, kind, New(kind, "done")), Insert(r, e, c, t),
                 UNCHANGED raced
          PROVE  <2>1
      <4>1. call[r].pc = "idle" /\ call' = [call EXCEPT ![r] = New(kind, "done")]
        BY <3>1 DEF Begin
      <4>2. New(kind, "done").pc = "done"
        BY DEF New, NoCall
      <4>3. account' = account \/ account' = [account EXCEPT ![r] = NewAccount(r, e, c, t)]
        BY <3>1 DEF Insert
      <4>4. \A i \in Ids \ {r} : account'[i] = account[i]
        BY <4>3 DEF TypeInv, TypeOK
      <4> QED
        BY <3>1, <4>1, <4>2, <4>4 DEF TypeInv, TypeOK
    <3>2. CASE \E c \in Capacities : ProcessForm(r, e, c)
      BY <3>1, <3>2 DEF ProcessForm
    <3>3. CASE \E c \in Given, t \in Teams \union {Null} : CreateUser(r, e, c, t)
      BY <3>1, <3>3 DEF CreateUser
    <3> QED
      BY <1>6, <3>2, <3>3
  <2>2. ~Exists(r)
    BY <2>1 DEF SaveInv
  <2>3. ASSUME NEW q \in Requests, NEW i \in Ids, Holding(q, i)'
        PROVE  Holding(q, i) /\ call'[q].kind = call[q].kind /\ call'[q].copy = call[q].copy
    BY <2>1, <2>3 DEF Holding
  <2>4. ASSUME NEW q \in Requests, NEW i \in Ids, Holding(q, i)', i \notin raced'
        PROVE  account'[i] = account[i]
    BY <2>1, <2>2, <2>3, <2>4 DEF SaveInv, Faithful
  <2>5. \A q \in Requests : Exists(q)' => Exists(q) \/ call'[q].pc # "idle"
    BY <2>1 DEF Exists, Ids
  <2>6. \A q \in Requests : call[q].pc # "idle" => call'[q].pc # "idle"
    BY <2>1
  <2>7. raced \subseteq raced'
    BY <2>1
  <2> QED
    BY <2>3, <2>4, <2>5, <2>6, <2>7, SaveKept
<1>7. ASSUME NEW r \in Requests, NEW i \in Ids, NEW c \in Capacities \union {Null}, UpdateProfile(r, i, c)
      PROVE  SaveInv'
  <2>1. CASE Exists(i)
    <3> DEFINE a == [account[i] EXCEPT !.capacity = c]
               x == [New("profile", "load") EXCEPT !.id = i, !.copy = a]
    <3>1. SameBut("profile", a, account[i])
      BY <2>1, AccountRead, EditedIsSameBut DEF TypeInv
    <3>2. Begin(r, "profile", x) /\ Touches(i) /\ UNCHANGED account
      BY <1>7, <2>1 DEF UpdateProfile
    <3> HIDE DEF a
    <3>3. x.pc = "load" /\ x.id = i /\ x.copy = a /\ x.kind = "profile"
      BY DEF New, NoCall
    <3> HIDE DEF x
    <3> QED
      BY <2>1, <3>1, <3>2, <3>3, SaveTaken DEF Begin
  <2>2. CASE ~Exists(i)
    BY <1>1, <1>7, <2>2 DEF UpdateProfile, New, NoCall
  <2> QED
    BY <2>1, <2>2
<1>8. ASSUME NEW r \in Requests, NEW lead \in Members, NEW i \in Ids, UpdateTeamMember(r, lead, i)
      PROVE  SaveInv'
  <2> DEFINE x == [New("team-member", "member") EXCEPT !.id = i, !.lead = lead,
                                                       !.team = account[lead].team]
  <2>1. x.pc = "member"
    BY DEF New, NoCall
  <2>2. /\ Begin(r, "team-member", x) \/ Begin(r, "team-member", New("team-member", "done"))
        /\ UNCHANGED <<account, raced>>
    BY <1>8 DEF UpdateTeamMember
  <2> HIDE DEF x
  <2> QED
    BY <1>1, <2>1, <2>2 DEF New, NoCall
<1>9. ASSUME NEW r \in Requests, LoginCompared(r) \/ RefreshRead(r) \/ ForgetLink(r)
      PROVE  SaveInv'
  BY <1>2, <1>9 DEF LoginCompared, RefreshRead, ForgetLink
<1>10. ASSUME NEW r \in Requests, ChangeRead(r) PROVE SaveInv'
  <2>1. ASSUME NEW i \in WithEmail(call[r].email), Touches(i),
               call' = [call EXCEPT ![r].pc = "load", ![r].id = i,
                                    ![r].copy = [account[i] EXCEPT !.password = r]]
        PROVE  SaveInv'
    <3> DEFINE a == [account[i] EXCEPT !.password = r]
               x == [call[r] EXCEPT !.pc = "load", !.id = i, !.copy = a]
    <3>1. i \in Ids /\ Exists(i) /\ SameBut("change", a, account[i])
      BY FoundByEmail, AccountRead, EditedIsSameBut DEF TypeInv
    <3>2. call' = [call EXCEPT ![r] = x]
      BY <2>1 DEF TypeInv, TypeOK
    <3> HIDE DEF a
    <3>3. call[r] \in Call /\ call[r].kind = "change"
      BY <1>10 DEF ChangeRead, At, TypeInv, TypeOK
    <3>5. x.pc = "load" /\ x.id = i /\ x.copy = a /\ x.kind = "change"
      BY <3>3 DEF Call
    <3>4. UNCHANGED account /\ call[r].pc = "read"
      BY <1>10 DEF ChangeRead, At
    <3> HIDE DEF x
    <3> QED
      BY <2>1, <3>1, <3>2, <3>4, <3>5, SaveTaken
  <2> QED
    BY <1>2, <1>10, <2>1 DEF ChangeRead
<1>11. ASSUME NEW r \in Requests, NEW st \in Statuses, NEW c \in Given, ReadTeamMember(r, st, c)
       PROVE  SaveInv'
  <2> DEFINE i == call[r].id
             a == [account[i] EXCEPT !.status = st, !.capacity = c]
             x == [call[r] EXCEPT !.pc = "load", !.copy = a]
  <2>1. i \in Ids /\ call[r].pc = "member" /\ call[r].kind = "team-member"
    BY <1>11 DEF ReadTeamMember, At, TypeInv, Read
  <2>2. CASE Exists(i) /\ account[i].team = call[r].team
    <3>1. SameBut("team-member", a, account[i])
      BY <2>1, <2>2, AccountRead, EditedIsSameBut DEF TypeInv
    <3>2. call' = [call EXCEPT ![r] = x] /\ Touches(i) /\ UNCHANGED account
      BY <1>11, <2>2 DEF ReadTeamMember, TypeInv, TypeOK
    <3> HIDE DEF a
    <3>3. x.pc = "load" /\ x.id = i /\ x.copy = a /\ x.kind = "team-member"
      BY <2>1 DEF TypeInv, TypeOK, Call
    <3> HIDE DEF x, i
    <3> QED
      BY <2>1, <2>2, <3>1, <3>2, <3>3, SaveTaken
  <2>3. CASE ~(Exists(i) /\ account[i].team = call[r].team)
    BY <1>2, <1>11, <2>3 DEF ReadTeamMember
  <2> QED
    BY <2>2, <2>3
<1>12. ASSUME NEW r \in Requests, SaveUser(r) PROVE SaveInv'
  <2>1. ASSUME NEW cols, call' = [call EXCEPT ![r].pc = "write", ![r].cols = cols] PROVE SaveInv'
    <3>1. /\ call'[r].pc = "write" /\ call'[r].id = call[r].id /\ call[r].pc = "load"
          /\ call'[r].kind = call[r].kind /\ call'[r].copy = call[r].copy
          /\ \A q \in Requests \ {r} : call'[q] = call[q]
          /\ UNCHANGED <<account, raced>>
      BY <1>12, <2>1 DEF SaveUser, TypeInv, TypeOK, Call
    <3>2. ASSUME NEW q \in Requests, NEW i \in Ids, Holding(q, i)'
          PROVE  Holding(q, i) /\ call'[q].kind = call[q].kind /\ call'[q].copy = call[q].copy
      BY <3>1, <3>2 DEF Holding
    <3>3. \A q \in Requests : call[q].pc # "idle" => call'[q].pc # "idle"
      BY <3>1
    <3> QED
      BY <3>1, <3>2, <3>3, SaveKept DEF Exists
  <2> QED
    BY <1>2, <1>12, <2>1 DEF SaveUser
<1>13. ASSUME NEW r \in Requests, UpdateUser(r) PROVE SaveInv'
  <2>1. PICK i \in Ids : i = call[r].id /\ Holding(r, i)
    BY <1>13 DEF UpdateUser, TypeInv, Read, Holding
  <2>7. /\ Ended(r, "done").pc = "done"
        /\ [Ended(r, "forget") EXCEPT !.id = i].pc = "forget"
    BY DEF Ended, New, NoCall
  <2>8. /\ \/ call' = [call EXCEPT ![r] = Ended(r, "done")]
           \/ call' = [call EXCEPT ![r] = [Ended(r, "forget") EXCEPT !.id = i]]
        /\ \/ account' = [account EXCEPT ![i] = Written(account[i], call[r].copy, call[r].cols)]
              /\ Exists(i)
           \/ account' = account
        /\ UNCHANGED raced
    BY <1>13, <2>1 DEF UpdateUser, End
  <2>9. \A j \in Ids \ {i} : account'[j] = account[j]
    BY <2>8 DEF TypeInv, TypeOK
  <2>2. /\ call'[r].pc \in {"forget", "done"}
        /\ \A q \in Requests \ {r} : call'[q] = call[q]
        /\ account'[i] # NoAccount => account[i] # NoAccount
        /\ UNCHANGED raced
    <3>1. call \in [Requests -> Call] /\ account \in [Ids -> Account \union {NoAccount}]
      BY DEF TypeInv, TypeOK
    <3>2. call'[r].pc \in {"forget", "done"} /\ \A q \in Requests \ {r} : call'[q] = call[q]
      BY <2>7, <2>8, <3>1
    <3>3. account'[i] # NoAccount => account[i] # NoAccount
      BY <2>8, <3>1 DEF Exists
    <3> QED
      BY <2>8, <3>2, <3>3
  <2>3. ASSUME NEW q \in Requests, NEW j \in Ids, Holding(q, j)'
        PROVE  q # r /\ Holding(q, j) /\ call'[q].kind = call[q].kind /\ call'[q].copy = call[q].copy
    BY <2>2, <2>3 DEF Holding
  <2>4. ASSUME NEW q \in Requests, NEW j \in Ids, Holding(q, j)', j \notin raced'
        PROVE  account'[j] = account[j]
    BY <2>1, <2>2, <2>3, <2>4, <2>9 DEF SaveInv
  <2>5. \A q \in Requests : Exists(q)' => Exists(q)
    <3>1. \A q \in Requests : q \in Ids
      BY DEF Ids
    <3> QED
      BY <2>2, <2>9, <3>1 DEF Exists
  <2>6. \A q \in Requests : call[q].pc # "idle" => call'[q].pc # "idle"
    BY <2>2
  <2> QED
    BY <2>2, <2>3, <2>4, <2>5, <2>6, SaveKept
<1>14. ASSUME NEW i \in Ids, NEW a \in AdminEdits(i), EditUser(i, a) PROVE SaveInv'
  <2>1. /\ UNCHANGED call /\ raced \subseteq raced' /\ Exists(i)
        /\ \A j \in Ids \ {i} : account'[j] = account[j]
        /\ (\E q \in Requests : Holding(q, i)) => i \in raced'
    BY <1>14 DEF EditUser, Touches, Held, Holding, TypeInv, TypeOK
  <2>2. ASSUME NEW q \in Requests, NEW j \in Ids, Holding(q, j)', j \notin raced'
        PROVE  account'[j] = account[j]
    BY <2>1, <2>2 DEF Holding
  <2>3. \A q \in Requests : Exists(q)' => Exists(q)
    BY <2>1 DEF Exists, Ids
  <2> QED
    BY <2>1, <2>2, <2>3, SaveKept DEF Holding
<1>15. CASE Crash
  <2>1. ASSUME NEW q \in Requests
        PROVE  call'[q] = call[q] \/ call'[q].pc = "lost"
    BY <1>15 DEF Crash, Ended, New, NoCall
  <2>2. UNCHANGED <<account, raced>>
    BY <1>15 DEF Crash
  <2>3. ASSUME NEW q \in Requests, NEW i \in Ids, Holding(q, i)'
        PROVE  Holding(q, i) /\ call'[q].kind = call[q].kind /\ call'[q].copy = call[q].copy
    BY <2>1, <2>3 DEF Holding
  <2>4. \A q \in Requests : call[q].pc # "idle" => call'[q].pc # "idle"
    BY <2>1
  <2> QED
    BY <2>2, <2>3, <2>4, SaveKept DEF Exists
<1>16. CASE UNCHANGED vars
  BY <1>16, SaveKept DEF vars, Holding, Exists
<1>17. CASE AuthController
  BY <1>3, <1>4, <1>5, <1>17 DEF AuthController
<1>18. CASE NewUserController
  BY <1>4, <1>6, <1>18 DEF NewUserController
<1>19. CASE UserController
  <2>1. \A i \in Ids : Given \union {account[i].capacity} \subseteq Capacities \union {Null}
    BY GivenCapacity DEF TypeInv
  <2> QED
    BY <1>7, <1>8, <1>19, <2>1 DEF UserController
<1>20. ASSUME NEW r \in Requests, RequestStep(r) PROVE SaveInv'
  BY <1>9, <1>10, <1>11, <1>12, <1>13, <1>20 DEF RequestStep
<1>30. CASE UserAdminController
  BY <1>14, <1>6, <1>30 DEF UserAdminController
<1> QED
  BY <1>30, <1>15, <1>16, <1>17, <1>18, <1>19, <1>20 DEF Next

\* A step of one request leaves the others that are about to write where they are.
LEMMA OthersStay ==
    ASSUME TypeInv, NEW q \in Requests, NEW x, call' = [call EXCEPT ![q] = x],
           call[q].pc # "write", NEW r \in Requests, call[r].pc = "write"
    PROVE  call'[r].pc = "write"
  BY DEF TypeInv, TypeOK

\* Only its own update, or a crash, takes a request past the write.
LEMMA WriteEnds ==
    ASSUME TypeInv, Next, NEW r \in Requests, call[r].pc = "write", call'[r].pc # "write"
    PROVE  UpdateUser(r) \/ Crash
<1> SUFFICES ASSUME ~Crash, ~UpdateUser(r) PROVE FALSE
  OBVIOUS
<1> USE DEF tokens, ghosts
<1>1. \A q \in Requests : \A kind, x : ~Begin(q, kind, x)
  BY OthersStay DEF Begin
<1>2. \A q \in Requests : End(q) => call[q].pc = "write"
  BY OthersStay DEF End
<1>3. ~AuthController
  BY <1>1 DEF AuthController, Login, SendPasswordResetLink, Logout, Refresh, ChangePassword
<1>4. ~NewUserController
  BY <1>1 DEF NewUserController, SendEmailConfirmation, ProcessForm
<1>5. ~UserController
  BY <1>1 DEF UserController, UpdateProfile, UpdateTeamMember
<1>6. ASSUME NEW q \in Requests, RequestStep(q) PROVE FALSE
  <2>1. CASE LoginCompared(q) \/ RefreshRead(q) \/ ForgetLink(q)
    BY <1>2, <2>1 DEF LoginCompared, RefreshRead, ForgetLink, At
  <2>2. ASSUME NEW x, call' = [call EXCEPT ![q] = x] PROVE call[q].pc = "write"
    BY <2>2, OthersStay
  <2>3. ASSUME ChangeRead(q) PROVE FALSE
    <3>1. ASSUME NEW i, call' = [call EXCEPT ![q].pc = "load", ![q].id = i,
                                    ![q].copy = [account[i] EXCEPT !.password = q]]
          PROVE  call[q].pc = "write"
      <4> DEFINE a == [account[i] EXCEPT !.password = q]
                 x == [call[q] EXCEPT !.pc = "load", !.id = i, !.copy = a]
      <4>1. call' = [call EXCEPT ![q] = x]
        BY <3>1 DEF TypeInv, TypeOK
      <4> HIDE DEF x
      <4> QED
        BY <2>2, <4>1
    <3> QED
      BY <1>2, <2>3, <3>1 DEF ChangeRead, At
  <2>4. ASSUME SaveUser(q) PROVE FALSE
    <3>1. ASSUME NEW d, call' = [call EXCEPT ![q].pc = "write", ![q].cols = d]
          PROVE  call'[r].pc = "write"
      BY <3>1 DEF TypeInv, TypeOK, Call
    <3> QED
      BY <1>2, <2>4, <3>1 DEF SaveUser
  <2>5. ASSUME NEW st \in Statuses, NEW c \in Given, ReadTeamMember(q, st, c) PROVE FALSE
    <3>1. ASSUME NEW a, call' = [call EXCEPT ![q].pc = "load", ![q].copy = a]
          PROVE  call[q].pc = "write"
      <4> DEFINE x == [call[q] EXCEPT !.pc = "load", !.copy = a]
      <4>1. call' = [call EXCEPT ![q] = x]
        BY <3>1 DEF TypeInv, TypeOK
      <4> HIDE DEF x
      <4> QED
        BY <2>2, <4>1
    <3> QED
      BY <1>2, <2>5, <3>1 DEF ReadTeamMember, At
  <2>6. ASSUME UpdateUser(q) PROVE FALSE
    <3>1. q # r
      BY <2>6
    <3>2. \E x : call' = [call EXCEPT ![q] = x]
      BY <2>6 DEF UpdateUser, End
    <3>3. call'[r] = call[r]
      BY <3>1, <3>2 DEF TypeInv, TypeOK
    <3> QED
      BY <3>3
  <2> QED
    BY <1>6, <2>1, <2>3, <2>4, <2>5, <2>6 DEF RequestStep
<1>7. ~UserAdminController
  <2>1. ASSUME NEW i \in Ids, NEW a \in AdminEdits(i) PROVE ~EditUser(i, a)
    BY DEF EditUser
  <2> QED
    BY <1>1, <2>1 DEF UserAdminController, CreateUser
<1> QED
  BY <1>3, <1>4, <1>5, <1>6, <1>7 DEF Next

LEMMA SavedColumns ==
    ASSUME TypeInv, SaveInv, [Next]_vars, NEW r \in Requests, NEW i \in Ids \ raced',
           SavedBy(r, i), NEW c \in Columns \ Own(call[r].kind)
    PROVE  account'[i][c] = account[i][c]
<1>1. UpdateUser(r) \/ Crash
  BY WriteEnds DEF SavedBy, vars
<1>2. CASE Crash
  BY <1>2 DEF Crash
<1>3. CASE UpdateUser(r)
  <2>1. i \notin raced /\ i = call[r].id
    BY <1>3 DEF UpdateUser, SavedBy
  <2>2. Exists(i) /\ call[r].copy[c] = account[i][c]
    BY <2>1 DEF SaveInv, Faithful, Holding, SavedBy, SameBut
  <2>3. account[i] \in Account /\ call[r].copy \in Account
    BY <2>2, AccountRead DEF TypeInv, Read, SavedBy
  <2>4. account'[i] = Written(account[i], call[r].copy, call[r].cols)
    BY <1>3, <2>1, <2>2 DEF UpdateUser, TypeInv, TypeOK
  <2> QED
    BY <2>2, <2>3, <2>4, WrittenColumn
<1> QED
  BY <1>1, <1>2, <1>3

\* A save changes only the columns its request is about, unless the row was touched
\* while the request held it: nothing else is taken back by saving a whole entity.
THEOREM SavesOwnColumns == Spec => OwnColumnsOnly
<1>1. Init => TypeInv /\ SaveInv
  BY TypeInit, SaveInit
<1>2. (TypeInv /\ SaveInv) /\ [Next]_vars => (TypeInv /\ SaveInv)'
  BY TypeNext, SaveNext
<1>3. TypeInv /\ SaveInv /\ [Next]_vars =>
        [\A r \in Requests, i \in Ids \ raced' :
           SavedBy(r, i) =>
             \A c \in Columns \ Own(call[r].kind) : account'[i][c] = account[i][c]]_vars
  BY SavedColumns
<1> QED
  BY <1>1, <1>2, <1>3, PTL DEF Spec, OwnColumnsOnly

-----------------------------------------------------------------------------
(* Teams.  A request of a market lead that has read the lead's team, and then the     *)
(* member, is about two accounts of one team as long as neither is moved.             *)

Together(r) ==
    call[r].kind = "team-member" /\ r \notin moved =>
        /\ call[r].pc = "member" => call[r].team = account[call[r].lead].team
        /\ call[r].pc \in {"load", "write"} =>
              account[call[r].id].team = account[call[r].lead].team

TeamInv == \A r \in Requests : Together(r)

LEMMA TeamInit == Init => TeamInv
  BY DEF Init, TeamInv, Together, NoCall

\* The accounts that such a request is about.
LEMMA TeamAccounts ==
    ASSUME TypeInv, NEW r \in Requests, call[r].kind = "team-member",
           call[r].pc \in {"member", "load", "write"}
    PROVE  call[r].lead \in Ids /\ call[r].id \in Ids /\ Active(r)
  BY DEF TypeInv, Read, Ids, Active

\* Nobody changes teams, and no other request than r moves on.
LEMMA TeamKept ==
    ASSUME TypeInv, TeamInv, NEW r \in Requests, NEW x, call' = [call EXCEPT ![r] = x],
           moved \subseteq moved', \A i \in Ids : account'[i].team = account[i].team
    PROVE  call'[r] = x /\ \A q \in Requests \ {r} : Together(q)'
<1>1. call'[r] = x /\ \A q \in Requests \ {r} : call'[q] = call[q]
  BY DEF TypeInv, TypeOK
<1>2. ASSUME NEW q \in Requests \ {r} PROVE Together(q)'
  <2>1. call'[q] = call[q] /\ Together(q)
    BY <1>1 DEF TeamInv
  <2>2. call[q].kind = "team-member" /\ call[q].pc \in {"member", "load", "write"} =>
          call[q].lead \in Ids /\ call[q].id \in Ids
    BY TeamAccounts
  <2> QED
    BY <2>1, <2>2 DEF Together
<1> QED
  BY <1>1, <1>2

LEMMA TeamElsewhere ==
    ASSUME TypeInv, TeamInv, NEW r \in Requests, NEW x, call' = [call EXCEPT ![r] = x],
           x.kind = "team-member" => x.pc \notin {"member", "load", "write"},
           moved \subseteq moved', \A i \in Ids : account'[i].team = account[i].team
    PROVE  TeamInv'
<1>1. call'[r] = x /\ \A q \in Requests \ {r} : Together(q)'
  BY TeamKept
<1>2. Together(r)'
  BY <1>1 DEF Together
<1> QED
  BY <1>1, <1>2 DEF TeamInv

\* An account changes, and no request gets to an account it was not at.
LEMMA TeamMoves ==
    ASSUME TypeInv, TeamInv, NEW i \in Ids, Moves(i),
           \A j \in Ids \ {i} : account'[j] = account[j],
           \A r \in Requests : call'[r] = call[r] \/ call'[r].pc \notin {"member", "load", "write"}
    PROVE  TeamInv'
<1> SUFFICES ASSUME NEW r \in Requests, call'[r] = call[r], call[r].kind = "team-member",
                    call[r].pc \in {"member", "load", "write"}, r \notin moved'
             PROVE  Together(r)'
  BY DEF TeamInv, Together
<1>1. call[r].lead \in Ids /\ call[r].id \in Ids /\ Active(r)
  BY TeamAccounts
<1>2. Together(r) /\ r \notin moved
  BY DEF TeamInv, Moves
<1>3. account'[i].team = account[i].team \/ i \notin {call[r].id, call[r].lead}
  BY <1>1 DEF Moves
<1>4. /\ account'[call[r].id].team = account[call[r].id].team
      /\ account'[call[r].lead].team = account[call[r].lead].team
  BY <1>1, <1>3
<1> QED
  BY <1>2, <1>4 DEF Together

LEMMA TeamNext == TypeInv /\ SaveInv /\ TeamInv /\ [Next]_vars => TeamInv'
<1> SUFFICES ASSUME TypeInv, SaveInv, TeamInv, [Next]_vars PROVE TeamInv'
  OBVIOUS
<1> USE DEF tokens, ghosts
<1>1. ASSUME NEW r \in Requests, NEW kind, NEW x, Begin(r, kind, x),
             x.kind = "team-member" => x.pc \notin {"member", "load", "write"},
             UNCHANGED <<account, moved>>
      PROVE  TeamInv'
  BY <1>1, TeamElsewhere DEF Begin
<1>2. ASSUME NEW r \in Requests, End(r), UNCHANGED <<account, moved>> PROVE TeamInv'
  <2>1. Ended(r, "done").pc = "done"
    BY DEF Ended, New, NoCall
  <2> QED
    BY <1>2, <2>1, TeamElsewhere DEF End
<1>3. ASSUME NEW r \in Requests, NEW e \in Addresses, Login(r, e) PROVE TeamInv'
  <2>1. ASSUME NEW i, Begin(r, "login", [New("login", "compare") EXCEPT !.id = i,
                                                                  !.copy = account[i]])
        PROVE  TeamInv'
    <3> DEFINE x == [New("login", "compare") EXCEPT !.id = i, !.copy = account[i]]
    <3>1. x.kind = "login"
      BY DEF New, NoCall
    <3> HIDE DEF x
    <3> QED
      BY <1>1, <1>3, <2>1, <3>1 DEF Login, x
  <2>2. CASE Begin(r, "login", New("login", "done"))
    BY <1>1, <1>3, <2>2 DEF Login, New, NoCall
  <2> QED
    BY <1>3, <2>1, <2>2 DEF Login
<1>4. ASSUME NEW r \in Requests, NEW e \in Addresses,
             SendPasswordResetLink(r, e) \/ SendEmailConfirmation(r, e)
      PROVE  TeamInv'
  BY <1>1, <1>4 DEF SendPasswordResetLink, SendEmailConfirmation, New, NoCall
<1>5. ASSUME NEW r \in Requests, NEW t \in Requests,
             Logout(r, t) \/ Refresh(r, t) \/ ChangePassword(r, t)
      PROVE  TeamInv'
  <2> DEFINE x == [New("refresh", "read") EXCEPT !.email = refreshTokens[t]]
             y == [New("change", "read") EXCEPT !.token = t, !.email = passwordResetTokens[t]]
             z == [New("change", "done") EXCEPT !.token = t]
  <2>1. x.kind = "refresh" /\ y.kind = "change" /\ z.kind = "change"
    BY DEF New, NoCall
  <2>2. /\ \/ Begin(r, "refresh", x) \/ Begin(r, "refresh", New("refresh", "done"))
           \/ Begin(r, "logout", New("logout", "done"))
           \/ Begin(r, "change", y) \/ Begin(r, "change", z)
        /\ UNCHANGED <<account, moved>>
    BY <1>5 DEF Logout, Refresh, ChangePassword
  <2> HIDE DEF x, y, z
  <2> QED
    BY <1>1, <2>1, <2>2 DEF New, NoCall
<1>6. ASSUME NEW r \in Requests, NEW e \in Addresses,
             \/ \E c \in Capacities : ProcessForm(r, e, c)
             \/ \E c \in Given, t \in Teams \union {Null} : CreateUser(r, e, c, t)
      PROVE  TeamInv'
  <2>1. /\ call[r].pc = "idle"
        /\ \E kind : call' = [call EXCEPT ![r] = New(kind, "done")]
        /\ UNCHANGED moved
    BY <1>6 DEF ProcessForm, CreateUser, Begin
  <2>2. \A i \in Ids \ {r} : account'[i] = account[i]
    BY <1>6 DEF ProcessForm, CreateUser, Insert, TypeInv, TypeOK
  <2>3. \A kind : New(kind, "done").pc = "done"
    BY DEF New, NoCall
  <2>4. call'[r].pc = "done" /\ \A q \in Requests \ {r} : call'[q] = call[q]
    BY <2>1, <2>3 DEF TypeInv, TypeOK
  <2>5. ASSUME NEW q \in Requests \ {r}, call[q].kind = "team-member",
               call[q].pc \in {"member", "load", "write"}
        PROVE  Together(q)'
    <3>1. call[q].lead \in Members /\ call[q].lead # r /\ call[q].lead \in Ids
      BY <2>5, AccountsNames DEF TypeInv, Read, Ids
    <3>2. call[q].pc \in {"load", "write"} => call[q].id \in Ids \ {r}
      BY <2>1, <2>5, TeamAccounts DEF SaveInv, Holding
    <3>3. call'[q] = call[q] /\ Together(q)
      BY <2>4 DEF TeamInv
    <3> QED
      BY <2>1, <2>2, <3>1, <3>2, <3>3 DEF Together
  <2> QED
    BY <2>4, <2>5 DEF TeamInv, Together
<1>7. ASSUME NEW r \in Requests, NEW i \in Ids, NEW c \in Capacities \union {Null}, UpdateProfile(r, i, c)
      PROVE  TeamInv'
  <2> DEFINE x == [New("profile", "load") EXCEPT
                     !.id = i, !.copy = [account[i] EXCEPT !.capacity = c]]
  <2>1. x.kind = "profile"
    BY DEF New, NoCall
  <2>2. /\ Begin(r, "profile", x) \/ Begin(r, "profile", New("profile", "done"))
        /\ UNCHANGED <<account, moved>>
    BY <1>7 DEF UpdateProfile
  <2> HIDE DEF x
  <2> QED
    BY <1>1, <2>1, <2>2 DEF New, NoCall
<1>8. ASSUME NEW r \in Requests, NEW lead \in Members, NEW i \in Ids, UpdateTeamMember(r, lead, i)
      PROVE  TeamInv'
  <2> DEFINE x == [New("team-member", "member") EXCEPT !.id = i, !.lead = lead,
                                                       !.team = account[lead].team]
  <2>1. x.kind = "team-member" /\ x.pc = "member" /\ x.team = account[lead].team /\ x.lead = lead
    BY DEF New, NoCall
  <2>2. ASSUME Begin(r, "team-member", x) PROVE TeamInv'
    <3>1. UNCHANGED <<account, moved>> /\ call' = [call EXCEPT ![r] = x]
      BY <1>8, <2>2 DEF UpdateTeamMember, Begin
    <3> HIDE DEF x
    <3>2. call'[r] = x /\ \A q \in Requests \ {r} : Together(q)'
      BY <3>1, TeamKept
    <3>3. Together(r)'
      BY <2>1, <3>1, <3>2 DEF Together
    <3> QED
      BY <3>2, <3>3 DEF TeamInv
  <2>3. CASE Begin(r, "team-member", New("team-member", "done"))
    BY <1>1, <1>8, <2>3 DEF UpdateTeamMember, New, NoCall
  <2> QED
    BY <1>8, <2>2, <2>3 DEF UpdateTeamMember
<1>9. ASSUME NEW r \in Requests, LoginCompared(r) \/ RefreshRead(r) \/ ForgetLink(r)
      PROVE  TeamInv'
  BY <1>2, <1>9 DEF LoginCompared, RefreshRead, ForgetLink
<1>10. ASSUME NEW r \in Requests, ChangeRead(r) PROVE TeamInv'
  <2>1. ASSUME NEW i \in WithEmail(call[r].email),
               call' = [call EXCEPT ![r].pc = "load", ![r].id = i,
                                    ![r].copy = [account[i] EXCEPT !.password = r]]
        PROVE  TeamInv'
    <3> DEFINE a == [account[i] EXCEPT !.password = r]
               x == [call[r] EXCEPT !.pc = "load", !.id = i, !.copy = a]
    <3>1. call' = [call EXCEPT ![r] = x]
      BY <2>1 DEF TypeInv, TypeOK
    <3>2. call[r] \in Call /\ call[r].kind = "change"
      BY <1>10 DEF ChangeRead, At, TypeInv, TypeOK
    <3> HIDE DEF a
    <3>3. x.kind = "change"
      BY <3>2 DEF Call
    <3>4. UNCHANGED <<account, moved>>
      BY <1>10 DEF ChangeRead
    <3> HIDE DEF x
    <3> QED
      BY <3>1, <3>3, <3>4, TeamElsewhere
  <2> QED
    BY <1>2, <1>10, <2>1 DEF ChangeRead
<1>11. ASSUME NEW r \in Requests, NEW st \in Statuses, NEW c \in Given, ReadTeamMember(r, st, c)
       PROVE  TeamInv'
  <2>1. /\ call[r].pc = "member" /\ call[r].kind = "team-member" /\ call[r] \in Call
        /\ Together(r) /\ UNCHANGED <<account, moved>>
    BY <1>11 DEF ReadTeamMember, At, TypeInv, TypeOK, TeamInv
  <2>2. ASSUME NEW a, account[call[r].id].team = call[r].team,
               call' = [call EXCEPT ![r].pc = "load", ![r].copy = a]
        PROVE  TeamInv'
    <3> DEFINE x == [call[r] EXCEPT !.pc = "load", !.copy = a]
    <3>1. call' = [call EXCEPT ![r] = x]
      BY <2>2 DEF TypeInv, TypeOK
    <3>2. x.pc = "load" /\ x.id = call[r].id /\ x.lead = call[r].lead
      BY <2>1 DEF Call
    <3> HIDE DEF x
    <3>3. call'[r] = x /\ \A q \in Requests \ {r} : Together(q)'
      BY <2>1, <3>1, TeamKept
    <3>4. Together(r)'
      BY <2>1, <2>2, <3>2, <3>3 DEF Together
    <3> QED
      BY <3>3, <3>4 DEF TeamInv
  <2> QED
    BY <1>2, <1>11, <2>1, <2>2 DEF ReadTeamMember
<1>12. ASSUME NEW r \in Requests, SaveUser(r) PROVE TeamInv'
  <2>1. call[r].pc = "load" /\ call[r] \in Call /\ Together(r) /\ UNCHANGED <<account, moved>>
    BY <1>12 DEF SaveUser, TypeInv, TypeOK, TeamInv
  <2>2. ASSUME NEW cols, call' = [call EXCEPT ![r].pc = "write", ![r].cols = cols] PROVE TeamInv'
    <3> DEFINE x == [call[r] EXCEPT !.pc = "write", !.cols = cols]
    <3>1. call' = [call EXCEPT ![r] = x]
      BY <2>2 DEF TypeInv, TypeOK
    <3>2. x.pc = "write" /\ x.id = call[r].id /\ x.lead = call[r].lead /\ x.kind = call[r].kind
      BY <2>1 DEF Call
    <3> HIDE DEF x
    <3>3. call'[r] = x /\ \A q \in Requests \ {r} : Together(q)'
      BY <2>1, <3>1, TeamKept
    <3>4. Together(r)'
      BY <2>1, <3>2, <3>3 DEF Together
    <3> QED
      BY <3>3, <3>4 DEF TeamInv
  <2> QED
    BY <1>2, <1>12, <2>1, <2>2 DEF SaveUser
<1>13. ASSUME NEW r \in Requests, UpdateUser(r) PROVE TeamInv'
  <2>1. PICK i \in Ids : i = call[r].id
    BY <1>13 DEF UpdateUser, TypeInv, Read
  <2>2. /\ Ended(r, "done").pc = "done"
        /\ [Ended(r, "forget") EXCEPT !.id = i].pc = "forget"
    BY DEF Ended, New, NoCall
  <2>3. /\ \/ call' = [call EXCEPT ![r] = Ended(r, "done")]
           \/ call' = [call EXCEPT ![r] = [Ended(r, "forget") EXCEPT !.id = i]]
        /\ \/ account' = [account EXCEPT ![i] = Written(account[i], call[r].copy, call[r].cols)]
           \/ account' = account
        /\ Moves(i)
    BY <1>13, <2>1 DEF UpdateUser, End
  <2>4. \A j \in Ids \ {i} : account'[j] = account[j]
    BY <2>3 DEF TypeInv, TypeOK
  <2>5. \A q \in Requests : call'[q] = call[q] \/ call'[q].pc \in {"forget", "done"}
    BY <2>2, <2>3 DEF TypeInv, TypeOK
  <2>6. \A q \in Requests : call'[q] = call[q] \/ call'[q].pc \notin {"member", "load", "write"}
    BY <2>5
  <2> QED
    BY <2>3, <2>4, <2>6, TeamMoves
<1>14. ASSUME NEW i \in Ids, NEW a \in AdminEdits(i), EditUser(i, a) PROVE TeamInv'
  <2>1. UNCHANGED call /\ Moves(i) /\ \A j \in Ids \ {i} : account'[j] = account[j]
    BY <1>14 DEF EditUser, TypeInv, TypeOK
  <2> QED
    BY <2>1, TeamMoves
<1>15. CASE Crash
  <2>1. ASSUME NEW q \in Requests PROVE call'[q] = call[q] \/ call'[q].pc = "lost"
    BY <1>15 DEF Crash, Ended, New, NoCall
  <2>2. UNCHANGED <<account, moved>>
    BY <1>15 DEF Crash
  <2> QED
    BY <2>1, <2>2 DEF TeamInv, Together
<1>16. CASE UNCHANGED vars
  BY <1>16 DEF vars, TeamInv, Together
<1>17. CASE AuthController
  BY <1>3, <1>4, <1>5, <1>17 DEF AuthController
<1>18. CASE NewUserController
  BY <1>4, <1>6, <1>18 DEF NewUserController
<1>19. CASE UserController
  <2>1. \A i \in Ids : Given \union {account[i].capacity} \subseteq Capacities \union {Null}
    BY GivenCapacity DEF TypeInv
  <2> QED
    BY <1>7, <1>8, <1>19, <2>1 DEF UserController
<1>20. ASSUME NEW r \in Requests, RequestStep(r) PROVE TeamInv'
  BY <1>9, <1>10, <1>11, <1>12, <1>13, <1>20 DEF RequestStep
<1>30. CASE UserAdminController
  BY <1>14, <1>6, <1>30 DEF UserAdminController
<1> QED
  BY <1>30, <1>15, <1>16, <1>17, <1>18, <1>19, <1>20 DEF Next

\* A market lead changes members of the team the lead is in when the change is saved,
\* unless one of the two was moved since the lead's team was read.
THEOREM LeadsChangeOwnTeam == Spec => LeadsOwnTeam
<1>1. Init => TypeInv /\ SaveInv /\ TeamInv
  BY TypeInit, SaveInit, TeamInit
<1>2. (TypeInv /\ SaveInv /\ TeamInv) /\ [Next]_vars => (TypeInv /\ SaveInv /\ TeamInv)'
  BY TypeNext, SaveNext, TeamNext
<1>3. TeamInv /\ [Next]_vars =>
        [\A r \in Requests :
           At(r, "team-member", "write") /\ SavedBy(r, call[r].id) /\ Exists(call[r].id)
             => \/ r \in moved
                \/ account[call[r].id].team = account[call[r].lead].team]_vars
  BY DEF TeamInv, Together, At
<1> QED
  BY <1>1, <1>2, <1>3, PTL DEF Spec, LeadsOwnTeam
-----------------------------------------------------------------------------
(* Capacities.  The mean of a team is missing only when a member's is, and a member   *)
(* is without one only if somebody gave none, whoever saves what was read before.     *)

LEMMA SmallQuotient ==
    ASSUME NEW a \in Nat, NEW b \in Nat \ {0}, a < 3 * b
    PROVE  a \div b \in 0 .. 2
<1>1. PICK q \in Int : q = a \div b
  OBVIOUS
<1>2. b * q <= a /\ a < b * q + b
  BY <1>1
<1>3. q >= 0
  BY <1>2
<1>4. q < 3
  BY <1>2
<1> QED
  BY <1>1, <1>3, <1>4

\* The mean is one of the three capacities.
LEMMA MeanIsKnown ==
    ASSUME NEW users, IsFiniteSet(users), users # {}, NEW capacity, NEW none,
           none \notin {"low", "medium", "high"}, \A u \in users : capacity[u] # none
    PROVE  MeanCarryingCapacity(users, capacity, none) # none
<1> DEFINE M == With(users, capacity, "medium")
           H == With(users, capacity, "high")
           n == Cardinality(users)
           total == Cardinality(M) + 2 * Cardinality(H)
<1>1. M \subseteq users /\ H \subseteq users /\ M \intersect H = {} /\ M \union H \subseteq users
  BY DEF With
<1>2. IsFiniteSet(M) /\ IsFiniteSet(H) /\ IsFiniteSet(M \union H)
  BY <1>1, FS_Subset
<1>3. /\ n \in Nat \ {0} /\ Cardinality(M) \in Nat /\ Cardinality(H) \in Nat
      /\ Cardinality(M \union H) <= n
  BY <1>1, <1>2, FS_Subset, FS_CardinalityType, FS_EmptySet
<1>4. Cardinality(M \union H) = Cardinality(M) + Cardinality(H)
  <2>1. Cardinality(M \union H) = Cardinality(M) + Cardinality(H) - Cardinality(M \intersect H)
    BY <1>2, FS_Union
  <2>2. Cardinality(M \intersect H) = 0
    BY <1>1, FS_EmptySet
  <2> QED
    BY <1>3, <2>1, <2>2
<1>5. total \in Nat /\ total <= 2 * n
  BY <1>3, <1>4
<1> HIDE DEF total, n
<1>6. Round(total, n) \in 0 .. 2
  <2>1. 2 * total + n \in Nat /\ 2 * n \in Nat \ {0} /\ 2 * total + n < 3 * (2 * n)
    BY <1>3, <1>5
  <2> QED
    BY <2>1, SmallQuotient DEF Round
<1>7. MeanCarryingCapacity(users, capacity, none)
        = <<"low", "medium", "high">>[Round(total, n) + 1]
  BY DEF MeanCarryingCapacity, total, n
<1> QED
  BY <1>6, <1>7

\* Who has no capacity, or is held by a request that will leave it without, is cleared.
KnownInv ==
    /\ \A i \in Ids : Exists(i) /\ account[i].capacity = Null => i \in cleared
    /\ \A r \in Requests, i \in Ids :
          Holding(r, i) /\ call[r].copy.capacity = Null => i \in cleared

LEMMA KnownInit == Init => KnownInv
<1> SUFFICES ASSUME Init PROVE KnownInv
  OBVIOUS
<1>1. ASSUME NEW i \in Ids, Exists(i) PROVE account[i].capacity # Null
  BY <1>1, AccountsWords DEF Init, Exists, Capacities
<1>2. \A r \in Requests : call[r].pc = "idle"
  BY DEF Init, NoCall
<1> QED
  BY <1>1, <1>2 DEF KnownInv, Holding

\* A step that clears what it leaves without a capacity.
LEMMA KnownKept ==
    ASSUME KnownInv, cleared \subseteq cleared',
           \A i \in Ids : Exists(i)' /\ account'[i].capacity = Null =>
              i \in cleared' \/ (Exists(i) /\ account[i].capacity = Null),
           \A r \in Requests, i \in Ids : Holding(r, i)' /\ call'[r].copy.capacity = Null =>
              i \in cleared' \/ (Holding(r, i) /\ call[r].copy.capacity = Null)
    PROVE  KnownInv'
<1>1. \A i \in Ids : Exists(i)' /\ account'[i].capacity = Null => i \in cleared'
  BY DEF KnownInv
<1>2. \A r \in Requests, i \in Ids :
          Holding(r, i)' /\ call'[r].copy.capacity = Null => i \in cleared'
  BY DEF KnownInv
<1> QED
  BY <1>1, <1>2 DEF KnownInv

\* One request moves on and no account changes.
LEMMA KnownElsewhere ==
    ASSUME TypeInv, KnownInv, NEW r \in Requests, NEW x, call' = [call EXCEPT ![r] = x],
           UNCHANGED account, cleared \subseteq cleared',
           x.pc \in {"load", "write"} /\ x.copy.capacity = Null =>
              \/ x.id \in cleared'
              \/ Holding(r, x.id) /\ x.copy = call[r].copy
    PROVE  KnownInv'
<1>1. call'[r] = x /\ \A q \in Requests \ {r} : call'[q] = call[q]
  BY DEF TypeInv, TypeOK
<1>2. ASSUME NEW q \in Requests, NEW i \in Ids, Holding(q, i)', call'[q].copy.capacity = Null
      PROVE  i \in cleared' \/ (Holding(q, i) /\ call[q].copy.capacity = Null)
  BY <1>1, <1>2 DEF Holding
<1> QED
  BY <1>2, KnownKept DEF Exists

\* A request that takes a row, with the capacity it is given or the one that is there.
LEMMA KnownTaken ==
    ASSUME TypeInv, KnownInv, NEW r \in Requests, NEW i \in Ids, Exists(i), NEW x,
           call' = [call EXCEPT ![r] = x], x.id = i, UNCHANGED account,
           \/ x.copy.capacity = account[i].capacity /\ UNCHANGED cleared
           \/ Clears(i, x.copy.capacity)
    PROVE  KnownInv'
<1>1. cleared \subseteq cleared' /\ (x.copy.capacity = Null => i \in cleared')
  BY DEF KnownInv, Clears
<1> QED
  BY <1>1, KnownElsewhere

LEMMA KnownWritten ==
    ASSUME TypeInv, KnownInv, NEW r \in Requests, UpdateUser(r)
    PROVE  KnownInv'
<1>1. PICK i \in Ids : i = call[r].id /\ Holding(r, i)
  BY DEF UpdateUser, TypeInv, Read, Holding
<1>2. call[r].copy \in Account
  BY DEF UpdateUser, TypeInv, Read
<1>3. \/ call' = [call EXCEPT ![r] = Ended(r, "done")]
      \/ call' = [call EXCEPT ![r] = [Ended(r, "forget") EXCEPT !.id = i]]
  BY <1>1 DEF UpdateUser, End
<1>4. Ended(r, "done").pc = "done" /\ [Ended(r, "forget") EXCEPT !.id = i].pc = "forget"
  BY DEF Ended, New, NoCall
<1>5. call'[r].pc \in {"done", "forget"} /\ \A q \in Requests \ {r} : call'[q] = call[q]
  BY <1>3, <1>4 DEF TypeInv, TypeOK
<1>6. ASSUME NEW q \in Requests, NEW j \in Ids, Holding(q, j)'
      PROVE  q # r /\ Holding(q, j) /\ call'[q] = call[q]
  BY <1>5, <1>6 DEF Holding
<1>7. account' = IF Exists(i)
                 THEN [account EXCEPT ![i] = Written(account[i], call[r].copy, call[r].cols)]
                 ELSE account
  BY <1>1 DEF UpdateUser
<1>8. \A j \in Ids \ {i} : account'[j] = account[j]
  BY <1>7 DEF TypeInv, TypeOK
<1>9. /\ cleared \ {i} \subseteq cleared'
      /\ i \in cleared \ cleared' => account'[i].capacity # Null /\ ~HeldBesides(r, i)
  BY <1>1 DEF UpdateUser
\* What it writes is in its copy, or was in the row.
<1>10. ASSUME Exists(i)', account'[i].capacity = Null PROVE i \in cleared'
  <2>1. Exists(i)
    BY <1>7, <1>10 DEF Exists
  <2>2. account'[i] = Written(account[i], call[r].copy, call[r].cols)
    BY <1>7, <2>1 DEF TypeInv, TypeOK
  <2>3. call[r].copy.capacity = Null \/ account[i].capacity = Null
    BY <1>10, <2>2 DEF Written
  <2>4. i \in cleared
    BY <1>1, <2>1, <2>3 DEF KnownInv
  <2> QED
    BY <1>9, <1>10, <2>4
<1>11. ASSUME NEW j \in Ids, Exists(j)', account'[j].capacity = Null PROVE j \in cleared'
  <2>1. CASE j = i
    BY <1>10, <1>11, <2>1
  <2>2. CASE j # i
    BY <1>8, <1>9, <1>11, <2>2 DEF KnownInv, Exists
  <2> QED
    BY <2>1, <2>2
<1>12. ASSUME NEW q \in Requests, NEW j \in Ids, Holding(q, j)', call'[q].copy.capacity = Null
       PROVE  j \in cleared'
  <2>1. q # r /\ Holding(q, j) /\ j \in cleared
    BY <1>6, <1>12 DEF KnownInv
  <2>2. j = i => HeldBesides(r, i)
    BY <2>1 DEF HeldBesides, Holding
  <2> QED
    BY <1>9, <2>1, <2>2
<1> QED
  BY <1>11, <1>12 DEF KnownInv

LEMMA KnownEdited ==
    ASSUME TypeInv, KnownInv, NEW i \in Ids, NEW a, EditUser(i, a)
    PROVE  KnownInv'
<1>1. /\ UNCHANGED call /\ account' = [account EXCEPT ![i] = a] /\ Exists(i)
      /\ IF a.capacity = Null \/ Held(i) THEN Clears(i, a.capacity)
         ELSE cleared' = cleared \ {i}
  BY DEF EditUser
<1>2. account'[i] = a /\ \A j \in Ids \ {i} : account'[j] = account[j]
  BY <1>1 DEF TypeInv, TypeOK
<1>3. /\ cleared \ {i} \subseteq cleared'
      /\ i \in cleared \ cleared' => a.capacity # Null /\ ~Held(i)
      /\ a.capacity = Null => i \in cleared'
  BY <1>1 DEF Clears, KnownInv
<1>4. ASSUME NEW j \in Ids, Exists(j)', account'[j].capacity = Null PROVE j \in cleared'
  <2>1. CASE j = i
    BY <1>2, <1>3, <1>4, <2>1
  <2>2. CASE j # i
    BY <1>2, <1>3, <1>4, <2>2 DEF KnownInv, Exists
  <2> QED
    BY <2>1, <2>2
<1>5. ASSUME NEW q \in Requests, NEW j \in Ids, Holding(q, j)', call'[q].copy.capacity = Null
      PROVE  j \in cleared'
  <2>1. Holding(q, j) /\ j \in cleared
    BY <1>1, <1>5 DEF KnownInv, Holding
  <2>2. j = i => Held(i)
    BY <2>1 DEF Held, Holding
  <2> QED
    BY <1>3, <2>1, <2>2
<1> QED
  BY <1>4, <1>5 DEF KnownInv

LEMMA KnownNext == TypeInv /\ KnownInv /\ [Next]_vars => KnownInv'
<1> SUFFICES ASSUME TypeInv, KnownInv, [Next]_vars PROVE KnownInv'
  OBVIOUS
<1> USE DEF tokens, ghosts
<1>1. ASSUME NEW r \in Requests, NEW kind, NEW x, Begin(r, kind, x),
             x.pc \notin {"load", "write"}, UNCHANGED <<account, cleared>>
      PROVE  KnownInv'
  BY <1>1, KnownElsewhere DEF Begin
<1>2. ASSUME NEW r \in Requests PROVE \A how : Ended(r, how).pc = how /\ Ended(r, how).kind = call[r].kind
  BY DEF Ended, New, NoCall
<1>3. ASSUME NEW r \in Requests, End(r), UNCHANGED <<account, cleared>> PROVE KnownInv'
  <2> DEFINE x == Ended(r, "done")
  <2>1. call' = [call EXCEPT ![r] = x] /\ x.pc = "done" /\ x.kind = call[r].kind
    BY <1>2, <1>3 DEF End
  <2> HIDE DEF x
  <2> QED
    BY <1>3, <2>1, KnownElsewhere
<1>4. ASSUME NEW r \in Requests, NEW e \in Addresses, Login(r, e) PROVE KnownInv'
  <2>1. ASSUME NEW i, Begin(r, "login", [New("login", "compare") EXCEPT !.id = i,
                                                                  !.copy = account[i]])
        PROVE  KnownInv'
    <3> DEFINE x == [New("login", "compare") EXCEPT !.id = i, !.copy = account[i]]
    <3>1. x.pc = "compare"
      BY DEF New, NoCall
    <3> HIDE DEF x
    <3> QED
      BY <1>1, <1>4, <2>1, <3>1 DEF Login, x
  <2>2. CASE Begin(r, "login", New("login", "done"))
    BY <1>1, <1>4, <2>2 DEF Login, New, NoCall
  <2> QED
    BY <1>4, <2>1, <2>2 DEF Login
<1>5. ASSUME NEW r \in Requests, NEW e \in Addresses,
             SendPasswordResetLink(r, e) \/ SendEmailConfirmation(r, e)
      PROVE  KnownInv'
  BY <1>1, <1>5 DEF SendPasswordResetLink, SendEmailConfirmation, New, NoCall
<1>6. ASSUME NEW r \in Requests, NEW t \in Requests,
             Logout(r, t) \/ Refresh(r, t) \/ ChangePassword(r, t)
      PROVE  KnownInv'
  <2> DEFINE x == [New("refresh", "read") EXCEPT !.email = refreshTokens[t]]
             y == [New("change", "read") EXCEPT !.token = t, !.email = passwordResetTokens[t]]
             z == [New("change", "done") EXCEPT !.token = t]
  <2>1. x.pc = "read" /\ y.pc = "read" /\ z.pc = "done"
    BY DEF New, NoCall
  <2>2. /\ \/ Begin(r, "refresh", x) \/ Begin(r, "refresh", New("refresh", "done"))
           \/ Begin(r, "logout", New("logout", "done"))
           \/ Begin(r, "change", y) \/ Begin(r, "change", z)
        /\ UNCHANGED <<account, cleared>>
    BY <1>6 DEF Logout, Refresh, ChangePassword
  <2> HIDE DEF x, y, z
  <2> QED
    BY <1>1, <2>1, <2>2 DEF New, NoCall
<1>7. ASSUME NEW r \in Requests, NEW e \in Addresses,
             \/ \E c \in Capacities : ProcessForm(r, e, c)
             \/ \E c \in Given, t \in Teams \union {Null} : CreateUser(r, e, c, t)
      PROVE  KnownInv'
  <2>1. /\ call'[r].pc = "done"
        /\ \A q \in Requests \ {r} : call'[q] = call[q]
    BY <1>7 DEF ProcessForm, CreateUser, Begin, New, NoCall, TypeInv, TypeOK
  <2>2. /\ cleared \subseteq cleared'
        /\ account' # account => \E c, t : /\ account' = [account EXCEPT ![r] = NewAccount(r, e, c, t)]
                                           /\ c = Null => r \in cleared'
    <3>1. ASSUME NEW c \in Capacities, ProcessForm(r, e, c) PROVE <2>2
      <4>1. Chosen(c) # Null
        BY ChosenIsCapacity, AccountsWords
      <4> QED
        BY <3>1, <4>1 DEF ProcessForm, Insert
    <3>2. ASSUME NEW c \in Given, NEW t \in Teams \union {Null}, CreateUser(r, e, c, t) PROVE <2>2
      BY <3>2 DEF CreateUser, Insert
    <3> QED
      BY <1>7, <3>1, <3>2
  <2>3. ASSUME NEW i \in Ids, Exists(i)', account'[i].capacity = Null
        PROVE  i \in cleared' \/ (Exists(i) /\ account[i].capacity = Null)
    BY <2>2, <2>3 DEF Exists, NewAccount, TypeInv, TypeOK
  <2>4. ASSUME NEW q \in Requests, NEW i \in Ids, Holding(q, i)', call'[q].copy.capacity = Null
        PROVE  Holding(q, i) /\ call[q].copy.capacity = Null
    BY <2>1, <2>4 DEF Holding
  <2> QED
    BY <2>2, <2>3, <2>4, KnownKept
<1>8. ASSUME NEW r \in Requests, NEW i \in Ids, NEW c \in Capacities \union {Null},
             UpdateProfile(r, i, c)
      PROVE  KnownInv'
  <2>1. CASE Exists(i)
    <3> DEFINE a == [account[i] EXCEPT !.capacity = c]
               x == [New("profile", "load") EXCEPT !.id = i, !.copy = a]
    <3>1. a.capacity = c
      BY <2>1, AccountRead DEF TypeInv, Account
    <3>2. Begin(r, "profile", x) /\ Clears(i, c) /\ UNCHANGED account
      BY <1>8, <2>1 DEF UpdateProfile
    <3> HIDE DEF a
    <3>3. x.id = i /\ x.copy = a
      BY DEF New, NoCall
    <3> HIDE DEF x
    <3> QED
      BY <2>1, <3>1, <3>2, <3>3, KnownTaken DEF Begin
  <2>2. CASE ~Exists(i)
    BY <1>1, <1>8, <2>2 DEF UpdateProfile, New, NoCall
  <2> QED
    BY <2>1, <2>2
<1>9. ASSUME NEW r \in Requests, NEW lead \in Members, NEW i \in Ids, UpdateTeamMember(r, lead, i)
      PROVE  KnownInv'
  <2> DEFINE x == [New("team-member", "member") EXCEPT !.id = i, !.lead = lead,
                                                       !.team = account[lead].team]
  <2>1. x.pc = "member"
    BY DEF New, NoCall
  <2>2. /\ Begin(r, "team-member", x) \/ Begin(r, "team-member", New("team-member", "done"))
        /\ UNCHANGED <<account, cleared>>
    BY <1>9 DEF UpdateTeamMember
  <2> HIDE DEF x
  <2> QED
    BY <1>1, <2>1, <2>2 DEF New, NoCall
<1>10. ASSUME NEW r \in Requests, LoginCompared(r) \/ RefreshRead(r) \/ ForgetLink(r)
       PROVE  KnownInv'
  BY <1>3, <1>10 DEF LoginCompared, RefreshRead, ForgetLink
<1>11. ASSUME NEW r \in Requests, ChangeRead(r) PROVE KnownInv'
  <2>1. ASSUME NEW i \in WithEmail(call[r].email),
               call' = [call EXCEPT ![r].pc = "load", ![r].id = i,
                                    ![r].copy = [account[i] EXCEPT !.password = r]]
        PROVE  KnownInv'
    <3> DEFINE a == [account[i] EXCEPT !.password = r]
               x == [call[r] EXCEPT !.pc = "load", !.id = i, !.copy = a]
    <3>1. i \in Ids /\ Exists(i) /\ a.capacity = account[i].capacity
      BY FoundByEmail, AccountRead DEF TypeInv, Account
    <3>2. call' = [call EXCEPT ![r] = x] /\ call[r] \in Call
      BY <2>1 DEF TypeInv, TypeOK
    <3> HIDE DEF a
    <3>3. x.id = i /\ x.copy = a
      BY <3>2 DEF Call
    <3>4. UNCHANGED <<account, cleared>>
      BY <1>11 DEF ChangeRead
    <3> HIDE DEF x
    <3> QED
      BY <3>1, <3>2, <3>3, <3>4, KnownTaken
  <2>2. CASE End(r)
    BY <1>3, <1>11, <2>2 DEF ChangeRead
  <2> QED
    BY <1>11, <2>1, <2>2 DEF ChangeRead
<1>12. ASSUME NEW r \in Requests, NEW st \in Statuses, NEW c \in Given, ReadTeamMember(r, st, c)
       PROVE  KnownInv'
  <2> DEFINE i == call[r].id
             a == [account[i] EXCEPT !.status = st, !.capacity = c]
             x == [call[r] EXCEPT !.pc = "load", !.copy = a]
  <2>1. i \in Ids
    BY <1>12 DEF ReadTeamMember, At, TypeInv, Read
  <2>2. CASE Exists(i) /\ account[i].team = call[r].team
    <3>1. a.capacity = c
      BY <2>1, <2>2, AccountRead DEF TypeInv, Account
    <3>2. /\ call' = [call EXCEPT ![r] = x] /\ Clears(i, c)
          /\ UNCHANGED account /\ call[r] \in Call
      BY <1>12, <2>2 DEF ReadTeamMember, TypeInv, TypeOK
    <3> HIDE DEF a
    <3>3. x.id = i /\ x.copy = a
      BY <3>2 DEF Call
    <3> HIDE DEF x, i
    <3> QED
      BY <2>1, <2>2, <3>1, <3>2, <3>3, KnownTaken
  <2>3. CASE ~(Exists(i) /\ account[i].team = call[r].team)
    BY <1>3, <1>12, <2>3 DEF ReadTeamMember
  <2> QED
    BY <2>2, <2>3
<1>13. ASSUME NEW r \in Requests, SaveUser(r) PROVE KnownInv'
  <2>1. ASSUME NEW cols, call' = [call EXCEPT ![r].pc = "write", ![r].cols = cols] PROVE KnownInv'
    <3> DEFINE x == [call[r] EXCEPT !.pc = "write", !.cols = cols]
    <3>1. call' = [call EXCEPT ![r] = x] /\ call[r] \in Call
      BY <2>1 DEF TypeInv, TypeOK
    <3>2. x.id = call[r].id /\ x.copy = call[r].copy
      BY <3>1 DEF Call
    <3>3. UNCHANGED <<account, cleared>> /\ Holding(r, call[r].id)
      BY <1>13 DEF SaveUser, Holding
    <3> HIDE DEF x
    <3> QED
      BY <3>1, <3>2, <3>3, KnownElsewhere
  <2> QED
    BY <1>3, <1>13, <2>1 DEF SaveUser
<1>14. ASSUME NEW r \in Requests, UpdateUser(r) PROVE KnownInv'
  BY <1>14, KnownWritten
<1>15. ASSUME NEW i \in Ids, NEW a \in AdminEdits(i), EditUser(i, a) PROVE KnownInv'
  BY <1>15, KnownEdited
<1>16. CASE Crash
  <2>1. ASSUME NEW q \in Requests PROVE call'[q] = call[q] \/ call'[q].pc = "lost"
    BY <1>2, <1>16 DEF Crash
  <2>2. UNCHANGED <<account, cleared>>
    BY <1>16 DEF Crash
  <2>3. ASSUME NEW q \in Requests, NEW i \in Ids, Holding(q, i)', call'[q].copy.capacity = Null
        PROVE  Holding(q, i) /\ call[q].copy.capacity = Null
    BY <2>1, <2>3 DEF Holding
  <2> QED
    BY <2>2, <2>3, KnownKept DEF Exists
<1>17. CASE UNCHANGED vars
  BY <1>17 DEF vars, KnownInv, Holding, Exists
<1>18. CASE AuthController
  BY <1>4, <1>5, <1>6, <1>18 DEF AuthController
<1>19. CASE NewUserController
  BY <1>5, <1>7, <1>19 DEF NewUserController
<1>20. CASE UserController
  <2>1. \A i \in Ids : Given \union {account[i].capacity} \subseteq Capacities \union {Null}
    BY GivenCapacity DEF TypeInv
  <2> QED
    BY <1>8, <1>9, <1>20, <2>1 DEF UserController
<1>21. ASSUME NEW r \in Requests, RequestStep(r) PROVE KnownInv'
  BY <1>10, <1>11, <1>12, <1>13, <1>14, <1>21 DEF RequestStep
<1>30. CASE UserAdminController
  BY <1>15, <1>7, <1>30 DEF UserAdminController
<1> QED
  BY <1>30, <1>16, <1>17, <1>18, <1>19, <1>20, <1>21 DEF Next

\* For teams of any size: a team has a mean capacity unless one of its members was given
\* none, and nobody has given that member one since without another request in between.
THEOREM CapacityIsKnown == Spec => []CapacityKnown
<1>1. Init => TypeInv /\ KnownInv
  BY TypeInit, KnownInit
<1>2. (TypeInv /\ KnownInv) /\ [Next]_vars => (TypeInv /\ KnownInv)'
  BY TypeNext, KnownNext
<1>3. TypeInv /\ KnownInv => CapacityKnown
  <2> SUFFICES ASSUME KnownInv, NEW t \in Teams, Users(t) # {}, Users(t) \intersect cleared = {}
               PROVE  MeanCarryingCapacity(Users(t), CapacityOf, Null) # Null
    BY DEF CapacityKnown
  <2>1. IsFiniteSet(Ids)
    BY AccountsFinite, FS_Union DEF Ids
  <2>2. IsFiniteSet(Users(t))
    BY <2>1, FS_Subset DEF Users
  <2>3. \A i \in Users(t) : CapacityOf[i] # Null
    BY DEF Users, CapacityOf, KnownInv
  <2> QED
    BY <2>2, <2>3, AccountsWords, MeanIsKnown DEF Capacities
<1> QED
  BY <1>1, <1>2, <1>3, PTL DEF Spec

-----------------------------------------------------------------------------
(* The scores of a team (TeamHealth), for teams of any size: what team.entity.spec.ts *)
(* tries on a few teams.                                                              *)

\* How far a team is from twelve members.
Distance(n) == IF n < 12 THEN 12 - n ELSE n - 12

\* "should return higher rating the closer the member count is to 12"
\* (getPeopleCountScore): of two teams of which one scores at all, the one nearer to
\* twelve members scores higher, and as high as the other if both are as near.
THEOREM CountScorePeaks ==
    \A m, n \in Nat :
        /\ Fraction(PeopleCountScore(n))
        /\ Distance(m) < Distance(n) /\ m \in 7 .. 17
             => Less(PeopleCountScore(n), PeopleCountScore(m))
        /\ Distance(m) = Distance(n) => PeopleCountScore(m) = PeopleCountScore(n)
<1> SUFFICES ASSUME NEW m \in Nat, NEW n \in Nat
             PROVE  /\ Fraction(PeopleCountScore(n))
                    /\ Distance(m) < Distance(n) /\ m \in 7 .. 17
                         => Less(PeopleCountScore(n), PeopleCountScore(m))
                    /\ Distance(m) = Distance(n) => PeopleCountScore(m) = PeopleCountScore(n)
  OBVIOUS
<1>1. ASSUME NEW k \in Nat
      PROVE  /\ Distance(k) \in Nat
             /\ Distance(k) = 0 => PeopleCountScore(k) = <<1, 1>>
             /\ Distance(k) \in 1 .. 5 => PeopleCountScore(k) = <<10 - Distance(k), 10>>
             /\ Distance(k) > 5 => PeopleCountScore(k) = <<0, 1>>
             /\ k \in 7 .. 17 => Distance(k) \in 0 .. 5
  BY DEF Distance, PeopleCountScore, One, Zero
<1>2. Fraction(PeopleCountScore(n))
  BY <1>1 DEF Fraction
<1>3. ASSUME Distance(m) < Distance(n), m \in 7 .. 17
      PROVE  Less(PeopleCountScore(n), PeopleCountScore(m))
  BY <1>1, <1>3 DEF Less
<1>4. ASSUME Distance(m) = Distance(n) PROVE PeopleCountScore(m) = PeopleCountScore(n)
  BY <1>1, <1>4
<1> QED  BY <1>2, <1>3, <1>4

\* The smaller of two counts as a part of the larger, which is all when both are none.
IsRatio(x, a, b) ==
    /\ Fraction(x)
    /\ IF a = b THEN x = One
       ELSE IF a < b THEN x[1] * b = a * x[2] ELSE x[1] * a = b * x[2]

LEMMA AgeIsRatio ==
    ASSUME NEW old \in Nat, NEW young \in Nat
    PROVE  IsRatio(AgeScore(old, young), old, young)
  BY DEF IsRatio, Fraction, AgeScore, One, Zero

LEMMA GenderIsRatio ==
    ASSUME NEW females \in Nat, NEW males \in Nat, NEW n \in Nat, females + males <= n
    PROVE  IsRatio(GenderScore(females, males, n), females, males)
  BY DEF IsRatio, Fraction, GenderScore, One, Zero

LEMMA ColumnCounts ==
    ASSUME NEW users, IsFiniteSet(users), NEW column, NEW a, NEW b, a # b
    PROVE  /\ Cardinality(With(users, column, a)) \in Nat
           /\ Cardinality(With(users, column, b)) \in Nat
           /\ Cardinality(With(users, column, a)) + Cardinality(With(users, column, b))
                <= Cardinality(users)
<1> DEFINE A == With(users, column, a)
           B == With(users, column, b)
<1>1. A \subseteq users /\ B \subseteq users /\ A \union B \subseteq users /\ A \intersect B = {}
  BY DEF With
<1> HIDE DEF A, B
<1>2. IsFiniteSet(A) /\ IsFiniteSet(B) /\ IsFiniteSet(A \union B)
  BY <1>1, FS_Subset
<1>3. /\ Cardinality(A) \in Nat /\ Cardinality(B) \in Nat /\ Cardinality(users) \in Nat
      /\ Cardinality(A \union B) <= Cardinality(users)
  BY <1>1, <1>2, FS_Subset, FS_CardinalityType
<1>4. Cardinality(A \union B) = Cardinality(A) + Cardinality(B) - Cardinality(A \intersect B)
  BY <1>2, FS_Union
<1>5. Cardinality(A \intersect B) = 0
  BY <1>1, FS_EmptySet
<1>6. Cardinality(A) + Cardinality(B) <= Cardinality(users)
  BY <1>3, <1>4, <1>5
<1> QED  BY <1>3, <1>6 DEF A, B

\* The rounded mean is a nearest one, the higher of two (Math.round).
LEMMA RoundIsNearest ==
    ASSUME NEW a \in Nat, NEW b \in Nat \ {0}
    PROVE  /\ Round(a, b) \in Nat
           /\ 2 * (b * Round(a, b)) - b <= 2 * a /\ 2 * a < 2 * (b * Round(a, b)) + b
<1>1. PICK d \in Nat \ {0} : d = 2 * b
  OBVIOUS
<1>2. PICK c \in Nat : c = 2 * a + b
  OBVIOUS
<1>3. PICK q \in Int : q = c \div d
  BY <1>1, <1>2
<1>4. d * q <= c /\ c < d * q + d
  BY <1>1, <1>2, <1>3
<1>5. q >= 0
  BY <1>1, <1>2, <1>4
<1>6. d * q = 2 * (b * q)
  BY <1>1
<1>7. Round(a, b) = q
  BY <1>1, <1>2, <1>3 DEF Round
<1>8. PICK p \in Int : p = b * q
  OBVIOUS
<1>9. 2 * p - b <= 2 * a /\ 2 * a < 2 * p + b
  BY <1>1, <1>2, <1>4, <1>6, <1>8
<1> QED  BY <1>5, <1>7, <1>8, <1>9

\* The health of a team with members (setHealth): both diversity scores are the part the
\* smaller group is of the larger, and so the same whichever group is which, whoever has
\* no date of birth or another gender; and the mean capacity is that of three which is
\* nearest to what the members can carry together.
THEOREM HealthOfAnyTeam ==
    ASSUME NEW users, IsFiniteSet(users), users # {},
           NEW capacity, NEW gender, NEW age, NEW none,
           none \notin {"low", "medium", "high"}, \A u \in users : capacity[u] # none
    PROVE  LET health == Health(users, capacity, gender, age, none)
               count(column, value) == Cardinality(With(users, column, value))
           IN /\ IsRatio(health.ageDiversityScore, count(age, "old"), count(age, "young"))
              /\ IsRatio(health.genderDiversityScore,
                         count(gender, "female"), count(gender, "male"))
              /\ \E mean \in 0 .. 2 :
                    /\ health.meanCarryingCapacity = <<"low", "medium", "high">>[mean + 1]
                    /\ LET total == count(capacity, "medium") + 2 * count(capacity, "high")
                           n     == Cardinality(users)
                       IN 2 * (n * mean) - n <= 2 * total /\ 2 * total < 2 * (n * mean) + n
<1> DEFINE health == Health(users, capacity, gender, age, none)
           count(column, value) == Cardinality(With(users, column, value))
           total == count(capacity, "medium") + 2 * count(capacity, "high")
           n == Cardinality(users)
           mean == Round(total, n)
<1>1. n \in Nat \ {0}
  BY FS_CardinalityType, FS_EmptySet
<1>2. IsRatio(health.ageDiversityScore, count(age, "old"), count(age, "young"))
  <2>1. count(age, "old") \in Nat /\ count(age, "young") \in Nat
    BY ColumnCounts
  <2>2. health.ageDiversityScore = AgeScore(count(age, "old"), count(age, "young"))
    BY DEF Health
  <2> QED  BY <2>1, <2>2, AgeIsRatio
<1>3. IsRatio(health.genderDiversityScore, count(gender, "female"), count(gender, "male"))
  <2>1. /\ count(gender, "female") \in Nat /\ count(gender, "male") \in Nat
        /\ count(gender, "female") + count(gender, "male") <= n
    BY ColumnCounts
  <2>2. health.genderDiversityScore = GenderScore(count(gender, "female"), count(gender, "male"), n)
    BY DEF Health
  <2> QED  BY <1>1, <2>1, <2>2, GenderIsRatio
<1>4. total \in Nat /\ total <= 2 * n
  BY <1>1, ColumnCounts
<1>5. health.meanCarryingCapacity = <<"low", "medium", "high">>[mean + 1]
  BY DEF Health, MeanCarryingCapacity
<1> HIDE DEF total, n
<1>6. mean \in 0 .. 2
  <2>1. 2 * total + n \in Nat /\ 2 * n \in Nat \ {0} /\ 2 * total + n < 3 * (2 * n)
    BY <1>1, <1>4
  <2> QED  BY <2>1, SmallQuotient DEF Round
<1>7. 2 * (n * mean) - n <= 2 * total /\ 2 * total < 2 * (n * mean) + n
  BY <1>1, <1>4, RoundIsNearest
<1> HIDE DEF mean
<1>8. \E m \in 0 .. 2 : /\ health.meanCarryingCapacity = <<"low", "medium", "high">>[m + 1]
                        /\ 2 * (n * m) - n <= 2 * total /\ 2 * total < 2 * (n * m) + n
  BY <1>5, <1>6, <1>7, Zenon
<1> QED  BY <1>2, <1>3, <1>8 DEF total, n
===============================================================================

------------------------------- MODULE Accounts -------------------------------
(***************************************************************************)
(* Accounts: signing up (new-user.service.ts), sessions and passwords      *)
(* (auth.service.ts, with the claims of its tokens and role.guard.ts), and *)
(* the saves of a profile and of a team member (user.service.ts), with     *)
(* what administrators do to the same rows.                                *)
(*                                                                         *)
(* Every save here is of an entity read in an earlier call.  Which columns *)
(* it can write is decided by what that call loaded: findByEmail loads     *)
(* five, findOne all but the password.  Refresh and reset tokens live in   *)
(* the process, signed access tokens in the hands of their owners.         *)
(*                                                                         *)
(* Rows are named after the form that inserts them, refresh and reset      *)
(* tokens after the request that issues them, and a password after the     *)
(* request that sets it.                                                   *)
(***************************************************************************)
EXTENDS Naturals, FiniteSets, TeamHealth

CONSTANTS
    Members,        \* accounts at the start
    Leads,          \* members who are market leads at the start
    StartTeams,     \* teams the members may be in at the start (bound)
    NewAddress,     \* an address that has no account at the start
    Requests,       \* requests the run may make (bound)
    Teams,
    Kinds,          \* which of the requests below the run exercises
    Given,          \* capacities that may be given to an account, or none (bound)
    MaxEdits,       \* accounts administrators change, delete or create (bound)
    CrashAllowed,
    Null

AllKinds == {"login", "refresh", "logout", "link", "change", "profile", "team-member",
             "confirm", "form", "create"}

ASSUME AccountsKinds == Kinds \subseteq AllKinds
ASSUME AccountsStart == Leads \subseteq Members /\ StartTeams \subseteq Teams
ASSUME AccountsNames == /\ Members \intersect Requests = {}
                        /\ Null \notin Members \union Requests \union Teams \union {NewAddress}
                        /\ NewAddress \notin Members
ASSUME AccountsFinite == IsFiniteSet(Members) /\ IsFiniteSet(Requests)

Ids == Members \union Requests
Addresses == Members \union {NewAddress}

Roles      == {"member", "market-lead"}
Capacities == {"low", "medium", "high"}
Statuses   == {"new", "active"}
ASSUME AccountsWords == Null \notin Capacities \union AllKinds

ASSUME AccountsBounds == MaxEdits \in Nat /\ Given \subseteq Capacities \union {Null}

Account == [email : Addresses, password : Ids, roles : SUBSET Roles, paid : BOOLEAN,
            status : Statuses, capacity : Capacities \union {Null}, team : Teams \union {Null}]
NoAccount == [email |-> Null, password |-> Null, roles |-> {}, paid |-> FALSE,
              status |-> "new", capacity |-> Null, team |-> Null]

\* What findByEmail and findOne load of a row, and so what a save may write.
ByEmailColumns == {"password", "roles", "paid"}
ByIdColumns    == {"roles", "paid", "status", "capacity", "team"}
Columns        == ByEmailColumns \union ByIdColumns

Claims == [id : Ids, email : Addresses, roles : SUBSET Roles]

Pcs == {"idle", "compare", "read", "member", "load", "write", "forget", "done", "lost"}
Call == [kind : AllKinds \union {Null}, pc : Pcs, id : Ids \union {Null},
         email : Addresses \union {Null}, token : Requests \union {Null},
         lead : Members \union {Null}, team : Teams \union {Null},
         copy : Account \union {NoAccount}, cols : SUBSET Columns]
NoCall == [kind |-> Null, pc |-> "idle", id |-> Null, email |-> Null, token |-> Null,
           lead |-> Null, team |-> Null, copy |-> NoAccount, cols |-> {}]

VARIABLES
    account,                \* table user
    refreshTokens,          \* in the process: refresh token to address
    passwordResetTokens,    \* in the process: token of a mailed link to address
    access,                 \* claims of the access tokens that were signed
    call,                   \* requests in progress
    mailed,                 \* requests that queued a mail
    edits,                  \* edits made by administrators
    used,                   \* history: (link, request that stored a password with it)
    doubled,                \* history: links that two requests held at once
    raced,                  \* history: accounts touched while a request held them
    moved,                  \* history: requests whose lead or member was moved meanwhile
    cleared                 \* history: accounts given no capacity, and none since

vars == <<account, refreshTokens, passwordResetTokens, access, call, mailed, edits,
          used, doubled, raced, moved, cleared>>
tokens == <<refreshTokens, passwordResetTokens>>
ghosts == <<used, doubled, raced, moved, cleared>>

\* Members are active, in a team, and hold an access token of their role.
Init ==
    /\ \E start \in [Members -> StartTeams] :
         account = [i \in Ids |->
           IF i \in Requests THEN NoAccount
           ELSE [email |-> i, password |-> i, paid |-> FALSE, status |-> "active",
                 roles |-> IF i \in Leads THEN Roles ELSE {"member"},
                 capacity |-> "low", team |-> start[i]]]
    /\ refreshTokens = [r \in Requests |-> Null]
    /\ passwordResetTokens = [r \in Requests |-> Null]
    /\ access = {[id |-> i, email |-> i, roles |-> account[i].roles] : i \in Members}
    /\ call = [r \in Requests |-> NoCall]
    /\ mailed = {}
    /\ edits = 0
    /\ used = {}
    /\ doubled = {}
    /\ raced = {}
    /\ moved = {}
    /\ cleared = {}

-----------------------------------------------------------------------------
Exists(i) == account[i] # NoAccount
Active(r) == call[r].pc \notin {"idle", "done", "lost"}

\* findByEmail: at most one row, by the unique key.
WithEmail(e) == {i \in Ids : Exists(i) /\ account[i].email = e}

\* A new request, at its first database call or already answered.
Begin(r, kind, first) ==
    /\ kind \in Kinds
    /\ call[r].pc = "idle"
    /\ call' = [call EXCEPT ![r] = first]
New(kind, pc) == [NoCall EXCEPT !.kind = kind, !.pc = pc]

At(r, kind, pc) == call[r].kind = kind /\ call[r].pc = pc

\* What is left of a request that ended (or died).
Ended(r, how) == [New(call[r].kind, how) EXCEPT !.token = call[r].token]
End(r) == call' = [call EXCEPT ![r] = Ended(r, "done")]

\* Another request has read this account and may still save what it read.
Held(i) == \E r \in Requests : call[r].id = i /\ call[r].pc \in {"load", "write"}
HeldBesides(r, i) == \E q \in Requests \ {r} : call[q].id = i /\ call[q].pc \in {"load", "write"}
Touches(i) == raced' = IF Held(i) THEN raced \union {i} ELSE raced

\* An account gets this capacity, or is left with the one it has.
Clears(i, capacity) ==
    cleared' = IF capacity = Null /\ account[i].capacity # Null THEN cleared \union {i} ELSE cleared

\* The team of an account changes, by an edit or by a stale save: requests that are
\* about a lead or a member and that account are noted.
Moves(i) ==
    moved' = IF account'[i].team = account[i].team THEN moved
             ELSE moved \union {r \in Requests : Active(r) /\ i \in {call[r].id, call[r].lead}}

\* A valid access token of this member; and one whose roles RoleGuard lets through.
\* Admins, who pass everywhere, are left out.
LoggedIn(i) == \E c \in access : c.id = i
RoleGuard(i, roles) == \E c \in access : c.id = i /\ c.roles \intersect roles # {}

\* getTokenPayload.
ClaimsOf(i, a) == [id |-> i, email |-> a.email, roles |-> a.roles]

-----------------------------------------------------------------------------
(* Sessions.                                                               *)

\* validateUser reads the account; comparing the hashes takes its time.
Login(r, e) ==
    /\ \/ WithEmail(e) = {} /\ Begin(r, "login", New("login", "done"))
       \/ \E i \in WithEmail(e) :
            Begin(r, "login", [New("login", "compare") EXCEPT !.id = i, !.copy = account[i]])
    /\ UNCHANGED <<account, tokens, access, mailed, edits, ghosts>>

\* The claims are those of the account as it was read.  A wrong password is refused.
LoginCompared(r) ==
    /\ At(r, "login", "compare")
    /\ \/ UNCHANGED <<refreshTokens, access>>
       \/ /\ refreshTokens' = [refreshTokens EXCEPT ![r] = call[r].copy.email]
          /\ access' = access \union {ClaimsOf(call[r].id, call[r].copy)}
    /\ End(r)
    /\ UNCHANGED <<account, passwordResetTokens, mailed, edits, ghosts>>

Logout(r, t) ==
    /\ Begin(r, "logout", New("logout", "done"))
    /\ refreshTokens' = [refreshTokens EXCEPT ![t] = Null]
    /\ UNCHANGED <<account, passwordResetTokens, access, mailed, edits, ghosts>>

Refresh(r, t) ==
    /\ Begin(r, "refresh",
             IF refreshTokens[t] = Null THEN New("refresh", "done")
             ELSE [New("refresh", "read") EXCEPT !.email = refreshTokens[t]])
    /\ UNCHANGED <<account, tokens, access, mailed, edits, ghosts>>

\* An account that is gone makes the request fail.
RefreshRead(r) ==
    /\ At(r, "refresh", "read")
    /\ access' = access \union {ClaimsOf(i, account[i]) : i \in WithEmail(call[r].email)}
    /\ End(r)
    /\ UNCHANGED <<account, tokens, mailed, edits, ghosts>>

-----------------------------------------------------------------------------
(* Passwords.                                                              *)

\* An address without an account gets the same answer and no link.
SendPasswordResetLink(r, e) ==
    /\ Begin(r, "link", New("link", "done"))
    /\ IF WithEmail(e) = {} THEN UNCHANGED <<passwordResetTokens, mailed>>
       ELSE /\ passwordResetTokens' = [passwordResetTokens EXCEPT ![r] = e]
            /\ mailed' = mailed \union {r}
    /\ UNCHANGED <<account, refreshTokens, access, edits, ghosts>>

\* The link is only looked up here: it is forgotten after the save.
ChangePassword(r, l) ==
    /\ Begin(r, "change",
             IF passwordResetTokens[l] = Null
             THEN [New("change", "done") EXCEPT !.token = l]
             ELSE [New("change", "read") EXCEPT !.token = l, !.email = passwordResetTokens[l]])
    /\ doubled' = IF \E q \in Requests : call[q].token = l /\ Active(q)
                  THEN doubled \union {l} ELSE doubled
    /\ UNCHANGED <<account, tokens, access, mailed, edits, used, raced, moved, cleared>>

\* findByEmail, then the hash.  Without an account the request fails.
ChangeRead(r) ==
    /\ At(r, "change", "read")
    /\ \/ WithEmail(call[r].email) = {} /\ End(r) /\ UNCHANGED raced
       \/ \E i \in WithEmail(call[r].email) :
            /\ call' = [call EXCEPT ![r].pc = "load", ![r].id = i,
                                    ![r].copy = [account[i] EXCEPT !.password = r]]
            /\ Touches(i)
    /\ UNCHANGED <<account, tokens, access, mailed, edits, used, doubled, moved, cleared>>

\* Mutant: the link stays valid.
ForgetLinkKeeps(r) ==
    /\ At(r, "change", "forget")
    /\ mailed' = mailed \union {r}
    /\ End(r)
    /\ UNCHANGED <<account, tokens, access, edits, ghosts>>

ForgetLink(r) ==
    /\ At(r, "change", "forget")
    /\ passwordResetTokens' = [passwordResetTokens EXCEPT ![call[r].token] = Null]
    /\ mailed' = mailed \union {r}
    /\ End(r)
    /\ UNCHANGED <<account, refreshTokens, access, edits, ghosts>>

-----------------------------------------------------------------------------
(* Profiles and team members: both load by id and save all they loaded.    *)

\* Mutant: any column of the form is taken over, the roles too.
UpdateProfileAnyColumn(r, i, capacity) ==
    /\ Exists(i)
    /\ Begin(r, "profile",
             [New("profile", "load") EXCEPT !.id = i,
                !.copy = [account[i] EXCEPT !.capacity = capacity, !.roles = Roles]])
    /\ Touches(i)
    /\ Clears(i, capacity)
    /\ UNCHANGED <<account, tokens, access, mailed, edits, used, doubled, moved>>

UpdateProfile(r, i, capacity) ==
    /\ IF Exists(i)
       THEN /\ Begin(r, "profile",
                     [New("profile", "load") EXCEPT
                        !.id = i, !.copy = [account[i] EXCEPT !.capacity = capacity]])
            /\ Touches(i)
            /\ Clears(i, capacity)
       ELSE Begin(r, "profile", New("profile", "done")) /\ UNCHANGED <<raced, cleared>>
    /\ UNCHANGED <<account, tokens, access, mailed, edits, used, doubled, moved>>

\* The lead's team is read first.
UpdateTeamMember(r, lead, i) ==
    /\ Begin(r, "team-member",
             IF Exists(lead)
             THEN [New("team-member", "member") EXCEPT !.id = i, !.lead = lead,
                                                       !.team = account[lead].team]
             ELSE New("team-member", "done"))
    /\ UNCHANGED <<account, tokens, access, mailed, edits, ghosts>>

\* Mutant: the teams are not compared.
ReadTeamMemberAny(r, status, capacity) ==
    /\ At(r, "team-member", "member")
    /\ LET i == call[r].id IN
         IF Exists(i)
         THEN /\ call' = [call EXCEPT
                           ![r].pc = "load",
                           ![r].copy = [account[i] EXCEPT !.status = status,
                                                          !.capacity = capacity]]
              /\ Touches(i)
              /\ Clears(i, capacity)
         ELSE End(r) /\ UNCHANGED <<raced, cleared>>
    /\ UNCHANGED <<account, tokens, access, mailed, edits, used, doubled, moved>>

\* A member who is gone, or of another team, ends the request.
ReadTeamMember(r, status, capacity) ==
    /\ At(r, "team-member", "member")
    /\ LET i == call[r].id IN
         IF Exists(i) /\ account[i].team = call[r].team
         THEN /\ call' = [call EXCEPT
                           ![r].pc = "load",
                           ![r].copy = [account[i] EXCEPT !.status = status,
                                                          !.capacity = capacity]]
              /\ Touches(i)
              /\ Clears(i, capacity)
         ELSE End(r) /\ UNCHANGED <<raced, cleared>>
    /\ UNCHANGED <<account, tokens, access, mailed, edits, used, doubled, moved>>

-----------------------------------------------------------------------------
(* userService.save, for the three kinds of request that save.             *)

Loaded(kind) == IF kind = "change" THEN ByEmailColumns ELSE ByIdColumns

Diff(entity, row, kind) == {c \in Loaded(kind) : entity[c] # row[c]}

\* A row that is gone would be inserted, without the columns that were not loaded,
\* which the table does not take: the request fails.
SaveUser(r) ==
    /\ call[r].pc = "load"
    /\ LET row == account[call[r].id]
           diff == Diff(call[r].copy, row, call[r].kind)
       IN IF row = NoAccount \/ diff = {} THEN End(r)
          ELSE call' = [call EXCEPT ![r].pc = "write", ![r].cols = diff]
    /\ UNCHANGED <<account, tokens, access, mailed, edits, ghosts>>

Written(row, entity, cols) ==
    [email    |-> row.email,
     password |-> IF "password" \in cols THEN entity.password ELSE row.password,
     roles    |-> IF "roles" \in cols THEN entity.roles ELSE row.roles,
     paid     |-> IF "paid" \in cols THEN entity.paid ELSE row.paid,
     status   |-> IF "status" \in cols THEN entity.status ELSE row.status,
     capacity |-> IF "capacity" \in cols THEN entity.capacity ELSE row.capacity,
     team     |-> IF "team" \in cols THEN entity.team ELSE row.team]

UpdateUser(r) ==
    /\ call[r].pc = "write"
    /\ LET i == call[r].id IN
         account' = IF Exists(i)
                    THEN [account EXCEPT ![i] = Written(@, call[r].copy, call[r].cols)]
                    ELSE account
    /\ Moves(call[r].id)
    /\ cleared' = IF account'[call[r].id].capacity = Null \/ HeldBesides(r, call[r].id)
                  THEN cleared ELSE cleared \ {call[r].id}
    /\ IF call[r].kind = "change"
       THEN /\ call' = [call EXCEPT ![r] = [Ended(r, "forget") EXCEPT !.id = call[r].id]]
            /\ used' = used \union {<<call[r].token, r>>}
       ELSE End(r) /\ UNCHANGED used
    /\ UNCHANGED <<tokens, access, mailed, edits, doubled, raced>>

-----------------------------------------------------------------------------
(* Signing up.                                                             *)

\* sendEmailConfirmation: a link to the form, for an address nobody has yet.
SendEmailConfirmation(r, e) ==
    /\ Begin(r, "confirm", New("confirm", "done"))
    /\ mailed' = IF WithEmail(e) = {} THEN mailed \union {r} ELSE mailed
    /\ UNCHANGED <<account, tokens, access, edits, ghosts>>

\* Mutant: the column has no default.
ChosenUndefined(capacity) == IF capacity = "high" THEN Null ELSE capacity

\* getCarryingCapacity leaves "high" undefined, and the column then has its default.
Chosen(capacity) == IF capacity = "low" THEN "low" ELSE "medium"

NewAccount(r, e, capacity, team) ==
    [email |-> e, password |-> r, roles |-> {"member"}, paid |-> FALSE, status |-> "new",
     capacity |-> capacity, team |-> team]

\* The insert is refused for an address that is taken; the error is the answer.
Insert(r, e, capacity, team) ==
    account' = IF WithEmail(e) # {} THEN account
               ELSE [account EXCEPT ![r] = NewAccount(r, e, capacity, team)]

ProcessForm(r, e, capacity) ==
    /\ Begin(r, "form", New("form", "done"))
    /\ Insert(r, e, Chosen(capacity), Null)
    /\ UNCHANGED <<tokens, access, mailed, edits, ghosts>>

-----------------------------------------------------------------------------
(* Administrators (by the CRUD routes) and payments; the process.          *)

\* A column that a request may be holding is edited, or the account deleted.
EditUser(i, a) ==
    /\ edits < MaxEdits
    /\ Exists(i)
    /\ a # account[i]
    /\ account' = [account EXCEPT ![i] = a]
    /\ edits' = edits + 1
    /\ Touches(i)
    /\ Moves(i)
    /\ IF a.capacity = Null \/ Held(i) THEN Clears(i, a.capacity) ELSE cleared' = cleared \ {i}
    /\ UNCHANGED <<tokens, access, call, mailed, used, doubled>>

AdminEdits(i) ==
    {[account[i] EXCEPT !.roles = x] : x \in {{"member"}, Roles}}
        \union {[account[i] EXCEPT !.status = x] : x \in Statuses}
        \union {[account[i] EXCEPT !.capacity = x] : x \in Given}
        \union {[account[i] EXCEPT !.team = t] : t \in Teams \union {Null}}
        \union {[account[i] EXCEPT !.paid = TRUE], NoAccount}

\* Its roles and status are those of a member who signs up (bound).
CreateUser(r, e, capacity, team) ==
    /\ edits < MaxEdits
    /\ Begin(r, "create", New("create", "done"))
    /\ Insert(r, e, capacity, team)
    /\ edits' = edits + 1
    /\ cleared' = IF WithEmail(e) = {} /\ capacity = Null THEN cleared \union {r} ELSE cleared
    /\ UNCHANGED <<tokens, access, mailed, used, doubled, raced, moved>>

\* The process dies and is started again: tokens and requests are gone.
Crash ==
    /\ CrashAllowed
    /\ \/ \E r \in Requests : Active(r) \/ refreshTokens[r] # Null
       \/ \E r \in Requests : passwordResetTokens[r] # Null
    /\ refreshTokens' = [r \in Requests |-> Null]
    /\ passwordResetTokens' = [r \in Requests |-> Null]
    /\ call' = [r \in Requests |-> IF Active(r) THEN Ended(r, "lost") ELSE call[r]]
    /\ UNCHANGED <<account, access, mailed, edits, ghosts>>

-----------------------------------------------------------------------------
\* The routes.
AuthController ==
    \/ \E r \in Requests, e \in Addresses : Login(r, e) \/ SendPasswordResetLink(r, e)
    \/ \E r, t \in Requests : Logout(r, t) \/ Refresh(r, t) \/ ChangePassword(r, t)

NewUserController ==
    \E r \in Requests, e \in Addresses :
        \/ SendEmailConfirmation(r, e)
        \/ \E c \in Capacities : ProcessForm(r, e, c)

\* A profile may leave the capacity as it is.
UserController ==
    \/ \E r \in Requests, i \in Ids : \E c \in Given \union {account[i].capacity} :
         LoggedIn(i) /\ UpdateProfile(r, i, c)
    \/ \E r \in Requests, lead \in Members, i \in Ids :
         RoleGuard(lead, {"market-lead"}) /\ UpdateTeamMember(r, lead, i)

UserAdminController ==
    \/ \E i \in Ids : \E a \in AdminEdits(i) : EditUser(i, a)
    \/ \E r \in Requests, e \in Addresses, c \in Given, t \in Teams \union {Null} :
         CreateUser(r, e, c, t)

\* What goes on in a request once it has begun.
RequestStep(r) ==
    \/ LoginCompared(r) \/ RefreshRead(r) \/ ChangeRead(r) \/ ForgetLink(r)
    \/ SaveUser(r) \/ UpdateUser(r)
    \/ \E s \in Statuses, c \in Given : ReadTeamMember(r, s, c)

Next ==
    \/ AuthController \/ NewUserController \/ UserController \/ UserAdminController
    \/ \E r \in Requests : RequestStep(r)
    \/ Crash

Spec == Init /\ [][Next]_vars

-----------------------------------------------------------------------------
(* Properties.                                                             *)

\* Types of the table, of the tokens, of the requests and of the history.
TypeOK ==
    /\ account \in [Ids -> Account \union {NoAccount}]
    /\ refreshTokens \in [Requests -> Addresses \union {Null}]
    /\ passwordResetTokens \in [Requests -> Addresses \union {Null}]
    /\ access \subseteq Claims
    /\ call \in [Requests -> Call]
    /\ mailed \subseteq Requests
    /\ edits \in 0 .. MaxEdits
    /\ used \subseteq Requests \X Requests
    /\ doubled \subseteq Requests
    /\ raced \subseteq Ids
    /\ moved \subseteq Requests
    /\ cleared \subseteq Ids

\* The columns a request is about.
Own(kind) == IF kind = "change" THEN {"password"}
             ELSE IF kind = "profile" THEN {"capacity"} ELSE {"status", "capacity"}

SavedBy(r, i) == call[r].pc = "write" /\ call[r].id = i /\ call'[r].pc # "write"

\* A request changes only the columns it is about, although it saves everything it
\* read: a password change or a profile never takes back a role, a fee or a team,
\* unless the account was touched while the request held it.
OwnColumnsOnly ==
    [][\A r \in Requests, i \in Ids \ raced' :
          SavedBy(r, i) =>
             \A c \in Columns \ Own(call[r].kind) : account'[i][c] = account[i][c]]_vars

\* A mailed link changes one password, once, also when the process dies between the
\* save and the moment the link is forgotten.  Only two requests that hold the link
\* at the same time can both use it.
LinkUsedOnce ==
    \A l, q, r \in Requests :
        <<l, q>> \in used /\ <<l, r>> \in used /\ q # r => l \in doubled

\* A market lead changes members of the team the lead is in at that moment, unless
\* one of the two was moved while the request ran.
LeadsOwnTeam ==
    [][\A r \in Requests :
          At(r, "team-member", "write") /\ SavedBy(r, call[r].id) /\ Exists(call[r].id)
             => \/ r \in moved
                \/ account[call[r].id].team = account[call[r].lead].team]_vars

Users(t) == {i \in Ids : Exists(i) /\ account[i].team = t}
CapacityOf == [i \in Ids |-> account[i].capacity]

\* A team with members has a mean carrying capacity, whatever the forms said, unless one
\* of its members was given none, by a profile, a market lead or an administrator.  No other
\* save takes a capacity away; and giving that member one again mends the team for good,
\* unless a request that had read the account before was still to save it.
CapacityKnown ==
    \A t \in Teams :
        Users(t) # {} /\ MeanCarryingCapacity(Users(t), CapacityOf, Null) = Null =>
            Users(t) \intersect cleared # {}
=============================================================================

# Verification of the ZuiderMAKKIE backend

TLA+ models, model-checking runs and machine-checked proofs for the NestJS
backend of the Zuidermarkt (`src/`). The backend is an HTTP API on one MySQL
database, with a mail queue in Redis, payments at Mollie and a handful of cron
jobs. Members are invited to market days, answer, and build up a reliability
score; teams register wishes for market days and a planner's schedule is
proposed from them; an entry fee is paid on line.

Paths below are relative to `src/src/`.

1. [The system](#1-the-system)
2. [How the code is modelled](#2-how-the-code-is-modelled)
3. [The modules](#3-the-modules)
4. [The runs](#4-the-runs)
5. [The proofs](#5-the-proofs)
6. [What the models say about the code](#6-what-the-models-say-about-the-code)
7. [What is not modelled](#7-what-is-not-modelled)
8. [Plan](#8-plan)

## 1. The system

There is one Node process, restarted by systemd (`Restart=always`, `src/README.md`).
A handler runs until its next `await` (or the next operator of an rxjs chain that
waits for one) without being interrupted; between two database calls any other
handler may run. No handler uses a transaction or a lock, and no table but `user`
(`email`) and `team` (`name`) has a unique key besides its id.

| Component | State | Operations | Talks to | What is hard | What makes it correct |
|---|---|---|---|---|---|
| **RSVP answers, score** `rsvp/` | tables `rsvp`, `user` (`rsvpScore`, `absent`, `absentSince`) | answer, absence batch, unknown rows, CRUD create, update and delete | Market days, Profiles, weekly jobs | score and row are saved by two chains that nothing joins; read-modify-write over several calls; no unique key | the score is what the answers add up to; absence follows the score; one row per member and day; an answer does not undo an attendance mark |
| **Entry fee** `mollie/` | `user` (`paymentId`, `hasPaidEntryFee`), payments at Mollie | start, retry, webhook | Mollie, Mail queue, Profiles | webhooks late, repeated, in any order; answered before they are processed; stale whole-account saves | paid only if paid; a payment that is paid gets recorded; a retry opens no second payment |
| **Schedule proposal** `scheduler/proposal/` | none; works on loaded objects | propose a schedule for a year | Schedule editing, Wishes, Teams | three passes over shared, mutable objects; a random shuffle; a rounded quota | at most one event a day per team; full before over-full; no slot left that somebody could take |
| **Reminders, weekly rsvps** `notification/`, part of `rsvp/` | none of its own; reads `event`, `rsvp`; sends mail | five cron jobs | Market days, RSVP, Mail queue | windows in days against a weekly clock; a process that is down; jobs that die with the process | one reminder, to those who did not answer, for every event |
| **Market-day wishes** `event-registration/` | table `event_registration` | submit a list, read, CRUD | Teams, Market days | remove, then insert, in separate calls; two reads of the lead's team | after a submission the team has exactly its list |
| **Schedule editing** `scheduler/scheduler.service.ts` | table `event` | generate the slots of a year, save a schedule | Proposal, Market days | find-then-insert; one independent save per event, of objects the client was given earlier | each slot once; a saved schedule overwrites nothing newer |
| **Market days** `event/` | table `event` | read, CRUD | all of the above | counts computed while loading | counts agree with the rows |
| **Authentication** `auth/` | refresh and reset tokens in memory, `user.password` | log in, refresh, log out, send a link, change the password | Profiles, Mail queue | tokens die with the process; a link is forgotten after the save, in another step; a save of columns read before hashing | a link works once; a password change changes nothing else |
| **New members** `new-user/` | table `user` | confirmation mail, form | Mail queue | address looked up a day before it is used | one account per address |
| **Profiles** `user/` | table `user` | update own profile, update a team member | everything that saves accounts | whole-account saves after a read | a save changes what it is about |
| **Mail queue** `mail/` | a Bull queue in Redis | add, process | SMTP server | two attempts, a timeout that does not stop the sending, one mail per two seconds | every mail once, or a failure in the log |
| **Messages** `message/` | tables `event_message`, `staff_message` | send to a group | Mail queue, RSVP | save, then read, then queue one by one | each of the group gets the message once |
| **Attendance lists** `attendance/` | none | two filtered lists | Market days | | the lists show past yes-answers |
| **Teams, health** `team/` | table `team` | CRUD; scores computed while loading | Profiles | divisions, boundaries, members without data | the scores its test file states; a mean whenever its members have capacities |
| **Guards, interceptors, audit log** | `audit_log_line` | role check; timeout, logging | every handler | the timeout answers the client and leaves the handler running | |
| **Feedback, to-do, weather, application, configuration, schema** | their tables | CRUD, a proxy, wiring | | | |

The components meet in three places. *Accounts*: score, fee, profile, team and
password are columns of one row that each component loads and saves whole.
*Market days*: the scheduler makes them, wishes and answers point at them, the cron
jobs look for them by their start. *Mail*: nearly every component queues mails and
goes on.

PROJECT.json lists every hazard with its line and the properties that cover it.

## 2. How the code is modelled

**Calls, not handlers, are atomic.** Each database or Mollie call is an action of its
own; what a handler computes between two calls belongs to the action of the call
before. A handler in progress is a record with a `pc` and its local variables.

**Saving is two calls.** `repository.save(entity)` of TypeORM 0.2 selects the row,
compares it with the columns the entity has, and updates those that differ. `Diff`
and `Written` (in `RsvpScore`, `EntryFee`, `Accounts` and `Schedule`) are these two halves, and
another handler may run between them. A row that is gone is inserted. TypeORM is not in
`src/`; its definitions are marked external. So are Mollie, Bull, the mail server and the
routes that `@nestjsx/crud` generates.

**Null, errors, crashes.** A rejected promise that nobody awaits ends the process
(Node 15 and later), which is `Crash` or `Die`; whoever is in progress is lost, the tables
and the queue stay, what the process kept in memory is gone, systemd restarts. An error
inside a handler that is awaited ends that handler.

**Bounds.** Requests, payments, mails and so on are drawn from finite sets that are
CONSTANTS, each used once: the sets bound the history. `MaxInFlight` bounds how many
requests overlap, `MaxEdits` the edits by administrators and coordinators, `MaxFaults` the errors,
timeouts and restarts of the queue. When the requests are used up the system stops, as it
may: hence `CHECK_DEADLOCK FALSE` in every cfg. The proofs hold for every value of these
constants.

**Names.** A row, a token, a password or a mail is named after the request that makes it, so
that two of them can be told apart without a counter.

**History variables** (`credit`, `raced`, `crossed`, `clash`, `unsteady`, `moved`, `used`,
`doubled`, `late`, `lately`, `overtaken`, `disturbed`, `cleared`, `stirred`, `failed`, `twice`,
`lost`) record what overlapped, what others changed meanwhile, and what went wrong. Most properties of this code hold only of what did not
overlap; the variables let a run with all overlaps state exactly that, instead
of a run without overlaps state it of everything. No guard reads them.

**Type invariants.** Each module has one, `TypeOK` (`QueueTypeOK`). They are theorems,
in states of every size, and no run spends time on them.

**Mutants.** For each property PROJECT.json names a definition and a changed version
of it, kept beside it in the module under the comment *Mutant*: a plausible slip
(a dropped guard, a missing reset, an off-by-one). With the changed version TLC finds
the property violated under the run's own cfg. No action uses them.

## 3. The modules

### RsvpScore (with ScoreLedger, MCRsvpScore, RsvpScoreProofs)

`POST /rsvp/me` (`submitRsvp`), `POST /rsvp/updateAbsent` (`updateAbsentStatusBatch`),
the insert half of the weekly job (`findRsvp`, `makeUnknownRsvp`) and the
coordinators' CRUD routes on rows.

| TLA+ | Code |
|---|---|
| `SubmitRsvp`, `EventStarts` | the call, refused for an event that has started (rsvp.service.ts:38-60) |
| `FindRsvp`, `Answer` | look-up of the row, then the fork: `updateRsvpScore` is started and the row is saved, unjoined (61-72) |
| `ReadUser`, `SaveUser`, `UpdateUser` | the score chain: read, compute (`Apply`, `NewScore`, `checkScore`), select, update (96-133) |
| `SaveRsvp`, `UpdateRsvp`, `InsertRsvp` | the row chain |
| `UpdateAbsentStatusBatch` | one score chain of kind `forgive` per member named (140-154) |
| `SeedFindRsvp`, `MakeUnknownRsvp` | look-up, then insert, of an unknown row (161-197) |
| `MarkAttended`, `EditResponse`, `CreateRsvp`, `DeleteRsvp` | CRUD routes |

Rows are named after the request that inserts them, so that two rows of one pair can
be told apart. `absentSince` is the name of the job that stamped it.

`ScoreLedger` is the abstract specification: entries are filed and then settled at
most once, each in one step. The mapping at the end of `RsvpScore` reads an
account's columns as the ledger's score and absence, a chain in progress as a filed entry and
a finished chain as a settled one. Two chains that hold one account can lose an answer
(`rsvp.service.ts:96-133`): the ledger then gives that member up (`spoiled`) and goes on for the
others. Crashes need no excuse.

`disturbed` names the answers whose row somebody else deleted, inserted or gave another
response between the select and the write of their save, which writes only what differs from what was
selected. `AnswerIsStored` holds of all others on a pair whose look-ups did not cross.

### EntryFee (with FeeBook, EntryFeeProofs)

`startPayment`, `retryPayment` with `restartPayment`, and `processWebhook` of
`mollie/mollie.service.ts`, one action per call. Mollie is external: `CustomerActs`
moves a payment to pending, paid, failed, canceled or expired and makes its webhook
due; `AcceptWebhook` delivers it, `MayRepeat` lets it be delivered again. `OtherSave`
and `OtherRead` are any handler of another component that reads an account and
saves it whole (profile, team member, score, password).

`FeeBook` is the abstract specification: a book of payments, with the one on file and the
paid flag of every member. A payment is put on file at most once, by whoever created it;
the flag changes only by the report of a payment of the member that has come to its end. The
mapping at the end of `EntryFee` reads Mollie's record as the book's payments and the two
columns of the account as its entries; a payment is *carried* (`Carries`) from the call that
creates it until its request has saved the account. A member whose account two requests
held at once is given up (`spoiled`), as in `ScoreLedger`; crashes, late and repeated
webhooks and the whole-account saves of other handlers need no excuse.

### Proposal (with MCProposal, ProposalProofs)

`generateScheduleProposals` on the objects that `scheduler.service.ts` loads. The
event of a wish comes from another query than the slots, so it is an object of its
own: `Copy(t, e)` against `Plain(e)`. `Shuffle` picks any order of the slots;
`GrantWish` and `PassTurn` are the rounds, `FillSlot` and `LeaveSlot` the pass up to
the quota, `BalanceSlot` and `GiveUpSlot` the pass for whoever has least. Each of the last two passes
runs over the slots that had no team when it began (`todo`, the filters at lines 45 and 59).
The quota is `Math.round`, halves up; without teams it is Infinity and the rounds have no
end (`FirstPass`, `"endless"`). The stored schedule may hold anything but one
event in two teams.

### MarketReminders (with MCMarketReminders, MarketRemindersProofs)

The Saturday job and the three Sunday jobs against a clock of three ticks a day: midnight,
11:30, afternoon. One action per call; the calls that jobs are about to make are the set
`calls`, and jobs of one tick interleave with each other and with everything else.

| TLA+ | Code |
|---|---|
| `AddWeeklyRsvps` | reads the members, then starts two chains (rsvp.service.ts:267-277) |
| `AddNextTwoWeeks` | the query of the first, whose window is empty (228-239) |
| `GetTodayTeams`, `UpdateNextTeamEvent` | the queries of the second, the latter once for every event found (241-265) |
| `AddRsvps`, `FindRsvp`, `MakeUnknownRsvp` | per member of the team, as it was read at the beginning: look-up, then insert (161-226) |
| `SendRsvpReminders`, `NotResponded`, `Remind` | the query, who is found silent, one mail (notification.service.ts:90-109, event.entity.ts:96-104) |
| `PreEventReminders`, `LeadsToWarn`, `Warn` | the same for the leads of a team that is too small (131-159) |
| `PostEventReminders` | reads `event.team` that is not loaded and ends the process (54-88) |
| `Answer`, `Responds` | a member's answer, for an event to come (rsvp.service.ts:38-74) |
| `Schedule`, `Move`, `EditMember`, `CreateRsvp`, `DeleteRsvp` | CRUD routes: on or off the schedule, another date, a member's team, duty and role, rows |
| `Fail`, `Die`, `Restart`, `Tick` | the process, and the clock, which goes on when the jobs of the tick are over |

A row is counted under its response, so that a pair may have several. `lately` holds members who
were edited, or whose row was deleted, when the Sunday of an event had come: nobody asks again.
`overtaken` holds pairs that changed between a job's query and its mail.

### Registrations (with MCRegistrations, RegistrationsProofs)

`submitRegistrations` call by call: team of the lead (`Submit`), existing wishes
(`GetMyRegistrations`), `Remove`, the team again (`GetTeamIdAgain`), one insert per
wish in any order (`SubmitRegistration`), with other submissions, leads who change
teams (`MoveLead`), market days deleted with their wishes (`DeleteEvent`) and crashes
in between. The dto lists events of its own year, each once: the client
does so, the server does not check it.

### Accounts (with TeamHealth, MCAccounts, AccountsProofs)

Sessions, passwords, profiles and new members all work on rows of `user`, and what one
of them reads another may save. They are one module.

| TLA+ | Code |
|---|---|
| `Login`, `LoginCompared` | `validateUser`, then the comparison of the password and `login` (auth.service.ts:36-77) |
| `Logout`, `Refresh`, `RefreshRead` | the refresh tokens in the process (91-114) |
| `SendPasswordResetLink` | a token for an address, in the process and in a mail (117-144) |
| `ChangePassword`, `ChangeRead`, `ForgetLink` | check the link, read and hash, save, forget the link (146-173) |
| `UpdateProfile` | read by id, then save with the member's columns (user.service.ts:62-71) |
| `UpdateTeamMember`, `ReadTeamMember` | read the lead, then the member; refused unless both are in one team (73-95) |
| `SaveUser`, `UpdateUser` | `userService.save` (97-105): select, then update |
| `SendEmailConfirmation`, `ProcessForm`, `Chosen` | new-user.service.ts:39-60, 86-167 |
| `LoggedIn`, `RoleGuard` | a signed token with its claims, which may be older than the account (jwt.strategy.ts, role.guard.ts) |
| `EditUser`, `AdminEdits`, `CreateUser` | CRUD routes of administrators (role, status, capacity, team, deletion; a new account), a payment that is recorded |
| `Crash` | refresh and reset tokens and requests are gone, access tokens are not |

Which columns a save can write is decided by what its look-up loaded: `findByEmail` loads
five (`ByEmailColumns`), `findOne` all but the password (`ByIdColumns`). Members
who are in the table at the start are active, in a team and have a capacity. `cleared` names the
accounts that were given no capacity, by whomever, and none since.

`TeamHealth` holds what a team computes when it is loaded (`team/team.entity.ts`), as
operators on sets of members: the counts, the mean age, the ratio and the four
scores, as fractions. `Accounts` applies the mean capacity to its rows (`CapacityKnown`).

### MailQueue, Messages (with MCMessages, MessagesProofs)

`MailQueue` is the queue alone: jobs wait, are taken one at a time, run at most
`Attempts` times with a timeout and a backoff (mail.service.ts:19-30, mail.processor.ts:28-37). The
timeout ends the run and not its `sendMail`: that is `loose`, and may still
get through. A job in hand when the process dies has stalled and is taken up again
`MaxStalls` times. `Messages` extends it with the two services that fill it:

| TLA+ | Code |
|---|---|
| `AddMessage`, `SaveMessage` | the save of the message (event-message.service.ts:29-43) |
| `JoinRelatedUsers`, `GetRecipients` | the second read, with team, answers and sender, and who of them the group is (45-75, 125-168) |
| `CreateMailQueue`, `LogQueueError` | one job per recipient, or the error of one of them (77-123) |
| `AddStaffMessage`, `SaveStaffMessage` | recipients by role, sender and save (staff-message.service.ts:26-62) |
| `MoveMember`, `DeleteUser`, `HandOver`, `DeleteEvent`, `DeleteMessage`, `Answer` | what others do between these calls |

Recipients are counted, not collected: the table `rsvp` has no unique key and a member may be among
the answers twice. `MailQueue` is at the same time the abstract specification of what
`Messages` may do to the queue, which `MessagesImplementQueue` proves.

### Schedule (with MCSchedule, ScheduleProofs)

`scheduler.service.ts` around the proposal. `GenerateSaturdaySlots` looks up what is
missing and `SaveSlots` inserts it (46-94). `GetProposal` reads the empty slots and `GetTeams`
the teams with their events (26-39, 96-121); the planner then looks at the result in the browser, for
as long as it takes, and sends it back: `SaveSchedule` starts one save per event (41-44),
`LoadEvent`, `UpdateEvent`, `InsertEvent`, in any order and independent of each other. The
first save that fails answers the request with an error (`forkJoin`), and the others go on (`Finish`):
a proposal is `saving` until its last save is over, and `answer` is what the planner was told.
What a proposal *is* is taken from what `Proposal` shows of it (`Proposals`: no team
twice a day; a slot may be left). Planners edit market days and add some by the CRUD
routes meanwhile (`EditEvent`, `CreateEvent`, also at a start that is taken), teams are deleted (`DeleteTeam`), the process dies (`Crash`).

## 4. The runs

| Run | Question | What it shows |
|---|---|---|
| `rsvp_race` | two answers and an absence batch overlap on one of two accounts, the process may die | `ScoreBounded`: no interleaving invents an answer; `AbsenceJustified`, `AbsentSinceStable`, `AtomicUnlessRaced`: on accounts never held twice, absence follows score and the two-call save is atomic; `ImplementsLedger`: such accounts follow the abstract ledger |
| `rsvp_rows` | answers, the weekly job and coordinators on the table `rsvp`, the process may die | `OneRsvpPerPair`: a second row takes two overlapping look-ups, or a coordinator who creates one unasked; `AttendanceKept`: an answer undoes a mark only if the mark was made while it held the row; `AnswerIsStored`: an answer that ends is what every row of its pair says, crashes of other answers and all edits included |
| `fee_race` | start, retry, webhook and other saves overlap, webhooks repeat, the process may die | `PaidIsPaid`, `ConfirmationIsTrue` in every interleaving; `OneOpenPayment`: what it takes for two payments to be open; `PaidIsUnderway`: a paid payment is on the account, due to be reported or in a request's hands; `PaidIsRecorded`: it reaches the account; `ImplementsBook`: accounts held by one request at a time follow the abstract book |
| `fee_status` | a failed first and a paid second payment | violated: see section 6 |
| `proposal_service` | all shuffles of four slots on two days, all wishes of two teams, one stored event | `OnceADay`, `OverQuotaForced`: who can get what; `LeftIsBlocked`, `LeftForWishes`: which slots stay without a team, and that granted wishes are what costs them |
| `proposal_left` | two teams and the two slots of a day | violated: see section 6 |
| `reminders` | two Saturdays and two Sundays, market days of that week and five weeks ahead, an edit, failures | `NoSecondMail`: nobody is mailed twice; `AfternoonReminded`: who is reminded; `ReminderIsCurrent`: a reminder is only ever wrong about what changed after its query |
| `reminders_midnight` | a slot as the scheduler makes them | violated: see section 6 |
| `registrations` | three submissions of two leads, two at once, moves, a deletion, crashes | `SubmissionIsExact`, `RanksDistinct`, `OnlyOwnReplaced` |
| `accounts` | any three of the ten requests, an administrator's creation of an account among them, an administrator's edit, restarts | `OwnColumnsOnly`: what a save of a whole entity takes back; `LinkUsedOnce`: how often a mailed link works; `LeadsOwnTeam`: whose members a lead changes; `CapacityKnown`: a team's mean is missing only while one of its members is left without a capacity |
| `messages` | a message to two members, of either kind, an edit on the way, three faults | `MailedOnce`, `CopiesBounded`: how often a mail goes out; `MailIsUnderway`: where a mail of a stored message can be; `MessageArrives`: that it goes out |
| `schedule` | a slot generated by two calls and proposed to two planners, an event added or edited by hand or a deleted team, crashes | `SlotOnce`, `OnceADayKept`, `SaveOnlyAssigns`, `FailureIsLocal` |

`MCAccounts` also checks `TeamHealth` against the statements of `team/team.entity.spec.ts`, as
ASSUMEs: scores for teams of up to forty, ratios of up to twelve and twelve, means, a team of eight.

**Why the bounds are enough.** A lost update takes two requests on one row; three
(`rsvp_race`, `fee_race`, `accounts`) let the third act on what the first two left. Two wishes
in a list are needed for a list stored in part, two teams for a lead who changes,
two years for a wish that must survive, three submissions for one that repairs what two
clashing ones left. Two teams and four slots give a quota of two, a
day both teams can have, and a last pass; the third wish of a team behaves
as the second. Accounts start at score 2, below the absence threshold and a yes away
from it, or new at zero, below which a no must not take them. The ten days of `reminders` have the
Saturday and the Sunday on which a market day of that week is past, and the Sunday in whose window a
market day five weeks ahead is; the windows of other Sundays repeat these at an offset of
a week, which the proofs do for every horizon. One edit is what it takes to overtake a mail or to come
too late for it. `reminders_midnight` goes on until the window of the third Sunday has missed the slot.
A reset link that is used twice takes the request for the link and two changes: three
requests. A member and a lead, two teams and one edit are what a move between the check and the save
takes. A mail is repeated by a failure, a timeout or a stall; three faults use up two
attempts and one stall, so that the bound of three mails is reached. Two calls and an event
added by hand are three ways to one slot, and two events on one day, which is what two teams and two planners
who cross need. `fee_race` has one account: its properties relate one account to Mollie's record, and the one
that takes two members, `OnFileIsOwn`, is proved instead. Requests and such are interchangeable where a cfg declares SYMMETRY; no
run with a liveness property does.

**Fairness.** A call that was made returns, because the database answers and Node runs every
callback: weak fairness of the steps of a request that has begun (`EntryFee!Fairness`, `Messages!FairSpec`). Mollie repeats a webhook until it is answered. The
queue goes on with the jobs it has, through failures and restarts, of which a run has
finitely many (`MaxFaults`): weak fairness of what moves a job. No member, coordinator or
customer is made to do anything. `fee_race` and
`messages` include crashes, and their liveness properties name what a crash may cost: a webhook
that was answered before it was processed, a mail not yet queued.

## 5. The proofs

All in TLAPS, for every value of the constants under the ASSUMEs of the modules (names of
null values are not ordinary values; sets are finite where a count is taken; `Orders` holds
permutations of the slots). Every invariant and every action property that a passing run
checks, and both refinements, is a theorem. A type is seldom inductive alone: each `TypeInv`
adds that a request in progress has what its next step needs.

**RsvpScoreProofs.** *Score* (`ScoreIsBounded`): every copy of an account that a job holds
is itself between zero and the credit of its member, credit being raised when the copy is,
so a copy written late is still bounded. *Absence* (`AbsenceIsJustified`, `SavesAreAtomic`,
`AbsentSinceIsStable`): on an account that was never held by two jobs a held copy *is* the
row, so the columns that differ are the ones the rule changes, and the write is the rule.
*Rows* (`OneRowPerPair`, `MarksAreKept`): on a pair whose look-ups and creations never crossed, at most
one name can be its row (`Claim`: the row itself, the one an answer holds, or the one a
request is about to insert); the table and whoever holds a row agree about it (`View`); and
the name of a request that has not started is in nobody's hands (`Unborn`). *Ledger*
(`ScoreImplementsLedger`): a step simulation. The step that ends a score chain settles its
entry, by the atomicity above; the step that makes a second holder gives the member up; the
step that starts a chain files an entry, or several for a batch; everything else stutters.
It needs `IdleInv`: an answer that has not looked up its row has not started its score
chain. *Stored* (`AnswersAreStored`): the columns an undisturbed save is about to write are those in
which its row still differs from the answer (`UpToDate`), so that the write leaves the
answer in the row; every other step that touches a row somebody is saving is noted
(`NothingUnnoticed`), and on a pair whose look-ups did not cross that row is the only one (`OneRowPerPair`).

**EntryFeeProofs.** An account, stored or held in a copy, is *backed* when a paid payment of
its member stands behind the flag and its payment on file was made out to it. Mollie's
record only grows (`Grows`): a payment keeps its member, a paid one stays paid. So a backed
copy stays backed however long it is held, and a mixture of columns of two backed accounts
is backed (`PaidFlagIsSound`, `ConfirmationsAreTrue`, `PaymentOnFileIsOwn`). For `OneIsOpen`
and `PaidIsOnlyLostToUnpaid`: on an account that no two requests held at once the holder is
alone, and its copy follows the row but for what the request is about; a retry that has
asked Mollie knows that the payment on file is closed or absent; so the only open payment of
a member is the one on file or the one a retry is about to note. The payment a webhook is
about is closed, and stays so. *Nothing lost* (`NoPaymentIsLost`): `PaidIsUnderway` is preserved
on top of that invariant. A webhook that Mollie delivers becomes a request in the same step; the
request stays until its update is through, which raises the flag if nobody else held the
account and the payment is the member's only one. *The book* (`EntryFeeImplementsBook`): a step
simulation on top of the same invariant and of `CarryInv`, by which a payment on its way to an
account is in the hands of one request, and that request's copy names it. The steps that call Mollie to create
a payment create one in the book, the update of a start or a retry puts it on file
(`Note`), the update of a webhook is a `Report`, the read that makes a second holder gives the
member up, and a crash, or a request that cannot note its payment any more, drops what it carried. The saves
of other handlers stutter: on an account that one handler held alone they write back what is there.

**ProposalProofs.** Every step gives one team one object that conflicts with nothing, or
gives nothing (`GiveOrKeep`); that no team has two events a day and no object is in two teams (`Apart`) is
preserved by such a step. A team's list only grows, so a conflict stays, and behind the place
the last pass has reached every slot is settled (`LeftOverIsBlocked`). `LeftForWant` counts with
it: of a day with a slot left over every team holds an object, and no object is held twice,
so there are as many objects of that day in use as there are teams (`CountTheDay`); those that are no slots of the
proposal are the wishes and the stored events. With teams, every pass can go on until its end (`NeverStuck`):
there is a team whose turn it is, since ranks are a permutation of the teams (`TurnIsTaken`),
with a first wish if it may have one, or a slot with a
first team of those it is for, since a set of numbers has a least one (`SmallestNat`). The invariant
`PassInv` keeps the place in each pass within the order that was shuffled.

**MarketRemindersProofs.** `NobodyIsMailedTwice`: Sundays are twenty-one ticks apart and a
window is fifteen wide, so an event that is not moved is in one Sunday's window. The
invariant `SentOnce`: of an event and a member no mail was decided on, or one that is still to be sent,
or was sent or lost, on a Sunday whose window reached the event and whose job does not begin
again (`SundayGone`). `TheSilentAreReminded`: of an afternoon event that
Sunday is 82 ticks before its start, and the process was up then, else the event would count
as unsteady. Whoever is silent afterwards and did not come late was silent when the query ran
(`Waiting`: a row goes or a member comes only by an edit, which `lately` notes), so the mail was decided on,
and sent before the clock went on. `RemindersAreCurrent` (`Called`): a mail that is still to be
sent is about a silent member of a scheduled event, or about a pair that was overtaken; every step
that ends the one notes the other. `SlotsAreNeverAnnounced` shows that leaving out midnight is no accident of the
instance: a Saturday's midnight is 80 or 101 ticks after a Sunday's job, and the window reaches
from 81 to 96, so such an event is never announced unless it is moved.

**RegistrationsProofs.** The invariant `RegInv`: the lead of a submission nothing clashed
with is still in the team it read (`Steady`); no other submission works on that team and
year (`Alone`); what it found is what there is (`FoundOwn`); and while it inserts, the
wishes of the team are those it has inserted so far, less the deleted days (`Settled`). The
last insert then leaves the list.

**AccountsProofs.** `LinksWorkOnce` (`LinkInv`): a link that was used stays in the hands of
the request that used it until it is forgotten (`Spent`), also when the process dies in
between, and two requests that hold one link are noted (`Noted`). `SavesOwnColumns`
(`SaveInv`): an account that nobody touched is held by at most one request, and the copy is
the row but for the columns that request is about. `LeadsChangeOwnTeam` (`TeamInv`): between
the check and the save of a request that was not disturbed, lead and member are together.
`CapacityIsKnown` (`KnownInv`): a row without a capacity, and a copy without one that a request is
still to save, belong to an account in `cleared`; an account leaves that set only when a capacity is
written and no other request holds it. For a finite team of members with capacities the rounded
mean is 0, 1 or 2 (`SmallQuotient`). `CountScorePeaks` and `HealthOfAnyTeam` state of teams of any size what
`team.entity.spec.ts` tries on a few: the count score is highest at twelve and falls with the
distance from it; a diversity score is the smaller group as a part of the larger
(`IsRatio`); the mean capacity is the nearest of the three (`RoundIsNearest`).

**MessagesProofs.** `MessagesImplementQueue`: each step of `Messages` is one of `MailQueue`
or leaves the queue alone, so that what is proved of the queue (`MessagesAreBounded`: a mail
was taken by the server at most once for each failure, each stall and the run in hand, calls
still at large included; `MailIsRepeatedForLostAnswers`) holds of messages.
`OnlyStoredIsMailed` and `NobodyIsMailedTwice` (`Grounded`): a mail that is queued, or that
a request still has to queue, belongs to a stored message, and the copies of a recipient are
numbered: a second one is there only for an answer read twice. `NobodyIsForgotten`
(`UnderwayInv`, `EndInv`): when a message is stored its request has all mails of it to queue; each then
is in the queue or was refused by it, and one that left the queue went out or
used up its attempts or its stalls.

**ScheduleProofs.** The rows of a call that has not run are absent, and in nobody's
proposal. `SlotsAreThereOnce` (`SlotInv`): a slot that a call is about to insert is not
there, unless crossed; the rows of edits that have not been made are absent (`Unadded`). `NeverTwiceADayKept`, `SavesOnlyAssign`: an event that a proposal
holds is still as it was read, but for the team it may have been given, or its days were
stirred (`CleanOrDirty`); of a day that nobody stirred a proposal holds every free slot or
none (`AllOrNothing`); it gives slots to teams that have nothing else on that day
(`GivesNew`), and to each team one (`GivesOnce`). `FailuresAreLocal` (`LateInv`): an event
whose save is over is as saved, and one whose save failed has a team that is gone and was answered
by an error, unless others changed it; this is kept while the saves that are left go on after the answer.

**Proved and not run.** Three properties are theorems and in no cfg, because what is run says as much,
or they rest on one step, or take a larger instance: `PaidIsLostToUnpaid` (`PaidIsOnlyLostToUnpaid`, within `ImplementsBook`),
`OnFileIsOwn` (`PaymentOnFileIsOwn`, which takes two members) and `NoMailUnlessStored`
(`OnlyStoredIsMailed`). `SlotsUnseen` is the finding of section 6 as a theorem.

**Only model-checked.** The two liveness properties (`PaidIsRecorded`, `MessageArrives`):
ENABLED, which fairness needs, is out of the prover's reach.
What each of them rests on besides fairness is proved: nothing that has to arrive is ever
out of everybody's hands (`NoPaymentIsLost`, `NobodyIsForgotten`).
The examples of `TeamHealth` in `MCAccounts` (means, a team of eight) are evaluated.

## 6. What the models say about the code

Three statements of the repository are refuted by a run:

- `mollie.service.ts:144` sets the paid flag to whether *the reported* payment is
  paid. The webhook of a second payment that fails or expires takes the flag from
  a member who has paid; "whether the user paid the entry fee or not"
  (mollie.service.ts:194) is then wrong for good (`fee_status`).
- `proposal.service.ts:39` assigns the wish's own event object. The proposal that is
  returned does not contain granted wishes, and a granted wish keeps its team from
  the very slot: a slot can stay without a team, which `proposal.service.spec.ts:33` says
  should not be. The test shares objects between the two (`proposal_left`).
- `notification.service.ts:92` looks 27 to 32 days ahead from Sunday 11:30. The
  slots the scheduler makes start on Saturday at midnight and are in no window, so that nobody
  is reminded of them (`reminders_midnight`). Events in the afternoon are: `AfternoonReminded`.

Met while reading, without a run of their own:

- The mail to market leads promises reminders 30 and 15 days ahead
  (notification.service.ts:171); there is one job, for the former (91).
- A row with response `unknown`, as the Saturday job inserts, counts as a response
  (event.entity.ts:96-104, event-message.service.ts:149): its member is not reminded.
- `postEventReminders` reads `event.team.users` of events loaded without their
  team (notification.service.ts:59, event.service.ts:90-96): the job ends
  the process whenever an event of the last day has a team. `PostEventReminders` models it.
- The quota is rounded, so 21 slots over 6 teams without wishes are divided 4, 4, 4, 4, 4, 1
  (proposal.service.ts:112); the test at proposal.service.spec.ts:66 allows a difference of
  two, and its own numbers of slots and teams happen to stay below that.
- With slots to fill and no teams the rounds have no end (proposal.service.ts:24, a division by
  zero at 112): `FirstPass` stays `"endless"`.
- `addNextTwoWeeks` moves both ends of its window (rsvp.service.ts:230): it is empty, and
  `AddNextTwoWeeks` never finds an event.
- For a team with two market days around a Saturday the job starts two chains for that team's
  next event (rsvp.service.ts:272-275). Both look a pair up before either inserts: two unknown rows.
- A member who comes to the team or to duty after the Sunday of the reminder, or whose row is deleted
  then, is not reminded: `AfternoonReminded` with `lately`.
- A schedule that fails to save for one event is answered at once, while the saves of the
  others are still to come (scheduler.service.ts:43): what the planner reads again may change. `Finish`.
- `'0 0 0 0 6'` (rsvp.service.ts:18) names day 0 of month 0; the model takes the
  constant's name, every Saturday.
- `absentSince` is set to null (rsvp.service.ts:130); the column is NOT NULL in the baseline
  schema (migrations/1710000000000-BaselineSchema.ts:75) and nullable in the entity.
- The recount (rsvp.service.ts:279-372) is run by nothing: the decorator that would start it is
  commented out.
- A message without a group is mailed to the entire team and stored as one for nobody
  (event-message.entity.ts:12-18, event-message.service.ts:125-156): `StoredGroup`, `GetRecipients`.
- Two rows of one member make two mails to the group that attends (event-message.service.ts:132-134);
  `MailedOnce` allows for it. The group that has not responded includes members without market duty (149).
- A market day without a team makes the request fail after the message is
  stored, also for the group nobody (event-message.service.ts:131): `JoinRelatedUsers`.
- A new member who says *high* gets *medium*: `getCarryingCapacity` has no case for it and the
  column's default decides (new-user.service.ts:161-167): `Chosen`.
- A profile, a market lead or an administrator may leave a member without a capacity
  (user.entity.ts:99-106), and the member's team then has no mean until that member has one
  (team.entity.ts:160): `CapacityKnown` with `cleared`.
- A market lead who is in no team may change every member who is in none (user.service.ts:83-95).
- A profile saved late puts its member back into the team it was read with (user.service.ts:62-71);
  `OwnColumnsOnly` names the case.
- Two proposals made from one schedule, of which both are saved while a team is deleted
  or slots are generated, can give a team two events on a day: `OnceADayKept` with `stirred`.
- A proposal sent back after one of its events was deleted inserts that event again
  (scheduler.service.ts:43): `InsertEvent`.

## 7. What is not modelled

Wording and layout of mails, logging, the generated CRUD routes other than those a
modelled component depends on, the JWT and bcrypt libraries, configuration, the schema
(it has no behaviour; its keys decide what the tables allow). A handler runs for those its
guards open it to; only `Accounts` models the guard itself, because a token outlives the role
it was signed with. The 60-second timeout of
`interceptors/timeout.interceptor.ts` answers the client and stops nothing, so that a handler is
modelled the same with and without it. Fee, score and profile live in separate models of
one row: `OtherSave` of `EntryFee` and `EditUser` of `Accounts` are what each sees of the others.

Left out on purpose, within modelled components:

- expiry of access and refresh tokens and of links: it only makes fewer of them; two links
  signed in the same second are the same string, here they differ;
- updates of a row of `rsvp` that move it to another member or market day; coordinators enter one
  value in `rsvp_rows` (`Entered`), which is the case of an answer that puts the old one back;
- administrators' edits of addresses and passwords, and accounts they create with other roles or
  another status than a new member's: `EditUser` edits role, status, capacity, team and fee;
- a lead's or a profile's request that leaves a column out is one that gives the value it has; a lead's
  request gives both columns;
- deleted members, teams and market days in `MarketReminders`, and edits of a row's response by
  coordinators, which `RsvpScore` has;
- the pace of one mail in two seconds: it delays and drops nothing;
- a message without a body, which the column refuses;
- sorting of a team list by a computed field, and the two attendance lists: reads without state;
- the recount of all scores (rsvp.service.ts:279-372): nothing runs it, so no behaviour of the
  system reaches it.

## 8. Plan

The modules of the plan are done: `RsvpScore` with `ScoreLedger`, `EntryFee` with `FeeBook`, `Proposal`,
`MarketReminders`, `Registrations`, `Accounts` with `TeamHealth`, `MailQueue` and `Messages`, `Schedule`. What
could be added, most useful first:

1. The planners' CRUD routes on single wishes (`event-registration-admin`) as actions of `Registrations`.
2. One run that composes `Accounts` and `EntryFee` on one row, in place of `OtherSave`.
3. Abstract specifications, as `ScoreLedger` and `FeeBook` are, of a team's wishes and of the schedule.
4. The recount, if it is ever switched on again, against a reference definition of the score.

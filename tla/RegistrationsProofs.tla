-------------------------- MODULE RegistrationsProofs --------------------------
(***************************************************************************)
(* Theorems about Registrations, for any leads, teams, years and lists.    *)
(***************************************************************************)
EXTENDS Registrations, SequenceTheorems, TLAPS

-----------------------------------------------------------------------------
(* Types.                                                                  *)

LEMMA ListType ==
    ASSUME NEW y, NEW l \in Lists(y)
    PROVE  /\ l \in Seq(Events)
           /\ DOMAIN l \subseteq 1 .. MaxWishes
           /\ \A i \in DOMAIN l : l[i] \in Events /\ Year[l[i]] = y
<1>1. PICK n \in 0 .. MaxWishes : l \in [1 .. n -> {e \in Events : Year[e] = y}]
  BY DEF Lists
<1>2. n \in Nat /\ l \in [1 .. n -> Events] /\ n <= MaxWishes
  BY <1>1, BoundAssumption
<1>3. l \in Seq(Events)
  BY <1>2, SeqDef
<1> QED
  BY <1>1, <1>2, <1>3, BoundAssumption

LEMMA RowType ==
    ASSUME TypeOK, NEW s \in Submissions, Active(s), NEW i \in DOMAIN sub[s].list
    PROVE  NewRow(s, i) \in Row /\ Year[NewRow(s, i).event] = sub[s].year
<1>1. sub[s].team \in Teams /\ sub[s].list \in Lists(sub[s].year)
  BY DEF TypeOK
<1>2. /\ sub[s].list[i] \in Events /\ Year[sub[s].list[i]] = sub[s].year
      /\ i \in 1 .. MaxWishes
  BY <1>1, ListType
<1> QED
  BY <1>1, <1>2 DEF NewRow, Row

\* A submission that is not in progress has nothing left to be right about.
LEMMA EndedType ==
    ASSUME NEW label \in {"done", "error", "lost"}
    PROVE  /\ Ended(label) \in Sub
           /\ Ended(label).pc = label /\ Ended(label).found = {}
<1>1. Fresh \in Sub
  BY DEF Fresh, Sub, Pcs
<1> QED
  BY <1>1 DEF Ended, Fresh, Sub, Pcs

\* What TypeOK says of one submission.
SubOK(x) ==
    /\ x \in Sub
    /\ x.pc \in {"find", "remove", "again", "save"} =>
         /\ x.user \in Leads /\ x.team \in Teams /\ x.year \in Years
         /\ x.list \in Lists(x.year) /\ x.left \subseteq DOMAIN x.list

LEMMA BecomeType ==
    ASSUME TypeOK, NEW s \in Submissions, NEW x, SubOK(x), Become(s, x)
    PROVE  /\ sub' \in [Submissions -> Sub]
           /\ \A t \in Submissions : SubOK(sub'[t])
           /\ sub'[s] = x
           /\ \A t \in Submissions : t # s => sub'[t] = sub[t]
  BY DEF TypeOK, SubOK, Become, Active

LEMMA TypeInit == Init => TypeOK
<1> SUFFICES ASSUME Init PROVE TypeOK
  OBVIOUS
<1>1. Fresh \in Sub
  BY DEF Fresh, Sub, Pcs
<1> QED
  BY <1>1 DEF Init, TypeOK, Active, Fresh

\* Every step of a submission makes it another well-typed one.
LEMMA SubmitType ==
    ASSUME TypeOK, NEW s \in Submissions, NEW u \in Leads, NEW y \in Years,
           NEW l \in AllLists, Submit(s, u, y, l)
    PROVE  \E x : SubOK(x) /\ Become(s, x) /\ x.found = {}
<1>1. CASE teamOf[u] = NoTeam
  BY <1>1, EndedType DEF Submit, SubOK
<1>2. CASE teamOf[u] # NoTeam
  <2> DEFINE x == [pc |-> "find", user |-> u, year |-> y, list |-> l,
                   team |-> teamOf[u], found |-> {}, left |-> {}]
  <2>1. l \in Lists(y) /\ l \in Seq(Events)
    BY ListType DEF Submit
  <2>2. teamOf[u] \in Teams
    BY <1>2 DEF TypeOK
  <2>3. x \in Sub
    BY <2>1, <2>2 DEF Sub, Pcs
  <2> QED
    BY <1>2, <2>1, <2>2, <2>3 DEF Submit, SubOK
<1> QED
  BY <1>1, <1>2

LEMMA SubmissionStepType ==
    ASSUME TypeOK, NEW s \in Submissions, SubmissionStep(s)
    PROVE  \E x : SubOK(x) /\ Become(s, x)
<1>1. /\ sub[s] \in Sub
      /\ Active(s) => SubOK(sub[s])
  BY DEF TypeOK, SubOK, Active
<1>2. CASE GetMyRegistrations(s)
  <2>1. Existing(s) \in SUBSET Row
    BY DEF Existing, Wishes, TypeOK
  <2> DEFINE x == [sub[s] EXCEPT !.pc = "remove", !.found = Existing(s)]
  <2>2. x \in Sub
    BY <1>1, <2>1 DEF Sub, Pcs
  <2> QED
    BY <1>1, <1>2, <2>2 DEF GetMyRegistrations, Active, SubOK, Sub
<1>3. CASE Remove(s)
  <2> DEFINE x == [sub[s] EXCEPT !.pc = "again", !.found = {}]
  <2>1. x \in Sub
    BY <1>1 DEF Sub, Pcs
  <2> QED
    BY <1>1, <1>3, <2>1 DEF Remove, Active, SubOK, Sub
<1>4. CASE GetTeamIdAgain(s)
  <2> DEFINE t == teamOf[sub[s].user]
             x == [sub[s] EXCEPT !.pc = "save", !.team = t, !.left = DOMAIN sub[s].list]
  <2>1. CASE t = NoTeam \/ sub[s].list = <<>>
    BY <1>4, <2>1, EndedType DEF GetTeamIdAgain, SubOK
  <2>2. CASE t # NoTeam /\ sub[s].list # <<>>
    <3>1. SubOK(sub[s]) /\ sub[s].pc = "again"
      BY <1>1, <1>4 DEF GetTeamIdAgain, Active
    <3>2. t \in Teams
      BY <2>2, <3>1 DEF TypeOK, SubOK
    <3>3. DOMAIN sub[s].list \subseteq Nat
      BY <3>1, ListType DEF SubOK
    <3>4. x \in Sub
      BY <1>1, <3>2, <3>3 DEF Sub, Pcs
    <3> QED
      BY <1>4, <2>2, <3>1, <3>2, <3>4 DEF GetTeamIdAgain, SubOK, Sub
  <2> QED
    BY <2>1, <2>2
<1>5. ASSUME NEW i \in 1 .. MaxWishes, SubmissionStep(s), SubmitRegistration(s, i)
      PROVE  \E x : SubOK(x) /\ Become(s, x)
  <2> DEFINE x == [sub[s] EXCEPT !.left = @ \ {i}]
  <2>1. x \in Sub
    BY <1>1 DEF Sub
  <2> QED
    BY <1>1, <1>5, <2>1, EndedType DEF SubmitRegistration, Active, SubOK, Sub
<1> QED
  BY <1>2, <1>3, <1>4, <1>5 DEF SubmissionStep

LEMMA TypeStep == TypeOK /\ [Next]_vars => TypeOK'
<1> SUFFICES ASSUME TypeOK, [Next]_vars PROVE TypeOK'
  OBVIOUS
<1> DEFINE Subs == /\ sub' \in [Submissions -> Sub]
                   /\ \A s \in Submissions : SubOK(sub'[s])
<1>0. ASSUME Subs, teamOf' \in [Leads -> Teams \union {NoTeam}], stored' \subseteq Events,
             rows' \subseteq Row, clash' \subseteq Submissions
      PROVE  TypeOK'
  BY <1>0 DEF TypeOK, SubOK, Active
<1>1. ASSUME NEW s \in Submissions, NEW u \in Leads, NEW y \in Years, NEW l \in AllLists,
             Submit(s, u, y, l)
      PROVE  TypeOK'
  <2>1. Subs
    BY <1>1, SubmitType, BecomeType
  <2>2. clash' \subseteq Submissions
    BY <1>1 DEF Submit, TypeOK, Rivals, InFlight
  <2> QED
    BY <1>0, <1>1, <2>1, <2>2 DEF Submit, TypeOK
<1>2. ASSUME NEW s \in Submissions, SubmissionStep(s)
      PROVE  TypeOK'
  <2>1. Subs
    BY <1>2, SubmissionStepType, BecomeType
  <2>2. clash' \subseteq Submissions
    BY <1>2 DEF SubmissionStep, GetMyRegistrations, Remove, GetTeamIdAgain,
                SubmitRegistration, TypeOK, Rivals, InFlight
  <2>3. rows' \subseteq Row
    <3>1. ASSUME NEW i \in 1 .. MaxWishes, SubmitRegistration(s, i)
          PROVE  rows' \subseteq Row
      <4>1. Active(s) /\ i \in DOMAIN sub[s].list
        BY <3>1 DEF SubmitRegistration, Active, TypeOK
      <4> QED
        BY <3>1, <4>1, RowType DEF SubmitRegistration, TypeOK
    <3> QED
      BY <1>2, <3>1 DEF SubmissionStep, GetMyRegistrations, Remove, GetTeamIdAgain, TypeOK
  <2> QED
    BY <1>0, <1>2, <2>1, <2>2, <2>3 DEF SubmissionStep, GetMyRegistrations, Remove,
                GetTeamIdAgain, SubmitRegistration, TypeOK
<1>3. ASSUME NEW u \in Leads, NEW t \in Teams \union {NoTeam}, MoveLead(u, t)
      PROVE  TypeOK'
  BY <1>3 DEF MoveLead, TypeOK, InFlight, Active
<1>4. ASSUME NEW e \in Doomed, DeleteEvent(e)
      PROVE  TypeOK'
  BY <1>4 DEF DeleteEvent, TypeOK, Active
<1>5. CASE Crash
  <2>1. Subs
    BY <1>5, EndedType DEF Crash, TypeOK, SubOK, Active
  <2> QED
    BY <1>0, <1>5, <2>1 DEF Crash, TypeOK
<1>6. CASE UNCHANGED vars
  BY <1>6 DEF vars, TypeOK, Active
<1> QED
  BY <1>1, <1>2, <1>3, <1>4, <1>5, <1>6 DEF Next

\* In every reachable state the tables and the submissions are well typed.
THEOREM RegistrationsTypeCorrect == Spec => []TypeOK
  BY TypeInit, TypeStep, PTL DEF Spec

-----------------------------------------------------------------------------
(* Exactness.  Why a submission that nothing clashed with ends with exactly *)
(* its list: its lead stays in the team it read, nobody else who is at work *)
(* has that team and year, so the rows of that team and year are what it    *)
(* made them: after the removal none, then those of the inserts done.       *)

Steady == \A s \in Submissions \ clash : Active(s) => teamOf[sub[s].user] = sub[s].team

Alone == \A s \in Submissions \ clash, t \in Submissions :
            Active(s) /\ Active(t) /\ s # t
              => sub[s].team # sub[t].team \/ sub[s].year # sub[t].year

\* Rows wait for their removal only between the look-up and the removal.
FoundOwn == \A s \in Submissions : \A r \in sub[s].found :
               sub[s].pc = "remove" /\ r.team = sub[s].team /\ Year[r.event] = sub[s].year

Inserted(s) == {NewRow(s, i) : i \in {j \in DOMAIN sub[s].list :
                                         j \notin sub[s].left /\ sub[s].list[j] \in stored}}

Exact(s) ==
    /\ sub[s].pc = "remove" => Wishes(sub[s].team, sub[s].year) \subseteq sub[s].found
    /\ sub[s].pc = "again"  => Wishes(sub[s].team, sub[s].year) = {}
    /\ sub[s].pc = "save"   => Wishes(sub[s].team, sub[s].year) = Inserted(s)

Settled == \A s \in Submissions \ clash : Exact(s)

RegInv == TypeOK /\ Steady /\ Alone /\ FoundOwn /\ Settled

LEMMA RegInit == Init => RegInv
<1> SUFFICES ASSUME Init PROVE RegInv
  OBVIOUS
<1>1. \A s \in Submissions : sub[s].pc = "idle" /\ sub[s].found = {}
  BY DEF Init, Fresh
<1> QED
  BY <1>1, TypeInit DEF RegInv, Steady, Alone, FoundOwn, Settled, Exact, Active

\* What a step of one submission leaves alone.
LEMMA StepFrame ==
    ASSUME TypeOK, NEW s \in Submissions, SubmissionStep(s)
    PROVE  /\ Active(s)
           /\ UNCHANGED <<teamOf, stored>>
           /\ clash \subseteq clash'
           /\ \A t \in Submissions : t # s => sub'[t] = sub[t]
<1>1. PICK x : SubOK(x) /\ Become(s, x)
  BY SubmissionStepType
<1>2. \A t \in Submissions : t # s => sub'[t] = sub[t]
  BY <1>1, BecomeType
<1> QED
  BY <1>2 DEF SubmissionStep, GetMyRegistrations, Remove, GetTeamIdAgain, SubmitRegistration,
              Active

\* A submission that stays at work keeps its lead, year and list, and its team
\* unless its lead was moved.
LEMMA StepKeeps ==
    ASSUME TypeOK, NEW s \in Submissions, SubmissionStep(s), Active(s)'
    PROVE  /\ sub'[s].user = sub[s].user /\ sub'[s].year = sub[s].year
           /\ sub'[s].list = sub[s].list
           /\ sub'[s].team = sub[s].team \/ sub'[s].team = teamOf[sub[s].user]
           /\ sub'[s].team # sub[s].team => Rivals(sub'[s].team, sub[s].year) \subseteq clash'
<1> DEFINE Kept == /\ sub'[s].user = sub[s].user /\ sub'[s].year = sub[s].year
                   /\ sub'[s].list = sub[s].list
<1>0. sub[s] \in Sub /\ sub \in [Submissions -> Sub]
  BY DEF TypeOK
<1>1. CASE GetMyRegistrations(s)
  BY <1>0, <1>1 DEF GetMyRegistrations, Become, Sub
<1>2. CASE Remove(s)
  BY <1>0, <1>2 DEF Remove, Become, Sub
<1>3. CASE GetTeamIdAgain(s)
  <2> DEFINE t == teamOf[sub[s].user]
             x == [sub[s] EXCEPT !.pc = "save", !.team = t, !.left = DOMAIN sub[s].list]
  <2>1. sub'[s] = x
    BY <1>0, <1>3 DEF GetTeamIdAgain, Become, Active, Ended, Fresh
  <2>2. Kept /\ sub'[s].team = t
    BY <1>0, <2>1 DEF Sub
  <2>3. t # sub[s].team => Rivals(t, sub[s].year) \subseteq clash'
    BY <1>3 DEF GetTeamIdAgain
  <2> QED
    BY <2>2, <2>3
<1>4. ASSUME NEW i \in 1 .. MaxWishes, SubmitRegistration(s, i)
      PROVE  Kept /\ sub'[s].team = sub[s].team
  <2> DEFINE x == [sub[s] EXCEPT !.left = @ \ {i}]
  <2>1. sub'[s] = x
    BY <1>0, <1>4 DEF SubmitRegistration, Become, Active, Ended, Fresh
  <2> QED
    BY <1>0, <2>1 DEF Sub
<1> QED
  BY <1>1, <1>2, <1>3, <1>4 DEF SubmissionStep

LEMMA SteadyStep == RegInv /\ [Next]_vars => Steady'
<1> SUFFICES ASSUME RegInv, [Next]_vars, NEW s \in Submissions, s \notin clash', Active(s)'
             PROVE  teamOf'[sub'[s].user] = sub'[s].team
  BY DEF Steady
<1>0. TypeOK /\ Steady
  BY DEF RegInv
<1>1. ASSUME NEW t \in Submissions, NEW u \in Leads, NEW y \in Years, NEW l \in AllLists,
             Submit(t, u, y, l)
      PROVE  teamOf'[sub'[s].user] = sub'[s].team
  <2>1. clash \subseteq clash' /\ teamOf' = teamOf
    BY <1>1 DEF Submit
  <2>2. CASE s = t
    BY <1>0, <1>1, <2>1, <2>2 DEF Submit, Become, TypeOK, Ended, Fresh, Active
  <2>3. CASE s # t
    BY <1>0, <1>1, <2>1, <2>3 DEF Submit, Become, TypeOK, Steady, Active
  <2> QED
    BY <2>2, <2>3
<1>2. ASSUME NEW t \in Submissions, SubmissionStep(t)
      PROVE  teamOf'[sub'[s].user] = sub'[s].team
  BY <1>0, <1>2, StepFrame, StepKeeps DEF Steady, Active
<1>3. ASSUME NEW u \in Leads, NEW t \in Teams \union {NoTeam}, MoveLead(u, t)
      PROVE  teamOf'[sub'[s].user] = sub'[s].team
  BY <1>0, <1>3 DEF MoveLead, Steady, Active, InFlight, TypeOK
<1>4. CASE (\E e \in Doomed : DeleteEvent(e)) \/ UNCHANGED vars
  BY <1>0, <1>4 DEF DeleteEvent, vars, Steady, Active
<1>5. CASE Crash
  BY <1>5 DEF Crash, Ended, Fresh, Active
<1> QED
  BY <1>1, <1>2, <1>3, <1>4, <1>5 DEF Next

LEMMA AloneStep == RegInv /\ [Next]_vars => Alone'
<1> SUFFICES ASSUME RegInv, [Next]_vars,
                    NEW s \in Submissions, s \notin clash', NEW t \in Submissions,
                    Active(s)', Active(t)', s # t
             PROVE  sub'[s].team # sub'[t].team \/ sub'[s].year # sub'[t].year
  BY DEF Alone
<1>0. TypeOK /\ Alone /\ Steady
  BY DEF RegInv
<1>1. ASSUME NEW q \in Submissions, NEW u \in Leads, NEW y \in Years, NEW l \in AllLists,
             Submit(q, u, y, l)
      PROVE  sub'[s].team # sub'[t].team \/ sub'[s].year # sub'[t].year
  <2>1. clash \subseteq clash'
    BY <1>1 DEF Submit
  <2>2. CASE q # s /\ q # t
    BY <1>0, <1>1, <2>1, <2>2 DEF Submit, Become, Alone, Active, TypeOK
  <2>3. CASE q = s \/ q = t
    <3>1. teamOf[u] # NoTeam
      BY <1>0, <1>1, <2>3 DEF Submit, Become, Ended, Fresh, Active, TypeOK
    <3>2. /\ sub'[q].team = teamOf[u] /\ sub'[q].year = y
          /\ \A p \in Submissions : p # q => sub'[p] = sub[p]
      BY <1>0, <1>1, <3>1 DEF Submit, Become, TypeOK
    <3>3. Rivals(teamOf[u], y) = {} \/ Rivals(teamOf[u], y) \union {q} \subseteq clash'
      BY <1>1, <3>1 DEF Submit
    <3> QED
      BY <2>3, <3>2, <3>3 DEF Rivals, InFlight, Active
  <2> QED
    BY <2>2, <2>3
<1>2. ASSUME NEW q \in Submissions, SubmissionStep(q)
      PROVE  sub'[s].team # sub'[t].team \/ sub'[s].year # sub'[t].year
  <2>1. Active(s) /\ Active(t)
    BY <1>0, <1>2, StepFrame DEF Active
  <2>2. clash \subseteq clash'
    BY <1>0, <1>2, StepFrame
  <2>3. CASE q # t
    \* The lead of s was not moved, so s still has the team it had.
    <3>1. sub'[s].team = sub[s].team /\ sub'[s].year = sub[s].year /\ sub'[t] = sub[t]
      BY <1>0, <1>2, <2>1, <2>2, <2>3, StepFrame, StepKeeps DEF Steady
    <3> QED
      BY <1>0, <2>1, <2>2, <3>1 DEF Alone
  <2>4. CASE q = t
    <3>1. sub'[s] = sub[s] /\ sub'[t].year = sub[t].year
      BY <1>0, <1>2, <2>4, StepFrame, StepKeeps
    <3>2. CASE sub'[t].team = sub[t].team
      BY <1>0, <2>1, <2>2, <3>1, <3>2 DEF Alone
    <3>3. CASE sub'[t].team # sub[t].team
      BY <1>0, <1>2, <2>1, <2>4, <3>1, <3>3, StepKeeps DEF Rivals, InFlight
    <3> QED
      BY <3>2, <3>3
  <2> QED
    BY <2>3, <2>4
<1>3. CASE \/ \E u \in Leads, q \in Teams \union {NoTeam} : MoveLead(u, q)
           \/ \E e \in Doomed : DeleteEvent(e)
           \/ UNCHANGED vars
  BY <1>0, <1>3 DEF MoveLead, DeleteEvent, vars, Alone, Active
<1>4. CASE Crash
  BY <1>4 DEF Crash, Ended, Fresh, Active
<1> QED
  BY <1>1, <1>2, <1>3, <1>4 DEF Next

LEMMA FoundOwnStep == RegInv /\ [Next]_vars => FoundOwn'
<1> SUFFICES ASSUME RegInv, [Next]_vars, NEW s \in Submissions, NEW r \in sub'[s].found
             PROVE  sub'[s].pc = "remove" /\ r.team = sub'[s].team /\ Year[r.event] = sub'[s].year
  BY DEF FoundOwn
<1> DEFINE Goal == sub'[s].pc = "remove" /\ r.team = sub'[s].team /\ Year[r.event] = sub'[s].year
<1>0. TypeOK /\ FoundOwn
  BY DEF RegInv
<1>1. ASSUME sub'[s] = sub[s] PROVE Goal
  BY <1>0, <1>1 DEF FoundOwn
<1>2. ASSUME NEW q \in Submissions, NEW u \in Leads, NEW y \in Years, NEW l \in AllLists,
             Submit(q, u, y, l)
      PROVE  Goal
  <2>1. PICK x : SubOK(x) /\ Become(q, x) /\ x.found = {}
    BY <1>0, <1>2, SubmitType
  <2> QED
    BY <1>0, <1>1, <2>1, BecomeType
<1>3. ASSUME NEW q \in Submissions, SubmissionStep(q)
      PROVE  Goal
  <2>1. CASE q # s
    BY <1>0, <1>1, <1>3, <2>1, StepFrame
  <2>2. CASE q = s /\ GetMyRegistrations(s)
    <3>1. /\ sub'[s].pc = "remove" /\ sub'[s].found = Existing(s)
          /\ sub'[s].team = sub[s].team /\ sub'[s].year = sub[s].year
      BY <1>0, <2>2 DEF GetMyRegistrations, Become, TypeOK, Sub
    <3> QED
      BY <3>1 DEF Existing, Wishes
  <2>3. CASE q = s /\ Remove(s)
    BY <1>0, <2>3 DEF Remove, Become, TypeOK, Sub
  <2>4. ASSUME q = s, sub[s].pc \in {"again", "save"}
        PROVE  FALSE
    <3>1. sub[s].found = {}
      BY <1>0, <2>4 DEF FoundOwn
    <3>2. CASE GetTeamIdAgain(s)
      <4> DEFINE t == teamOf[sub[s].user]
                 x == [sub[s] EXCEPT !.pc = "save", !.team = t, !.left = DOMAIN sub[s].list]
      <4>1. sub'[s] = x \/ sub'[s].found = {}
        BY <1>0, <3>2, EndedType DEF GetTeamIdAgain, Become, TypeOK
      <4>2. x.found = {}
        BY <1>0, <3>1 DEF TypeOK, Sub
      <4> QED
        BY <4>1, <4>2
    <3>3. ASSUME NEW i \in 1 .. MaxWishes, SubmitRegistration(s, i)
          PROVE  FALSE
      <4> DEFINE x == [sub[s] EXCEPT !.left = @ \ {i}]
      <4>1. sub'[s] = x \/ sub'[s].found = {}
        BY <1>0, <3>3, EndedType DEF SubmitRegistration, Become, TypeOK
      <4>2. x.found = {}
        BY <1>0, <3>1 DEF TypeOK, Sub
      <4> QED
        BY <4>1, <4>2
    <3> QED
      BY <1>3, <2>4, <3>2, <3>3 DEF SubmissionStep, GetMyRegistrations, Remove
  <2>5. GetTeamIdAgain(s) \/ (\E i \in 1 .. MaxWishes : SubmitRegistration(s, i))
           => sub[s].pc \in {"again", "save"}
    BY DEF GetTeamIdAgain, SubmitRegistration
  <2> QED
    BY <1>3, <2>1, <2>2, <2>3, <2>4, <2>5 DEF SubmissionStep
<1>4. CASE \/ \E u \in Leads, q \in Teams \union {NoTeam} : MoveLead(u, q)
           \/ \E e \in Doomed : DeleteEvent(e)
           \/ UNCHANGED vars
  BY <1>1, <1>4 DEF MoveLead, DeleteEvent, vars
<1>5. CASE Crash
  BY <1>0, <1>1, <1>5, EndedType DEF Crash, TypeOK
<1> QED
  BY <1>2, <1>3, <1>4, <1>5 DEF Next

-----------------------------------------------------------------------------
(* The rows of a submission under a step of another one, and under its own. *)

\* What another submission does leaves the rows of the team and year alone.
LEMMA OtherRows ==
    ASSUME RegInv, NEW s \in Submissions, s \notin clash, Active(s),
           NEW q \in Submissions, q # s, SubmissionStep(q)
    PROVE  \A r : r.team = sub[s].team /\ Year[r.event] = sub[s].year
                    => (r \in rows' <=> r \in rows)
<1>0. TypeOK /\ Alone /\ FoundOwn
  BY DEF RegInv
<1>1. Active(q)
  BY <1>0, StepFrame
<1>2. sub[s].team # sub[q].team \/ sub[s].year # sub[q].year
  BY <1>0, <1>1 DEF Alone
<1>3. CASE Remove(q)
  BY <1>0, <1>2, <1>3 DEF Remove, FoundOwn
<1>4. ASSUME NEW i \in 1 .. MaxWishes, SubmitRegistration(q, i)
      PROVE  rows' = rows \/ \E n : /\ rows' = rows \union {n}
                                     /\ n.team = sub[q].team /\ Year[n.event] = sub[q].year
  <2>1. i \in DOMAIN sub[q].list
    BY <1>0, <1>1, <1>4 DEF SubmitRegistration, TypeOK
  <2>2. NewRow(q, i).team = sub[q].team /\ Year[NewRow(q, i).event] = sub[q].year
    BY <1>0, <1>1, <2>1, RowType DEF NewRow
  <2> QED
    BY <1>4, <2>2 DEF SubmitRegistration
<1> QED
  BY <1>2, <1>3, <1>4 DEF SubmissionStep, GetMyRegistrations, GetTeamIdAgain

\* The inserts of a submission that nothing clashed with add up.
LEMMA OwnInsert ==
    ASSUME RegInv, NEW s \in Submissions, s \notin clash,
           NEW i \in 1 .. MaxWishes, SubmitRegistration(s, i)
    PROVE  {r \in rows' : r.team = sub[s].team /\ Year[r.event] = sub[s].year}
              = {NewRow(s, j) : j \in {k \in DOMAIN sub[s].list :
                                   k \notin sub[s].left \ {i} /\ sub[s].list[k] \in stored}}
<1>0. TypeOK /\ sub[s].pc = "save" /\ Active(s) /\ i \in DOMAIN sub[s].list
  BY DEF RegInv, TypeOK, SubmitRegistration, Active
<1>1. Wishes(sub[s].team, sub[s].year) = Inserted(s)
  BY <1>0 DEF RegInv, Settled, Exact
<1> DEFINE team == sub[s].team
           year == sub[s].year
<1>2. NewRow(s, i).team = team /\ Year[NewRow(s, i).event] = year
  BY <1>0, RowType DEF NewRow
<1>3. {r \in rows' : r.team = team /\ Year[r.event] = year}
         = IF sub[s].list[i] \in stored THEN Inserted(s) \union {NewRow(s, i)} ELSE Inserted(s)
  BY <1>1, <1>2 DEF SubmitRegistration, Wishes
<1> QED
  BY <1>0, <1>3 DEF Inserted

LEMMA SettledStep == RegInv /\ [Next]_vars => Settled'
<1> SUFFICES ASSUME RegInv, [Next]_vars, NEW s \in Submissions, s \notin clash'
             PROVE  Exact(s)'
  BY DEF Settled
<1>0. TypeOK /\ Steady /\ Settled
  BY DEF RegInv
<1>1. ASSUME ~Active(s)' PROVE Exact(s)'
  BY <1>1 DEF Exact, Active
<1>2. ASSUME s \notin clash, sub'[s] = sub[s], stored' = stored,
             \A r : r.team = sub[s].team /\ Year[r.event] = sub[s].year
                      => (r \in rows' <=> r \in rows)
      PROVE  Exact(s)'
  <2>1. Wishes(sub[s].team, sub[s].year)' = Wishes(sub[s].team, sub[s].year)
    BY <1>2 DEF Wishes
  <2>2. Inserted(s)' = Inserted(s)
    BY <1>2 DEF Inserted, NewRow
  <2>3. Exact(s)
    BY <1>0, <1>2 DEF Settled
  <2> QED
    BY <1>2, <2>1, <2>2, <2>3 DEF Exact
<1>3. ASSUME NEW q \in Submissions, NEW u \in Leads, NEW y \in Years, NEW l \in AllLists,
             Submit(q, u, y, l)
      PROVE  Exact(s)'
  <2>1. CASE q = s
    <3>1. sub'[s].pc \in {"error", "find"}
      BY <1>0, <1>3, <2>1 DEF Submit, Become, TypeOK, Ended, Fresh
    <3> QED
      BY <3>1 DEF Exact
  <2>2. CASE q # s
    BY <1>0, <1>2, <1>3, <2>2 DEF Submit, Become, TypeOK
  <2> QED
    BY <2>1, <2>2
<1>4. ASSUME NEW q \in Submissions, q # s, SubmissionStep(q)
      PROVE  Exact(s)'
  <2>1. s \notin clash /\ sub'[s] = sub[s] /\ stored' = stored
    BY <1>0, <1>4, StepFrame
  <2>2. CASE ~Active(s)
    BY <1>1, <2>1, <2>2 DEF Active
  <2>3. CASE Active(s)
    BY <1>2, <1>4, <2>1, <2>3, OtherRows
  <2> QED
    BY <2>2, <2>3
<1>5. CASE SubmissionStep(s)
  <2>0. s \notin clash /\ Active(s) /\ Exact(s) /\ teamOf[sub[s].user] = sub[s].team
    BY <1>0, <1>5, StepFrame DEF Settled, Steady
  <2>1. CASE GetMyRegistrations(s)
    <3>1. /\ sub'[s].pc = "remove" /\ sub'[s].found = Existing(s) /\ rows' = rows
          /\ sub'[s].team = sub[s].team /\ sub'[s].year = sub[s].year
      BY <1>0, <2>1 DEF GetMyRegistrations, Become, TypeOK, Sub
    <3> QED
      BY <3>1 DEF Exact, Existing, Wishes
  <2>2. CASE Remove(s)
    <3>1. /\ sub'[s].pc = "again" /\ rows' = rows \ sub[s].found
          /\ sub'[s].team = sub[s].team /\ sub'[s].year = sub[s].year
      BY <1>0, <2>2 DEF Remove, Become, TypeOK, Sub
    <3>2. Wishes(sub[s].team, sub[s].year) \subseteq sub[s].found
      BY <2>0, <2>2 DEF Remove, Exact
    <3> QED
      BY <3>1, <3>2 DEF Exact, Wishes
  <2>3. CASE GetTeamIdAgain(s)
    <3>1. Wishes(sub[s].team, sub[s].year) = {} /\ rows' = rows /\ stored' = stored
      BY <2>0, <2>3 DEF GetTeamIdAgain, Exact
    <3> DEFINE x == [sub[s] EXCEPT !.pc = "save", !.team = sub[s].team, !.left = DOMAIN sub[s].list]
    <3>2. sub'[s] = x \/ sub'[s].pc \in {"error", "done"}
      BY <1>0, <2>0, <2>3, EndedType DEF GetTeamIdAgain, Become, TypeOK
    <3>3. CASE sub'[s] = x
      <4>1. /\ sub'[s].pc = "save" /\ sub'[s].team = sub[s].team /\ sub'[s].year = sub[s].year
            /\ sub'[s].left = DOMAIN sub'[s].list
        BY <1>0, <3>3 DEF TypeOK, Sub
      <4> QED
        BY <3>1, <4>1 DEF Exact, Inserted, Wishes
    <3> QED
      BY <3>2, <3>3 DEF Exact
  <2>4. ASSUME NEW i \in 1 .. MaxWishes, SubmitRegistration(s, i)
        PROVE  Exact(s)'
    <3> DEFINE x == [sub[s] EXCEPT !.left = @ \ {i}]
    <3>1. sub'[s] = x \/ sub'[s].pc = "done"
      BY <1>0, <2>4, EndedType DEF SubmitRegistration, Become, TypeOK
    <3>2. CASE sub'[s] = x
      <4>1. /\ sub'[s].pc = "save" /\ sub'[s].team = sub[s].team /\ sub'[s].year = sub[s].year
            /\ sub'[s].list = sub[s].list /\ sub'[s].left = sub[s].left \ {i}
        BY <1>0, <2>4, <3>2 DEF SubmitRegistration, TypeOK, Sub
      <4>2. stored' = stored
        BY <2>4 DEF SubmitRegistration
      <4>3. \A j : NewRow(s, j)' = NewRow(s, j)
        BY <4>1 DEF NewRow
      <4>4. Wishes(sub[s].team, sub[s].year)' = Inserted(s)'
        BY <2>0, <2>4, <4>1, <4>2, <4>3, OwnInsert DEF Wishes, Inserted
      <4> QED
        BY <4>1, <4>4 DEF Exact
    <3> QED
      BY <3>1, <3>2 DEF Exact
  <2> QED
    BY <1>5, <2>1, <2>2, <2>3, <2>4 DEF SubmissionStep
<1>6. ASSUME NEW u \in Leads, NEW q \in Teams \union {NoTeam}, MoveLead(u, q)
      PROVE  Exact(s)'
  BY <1>0, <1>2, <1>6 DEF MoveLead
<1>7. ASSUME NEW e \in Doomed, DeleteEvent(e)
      PROVE  Exact(s)'
  <2>1. sub' = sub /\ clash' = clash /\ stored' = stored \ {e} /\ rows' = {r \in rows : r.event # e}
    BY <1>7 DEF DeleteEvent
  <2>2. Exact(s)
    BY <1>0, <2>1 DEF Settled
  <2>3. Wishes(sub[s].team, sub[s].year)' = {r \in Wishes(sub[s].team, sub[s].year) : r.event # e}
    BY <2>1 DEF Wishes
  <2>4. Inserted(s)' = {r \in Inserted(s) : r.event # e}
    BY <2>1 DEF Inserted, NewRow
  <2>5. CASE sub[s].pc = "save"
    <3>1. Wishes(sub[s].team, sub[s].year) = Inserted(s)
      BY <2>2, <2>5 DEF Exact
    <3>2. Wishes(sub[s].team, sub[s].year)' = Inserted(s)'
      BY <2>3, <2>4, <3>1
    <3> QED
      BY <2>1, <2>5, <3>2 DEF Exact
  <2>6. CASE sub[s].pc # "save"
    BY <2>1, <2>2, <2>3, <2>6 DEF Exact
  <2> QED
    BY <2>5, <2>6
<1>8. CASE Crash
  <2>1. sub'[s].pc = "lost" \/ (sub'[s] = sub[s] /\ ~Active(s))
    BY <1>0, <1>8, EndedType DEF Crash, TypeOK
  <2> QED
    BY <2>1 DEF Exact, Active
<1>9. CASE UNCHANGED vars
  BY <1>0, <1>2, <1>9 DEF vars
<1> QED
  BY <1>3, <1>4, <1>5, <1>6, <1>7, <1>8, <1>9 DEF Next

LEMMA RegStep == RegInv /\ [Next]_vars => RegInv'
  BY TypeStep, SteadyStep, AloneStep, FoundOwnStep, SettledStep DEF RegInv

LEMMA RegInvariant == Spec => []RegInv
  BY RegInit, RegStep, PTL DEF Spec

-----------------------------------------------------------------------------
(* The properties.                                                         *)

LEMMA ExactEnd ==
    ASSUME RegInv, [Next]_vars, NEW s \in Submissions, s \notin clash',
           Active(s), sub'[s].pc = "done"
    PROVE  Ranked({r \in rows' : r.team = sub[s].team /\ Year[r.event] = sub[s].year})
              = {<<i, sub[s].list[i]>> : i \in {j \in DOMAIN sub[s].list : sub[s].list[j] \in stored'}}
<1>0. TypeOK /\ Settled /\ Steady
  BY DEF RegInv
<1>1. SubmissionStep(s)
  <2>1. ASSUME sub'[s] = sub[s] PROVE FALSE
    BY <2>1 DEF Active
  <2>2. ASSUME NEW q \in Submissions, NEW u \in Leads, NEW y \in Years, NEW l \in AllLists,
               Submit(q, u, y, l)
        PROVE  FALSE
    BY <1>0, <2>1, <2>2 DEF Submit, Become, TypeOK, Active
  <2>3. ASSUME NEW q \in Submissions, q # s, SubmissionStep(q)
        PROVE  FALSE
    BY <1>0, <2>1, <2>3, StepFrame
  <2>4. CASE Crash
    BY <1>0, <2>1, <2>4, EndedType DEF Crash, TypeOK
  <2> QED
    BY <2>1, <2>2, <2>3, <2>4 DEF Next, MoveLead, DeleteEvent, vars
<1>2. s \notin clash /\ Exact(s) /\ stored' = stored
  BY <1>0, <1>1, StepFrame DEF Settled
<1>3. CASE GetTeamIdAgain(s)
  <2> DEFINE x == [sub[s] EXCEPT !.pc = "save", !.team = teamOf[sub[s].user],
                                 !.left = DOMAIN sub[s].list]
  <2>1. x.pc = "save"
    BY <1>0 DEF TypeOK, Sub
  <2>2. sub[s].list = <<>>
    BY <1>0, <1>3, <2>1, EndedType DEF GetTeamIdAgain, Become, TypeOK
  <2>3. {r \in rows' : r.team = sub[s].team /\ Year[r.event] = sub[s].year} = {}
    BY <1>2, <1>3 DEF GetTeamIdAgain, Exact, Wishes
  <2>4. DOMAIN sub[s].list = {}
    BY <2>2
  <2> QED
    BY <2>3, <2>4 DEF Ranked
<1>4. ASSUME NEW i \in 1 .. MaxWishes, SubmitRegistration(s, i)
      PROVE  Ranked({r \in rows' : r.team = sub[s].team /\ Year[r.event] = sub[s].year})
                = {<<k, sub[s].list[k]>> : k \in {j \in DOMAIN sub[s].list : sub[s].list[j] \in stored'}}
  <2> DEFINE x == [sub[s] EXCEPT !.left = @ \ {i}]
  <2>1. sub[s].pc = "save" /\ x.pc = "save"
    BY <1>0, <1>4 DEF SubmitRegistration, TypeOK, Sub
  <2>2. sub[s].left = {i}
    BY <1>0, <1>4, <2>1 DEF SubmitRegistration, Become, TypeOK
  <2>3. {r \in rows' : r.team = sub[s].team /\ Year[r.event] = sub[s].year}
           = {NewRow(s, j) : j \in {k \in DOMAIN sub[s].list : sub[s].list[k] \in stored}}
    BY <1>2, <1>4, <2>2, OwnInsert
  <2>4. \A j : NewRow(s, j).priority = j /\ NewRow(s, j).event = sub[s].list[j]
    BY DEF NewRow
  <2> QED
    BY <1>2, <2>3, <2>4 DEF Ranked
<1>5. ASSUME GetMyRegistrations(s) \/ Remove(s) PROVE FALSE
  BY <1>0, <1>5 DEF GetMyRegistrations, Remove, Become, TypeOK, Sub
<1> QED
  BY <1>1, <1>3, <1>4, <1>5 DEF SubmissionStep

\* A submission that nothing clashed with leaves exactly its list, less the market
\* days that are gone, whatever state the wishes of its team were in.
THEOREM LastSubmissionWins == Spec => SubmissionIsExact
<1>1. RegInv /\ [Next]_vars =>
        [\A s \in Submissions \ clash' :
           Active(s) /\ sub'[s].pc = "done" =>
             Ranked({r \in rows' : r.team = sub[s].team /\ Year[r.event] = sub[s].year})
                = {<<i, sub[s].list[i]>> : i \in {j \in DOMAIN sub[s].list : sub[s].list[j] \in stored'}}]_vars
  BY ExactEnd
<1> QED
  BY <1>1, RegInvariant, PTL DEF Spec, SubmissionIsExact

LEMMA RanksStep == RegInv /\ RanksDistinct /\ [Next]_vars => RanksDistinct'
<1> SUFFICES ASSUME RegInv, RanksDistinct, [Next]_vars PROVE RanksDistinct'
  OBVIOUS
<1>0. TypeOK /\ Settled
  BY DEF RegInv
<1>1. ASSUME rows' \subseteq rows, clash \subseteq clash' PROVE RanksDistinct'
  BY <1>1 DEF RanksDistinct
<1>2. ASSUME NEW s \in Submissions, NEW i \in 1 .. MaxWishes, SubmitRegistration(s, i)
      PROVE  RanksDistinct'
  <2> DEFINE n == NewRow(s, i)
  <2>1. clash' = clash /\ rows' \subseteq rows \union {n} /\ n.by = s
    BY <1>2 DEF SubmitRegistration, NewRow
  <2>2. CASE s \in clash
    BY <2>1, <2>2 DEF RanksDistinct
  <2>3. CASE s \notin clash
    <3>1. Active(s) /\ sub[s].pc = "save" /\ i \in sub[s].left /\ i \in DOMAIN sub[s].list
      BY <1>0, <1>2 DEF SubmitRegistration, Active, TypeOK
    <3>2. Wishes(sub[s].team, sub[s].year) = Inserted(s)
      BY <1>0, <2>3, <3>1 DEF Settled, Exact
    <3>3. n.team = sub[s].team /\ Year[n.event] = sub[s].year /\ n.priority = i
      BY <1>0, <3>1, RowType DEF NewRow
    <3>4. \A r \in rows : r.team = n.team /\ Year[r.event] = Year[n.event] => r.priority # i
      BY <3>1, <3>2, <3>3 DEF Wishes, Inserted, NewRow
    <3> QED
      BY <2>1, <3>3, <3>4 DEF RanksDistinct
  <2> QED
    BY <2>2, <2>3
<1>3. ASSUME NEW s \in Submissions, SubmissionStep(s)
      PROVE  RanksDistinct'
  BY <1>0, <1>1, <1>2, <1>3, StepFrame DEF SubmissionStep, GetMyRegistrations, Remove, GetTeamIdAgain
<1>4. CASE \E s \in Submissions, u \in Leads, y \in Years, l \in AllLists : Submit(s, u, y, l)
  BY <1>1, <1>4 DEF Submit
<1>5. CASE \/ \E u \in Leads, q \in Teams \union {NoTeam} : MoveLead(u, q)
           \/ \E e \in Doomed : DeleteEvent(e)
           \/ Crash \/ UNCHANGED vars
  BY <1>1, <1>5 DEF MoveLead, DeleteEvent, Crash, vars
<1> QED
  BY <1>3, <1>4, <1>5 DEF Next

\* Two wishes of one rank in a team and year need a submission something clashed
\* with: whatever is cut short or deleted, one at a time never makes them.
THEOREM RanksAreDistinct == Spec => []RanksDistinct
<1>1. Init => RanksDistinct
  BY DEF Init, RanksDistinct
<1> QED
  BY <1>1, RanksStep, RegInvariant, PTL DEF Spec

\* Wishes of other teams and years are never touched.
THEOREM OthersAreKept == Spec => OnlyOwnReplaced
<1> DEFINE Kept == \A r \in rows \ rows' :
                     \/ r.event \notin stored'
                     \/ \E s \in Submissions : /\ sub[s].pc = "remove" /\ sub'[s].pc = "again"
                                               /\ sub[s].team = r.team
                                               /\ sub[s].year = Year[r.event]
<1>1. RegInv /\ [Next]_vars => [Kept]_vars
  <2> SUFFICES ASSUME RegInv, [Next]_vars PROVE Kept
    OBVIOUS
  <2>1. ASSUME NEW s \in Submissions, Remove(s) PROVE Kept
    <3>1. sub[s].pc = "remove" /\ sub'[s].pc = "again" /\ rows' = rows \ sub[s].found
      BY <2>1 DEF RegInv, Remove, Become, TypeOK, Sub
    <3> QED
      BY <3>1 DEF RegInv, FoundOwn
  <2>2. ASSUME NEW e \in Doomed, DeleteEvent(e) PROVE Kept
    BY <2>2 DEF DeleteEvent
  <2>3. ASSUME rows \subseteq rows' PROVE Kept
    BY <2>3
  <2> QED
    BY <2>1, <2>2, <2>3 DEF Next, SubmissionStep, Submit, GetMyRegistrations, GetTeamIdAgain,
       SubmitRegistration, MoveLead, Crash, vars
<1> QED
  BY <1>1, RegInvariant, PTL DEF Spec, OnlyOwnReplaced
=============================================================================

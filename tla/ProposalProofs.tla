---------------------------- MODULE ProposalProofs ----------------------------
(***************************************************************************)
(* Theorems about Proposal, for any teams, slots, wishes and shuffles.     *)
(***************************************************************************)
EXTENDS Proposal, FiniteSetTheorems, WellFoundedInduction, TLAPS

-----------------------------------------------------------------------------
(* What a step does to the lists of the teams.                             *)

\* A team is given one object that conflicts with nothing, or nobody is given
\* anything.
Gives(t, o) == /\ t \in Teams /\ o \in Objects
               /\ ~Conflict(o, t)
               /\ mine' = [mine EXCEPT ![t] = @ \union {o}]

LEMMA ShuffledSlot ==
    ASSUME order \in Orders, next \in DOMAIN order
    PROVE  order[next] \in Slots /\ Plain(order[next]) \in Objects
<1>1. order \in Seq(Slots)
  BY OrdersAssumption
<1> QED
  BY <1>1 DEF Plain, Objects

LEMMA WishObject ==
    ASSUME TypeOK, NEW t \in Teams, NEW i \in DOMAIN wish[t]
    PROVE  Copy(t, wish[t][i]) \in Objects
<1>1. wish[t] \in WishLists
  BY DEF TypeOK
<1>2. PICK n \in 0 .. MaxWishes : wish[t] \in [1 .. n -> Wishable]
  BY <1>1 DEF WishLists
<1>3. wish[t][i] \in Slots \union Stored
  BY <1>2 DEF Wishable
<1> QED
  BY <1>3 DEF Copy, Plain, Objects

\* While the passes run the events array is a shuffle of the slots.
Shuffled == pc # "start" => order \in Orders

LEMMA GiveOrKeep ==
    ASSUME TypeOK, Shuffled, [Next]_vars
    PROVE  mine' = mine \/ \E t \in Teams, o \in Objects : Gives(t, o)
<1>1. CASE Shuffle
  BY <1>1 DEF Shuffle
<1>2. ASSUME NEW t \in Teams, GrantWish(t)
      PROVE  \E o \in Objects : Gives(t, o)
  <2>1. PICK i \in FreeWishes(t) : Assign(Copy(t, wish[t][i]), t)
    BY <1>2 DEF GrantWish
  <2>2. i \in DOMAIN wish[t] /\ ~Conflict(Copy(t, wish[t][i]), t)
    BY DEF FreeWishes
  <2>3. Copy(t, wish[t][i]) \in Objects
    BY <2>2, WishObject
  <2> QED
    BY <2>1, <2>2, <2>3 DEF Gives, Assign
<1>3. ASSUME NEW t \in Teams, FillSlot(t)
      PROVE  \E o \in Objects : Gives(t, o)
  <2>1. t \in Below(Plain(order[next])) /\ Assign(Plain(order[next]), t)
    BY <1>3 DEF FillSlot, First
  <2>2. order \in Orders /\ next \in DOMAIN order
    BY <1>3 DEF FillSlot, AtSlot, Shuffled
  <2> QED
    BY <2>1, <2>2, ShuffledSlot DEF Gives, Assign, Below
<1>4. ASSUME NEW t \in Teams, BalanceSlot(t)
      PROVE  \E o \in Objects : Gives(t, o)
  <2>1. t \in Open(Plain(order[next])) /\ Assign(Plain(order[next]), t)
    BY <1>4 DEF BalanceSlot, First
  <2>2. order \in Orders /\ next \in DOMAIN order
    BY <1>4 DEF BalanceSlot, AtSlot, Shuffled
  <2> QED
    BY <2>1, <2>2, ShuffledSlot DEF Gives, Assign, Open
<1>5. CASE \/ \E t \in Teams : PassTurn(t)
           \/ LeaveSlot \/ GiveUpSlot \/ UNCHANGED vars
  BY <1>5 DEF PassTurn, LeaveSlot, GiveUpSlot, vars
<1> QED
  BY <1>1, <1>2, <1>3, <1>4, <1>5 DEF Next

LEMMA Grows ==
    ASSUME TypeOK, Shuffled, [Next]_vars, NEW t \in Teams
    PROVE  mine[t] \subseteq mine'[t]
<1>1. CASE mine' = mine
  BY <1>1
<1>2. ASSUME NEW s \in Teams, NEW o \in Objects, Gives(s, o)
      PROVE  mine[t] \subseteq mine'[t]
  BY <1>2 DEF Gives, TypeOK
<1> QED
  BY <1>1, <1>2, GiveOrKeep

-----------------------------------------------------------------------------
(* Types.                                                                  *)

TypeInv == TypeOK /\ Shuffled

LEMMA SortedType == Sorted \in [Teams -> Nat]
<1>1. ASSUME NEW t \in Teams
      PROVE  Cardinality({s \in Teams : \/ Load(s) < Load(t)
                                        \/ Load(s) = Load(t) /\ rank[s] < rank[t]}) \in Nat
  <2> DEFINE ahead == {s \in Teams : \/ Load(s) < Load(t)
                                     \/ Load(s) = Load(t) /\ rank[s] < rank[t]}
  <2>1. ahead \subseteq Teams
    OBVIOUS
  <2>2. IsFiniteSet(ahead)
    BY <2>1, TeamsAssumption, FS_Subset
  <2> QED
    BY <2>2, FS_CardinalityType
<1> QED
  BY <1>1 DEF Sorted

LEMMA SomeTeam == Cardinality(Teams) \in Nat /\ (Teams # {} => 0 < Cardinality(Teams))
  BY TeamsAssumption, FS_CardinalityType, FS_EmptySet

LEMMA TypeInit == Init => TypeInv
<1> SUFFICES ASSUME Init PROVE TypeInv
  OBVIOUS
<1>1. Cardinality(Teams) \in Nat /\ (Teams # {} => 0 < Cardinality(Teams))
  BY SomeTeam
<1>2. mine \in [Teams -> SUBSET Objects]
  BY DEF Init, StoredObjects, Plain, Objects
<1>3. rank \in [Teams -> Nat]
  BY <1>1 DEF Init
<1> QED
  BY <1>1, <1>2, <1>3 DEF Init, TypeInv, TypeOK, Shuffled

\* Where the passes are.
LoopOK ==
    /\ order \in Orders \union {<<>>}
    /\ todo \subseteq Slots
    /\ pc \in {"start", "rounds", "remaining", "still", "endless", "done"}
    /\ round \in Nat /\ next \in Nat
    /\ turn \in Nat /\ (Teams # {} => turn < Cardinality(Teams))
    /\ Shuffled

LEMMA TypeStep == TypeInv /\ [Next]_vars => TypeInv'
<1> SUFFICES ASSUME TypeInv, [Next]_vars PROVE TypeInv'
  OBVIOUS
<1> USE DEF TypeInv
<1>1. mine' \in [Teams -> SUBSET Objects]
  BY GiveOrKeep DEF Gives, TypeOK
<1>2. wish' = wish
  BY DEF Next, Shuffle, GrantWish, PassTurn, FillSlot, LeaveSlot, BalanceSlot,
         GiveUpSlot, vars
<1>3. rank' \in [Teams -> Nat]
  BY SortedType DEF TypeOK, Next, Shuffle, GrantWish, PassTurn, FillSlot, LeaveSlot,
         BalanceSlot, GiveUpSlot, SortTeams, vars
<1>4. LoopOK'
  <2> USE DEF LoopOK
  <2>1. CASE Shuffle
    BY <2>1 DEF Shuffle, FirstPass, Vacant, TypeOK, Shuffled
  <2>2. ASSUME NEW t \in Teams, GrantWish(t) \/ PassTurn(t)
        PROVE  LoopOK'
    BY <2>2, SomeTeam DEF GrantWish, PassTurn, NextTurn, Vacant, TypeOK, Shuffled
  <2>3. ASSUME NEW t \in Teams, FillSlot(t) \/ BalanceSlot(t)
        PROVE  LoopOK'
    BY <2>3 DEF FillSlot, BalanceSlot, NextSlot, AtSlot, Vacant, TypeOK, Shuffled
  <2>4. CASE LeaveSlot \/ GiveUpSlot
    BY <2>4 DEF LeaveSlot, GiveUpSlot, NextSlot, AtSlot, Vacant, TypeOK, Shuffled
  <2>5. CASE UNCHANGED vars
    BY <2>5 DEF vars, TypeOK, Shuffled
  <2> QED
    BY <2>1, <2>2, <2>3, <2>4, <2>5 DEF Next
<1> QED
  BY <1>1, <1>2, <1>3, <1>4 DEF TypeOK, LoopOK

\* In every proposal the lists, the array and the loop variables are well typed.
THEOREM ProposalTypeCorrect == Spec => []TypeOK
<1>1. Spec => []TypeInv
  BY TypeInit, TypeStep, PTL DEF Spec
<1>2. TypeInv => TypeOK
  BY DEF TypeInv
<1> QED
  BY <1>1, <1>2, PTL

-----------------------------------------------------------------------------
(* Two events of one team, one event of two teams.                         *)

\* No event object is in the lists of two teams.
OneTeam == \A s, t \in Teams : s # t => mine[s] \intersect mine[t] = {}

Apart == OnceADay /\ OneTeam

LEMMA ApartInit == Init => Apart
<1> SUFFICES ASSUME Init PROVE Apart
  OBVIOUS
<1>1. mine \in [Teams -> SUBSET StoredObjects]
  BY DEF Init
<1>2. OnceADay
  BY <1>1 DEF OnceADay
<1>3. OneTeam
  BY DEF Init, OneTeam
<1> QED
  BY <1>2, <1>3 DEF Apart

\* The object given is new to every team and on a day new to its own.
LEMMA ApartStep == TypeInv /\ Apart /\ [Next]_vars => Apart'
<1> SUFFICES ASSUME TypeInv, Apart, [Next]_vars PROVE Apart'
  OBVIOUS
<1>1. CASE mine' = mine
  BY <1>1 DEF Apart, OnceADay, OneTeam
<1>2. ASSUME NEW g \in Teams, NEW o \in Objects, Gives(g, o)
      PROVE  Apart'
  <2>1. \A t \in Teams : o \notin mine[t]
    BY <1>2 DEF Gives, Conflict, Taken
  <2>2. \A m \in mine[g] : DayOf(m) # DayOf(o)
    BY <1>2 DEF Gives, Conflict
  <2>3. /\ \A t \in Teams : mine'[t] = IF t = g THEN mine[t] \union {o} ELSE mine[t]
        /\ \A t \in Teams : \A m \in mine'[t] : m \in mine[t] \/ (m = o /\ t = g)
    BY <1>2 DEF Gives, TypeInv, TypeOK
  <2>4. OnceADay'
    <3> SUFFICES ASSUME NEW t \in Teams, NEW a \in mine'[t], NEW b \in mine'[t],
                        a # b, a \notin StoredObjects
                 PROVE  DayOf(a) # DayOf(b)
      BY DEF OnceADay, StoredObjects, Plain, DayOf
    <3>1. CASE a \in mine[t] /\ b \in mine[t]
      BY <3>1 DEF Apart, OnceADay
    <3>2. CASE a = o
      <4>1. t = g /\ b \in mine[g]
        BY <3>2, <2>1, <2>3
      <4> QED
        BY <4>1, <3>2, <2>2
    <3>3. CASE b = o
      <4>1. t = g /\ a \in mine[g]
        BY <3>3, <2>1, <2>3
      <4> QED
        BY <4>1, <3>3, <2>2
    <3> QED
      BY <3>1, <3>2, <3>3, <2>3
  <2>5. OneTeam'
    BY <2>1, <2>3 DEF Apart, OneTeam
  <2> QED
    BY <2>4, <2>5 DEF Apart
<1> QED
  BY <1>1, <1>2, GiveOrKeep DEF TypeInv

LEMMA ApartAlways == Spec => []Apart
<1>1. Init => TypeInv /\ Apart
  BY TypeInit, ApartInit
<1>2. (TypeInv /\ Apart) /\ [Next]_vars => (TypeInv /\ Apart)'
  BY TypeStep, ApartStep
<1> QED
  BY <1>1, <1>2, PTL DEF Spec

\* For any number of teams and slots, any wishes and any shuffle, no team is given
\* two events of one day, objects of wishes included.
THEOREM NeverTwiceADay == Spec => []OnceADay
<1>1. Apart => OnceADay
  BY DEF Apart
<1> QED
  BY <1>1, ApartAlways, PTL

-----------------------------------------------------------------------------
(* Slots that stay without a team.                                         *)

Blocked(e) == \/ Taken(Plain(e))
              \/ \A t \in Teams : \E m \in mine[t] : DayOf(m) = Day[e]

\* The last pass leaves every slot it is through with taken or blocked.
Settled ==
    /\ pc = "still" => \A e \in Slots \ todo : Taken(Plain(e))
    /\ pc = "still" => \A i \in DOMAIN order : i < next => Blocked(order[i])
    /\ pc = "done" => \A e \in Slots : Blocked(e)

LEMMA BlockedStays ==
    ASSUME TypeInv, [Next]_vars, NEW e, Blocked(e)
    PROVE  Blocked(e)'
<1>1. \A t \in Teams : mine[t] \subseteq mine'[t]
  BY Grows DEF TypeInv
<1>2. CASE Taken(Plain(e))
  BY <1>1, <1>2 DEF Blocked, Taken
<1>3. CASE \A t \in Teams : \E m \in mine[t] : DayOf(m) = Day[e]
  <2>1. \A t \in Teams : \E m \in mine'[t] : DayOf(m) = Day[e]
    BY <1>1, <1>3
  <2> QED
    BY <2>1 DEF Blocked, DayOf
<1> QED
  BY <1>2, <1>3 DEF Blocked

\* Either way the slot at hand is settled.
LEMMA SlotSettled ==
    ASSUME TypeInv, Settled, [Next]_vars, NEW e \in Slots, e = order[next],
           \/ \E t \in Teams : BalanceSlot(t)
           \/ GiveUpSlot
    PROVE  Blocked(e)'
<1>1. ASSUME NEW t \in Teams, BalanceSlot(t)
      PROVE  Taken(Plain(e))'
  <2>1. mine' = [mine EXCEPT ![t] = @ \union {Plain(e)}]
    BY <1>1 DEF BalanceSlot, Assign
  <2>2. Plain(e) \in mine'[t]
    BY <2>1 DEF TypeInv, TypeOK
  <2> QED
    BY <2>2 DEF Taken, Plain
<1>2. CASE GiveUpSlot
  <2>1. Taken(Plain(e)) \/ \A t \in Teams : Conflict(Plain(e), t)
    BY <1>2 DEF GiveUpSlot, AtSlot, Open, Settled
  <2>2. DayOf(Plain(e)) = Day[e]
    BY DEF DayOf, Plain
  <2>3. Blocked(e)
    BY <2>1, <2>2 DEF Conflict, Blocked
  <2> QED
    BY <2>3, BlockedStays
<1> QED
  BY <1>1, <1>2 DEF Blocked

LEMMA SettledStep == TypeInv /\ Settled /\ [Next]_vars => Settled'
<1> SUFFICES ASSUME TypeInv, Settled, [Next]_vars PROVE Settled'
  OBVIOUS
<1>1. CASE Shuffle
  BY <1>1 DEF Shuffle, FirstPass, Settled
<1>2. ASSUME NEW t \in Teams, GrantWish(t) \/ PassTurn(t)
      PROVE  Settled'
  BY <1>2 DEF GrantWish, PassTurn, NextTurn, Settled
\* The last pass starts at the front of the array.
<1>3. CASE (\E t \in Teams : FillSlot(t)) \/ LeaveSlot
  <2>1. order' = order /\ order \in Orders /\ next \in DOMAIN order
    BY <1>3 DEF FillSlot, LeaveSlot, AtSlot, TypeInv, Shuffled
  <2>2. order \in Seq(Slots)
    BY <2>1, OrdersAssumption
  <2>3. pc' # "done" /\ (pc' = "still" => next' = 1 /\ todo' = Vacant')
    BY <1>3 DEF FillSlot, LeaveSlot, AtSlot, NextSlot
  <2>5. pc' = "still" => \A e \in Slots \ todo' : Taken(Plain(e))'
    BY <2>3 DEF Vacant
  <2>4. \A i \in DOMAIN order : ~(i < 1)
    BY <2>2
  <2> QED
    BY <2>1, <2>3, <2>4, <2>5 DEF Settled
<1>4. CASE (\E t \in Teams : BalanceSlot(t)) \/ GiveUpSlot
  <2>1. /\ order' = order /\ order \in Orders /\ next \in DOMAIN order
        /\ order[next] \in Slots /\ pc = "still"
    BY <1>4, ShuffledSlot DEF BalanceSlot, GiveUpSlot, AtSlot, TypeInv, Shuffled
  <2>2. order \in Seq(Slots) /\ {order[i] : i \in DOMAIN order} = Slots
    BY <2>1, OrdersAssumption
  <2>3. ASSUME NEW i \in DOMAIN order, i <= next, NEW e, e = order[i]
        PROVE  Blocked(e)'
    <3>1. CASE i = next
      BY <3>1, <2>3, <1>4, <2>1, SlotSettled
    <3>2. CASE i < next
      BY <3>2, <2>3, <2>1, BlockedStays DEF Settled
    <3> QED
      BY <3>1, <3>2, <2>1, <2>2, <2>3
  <2>4. CASE next < Len(order)
    <3>1. next' = next + 1 /\ pc' = "still" /\ todo' = todo
      BY <1>4, <2>1, <2>4 DEF BalanceSlot, GiveUpSlot, NextSlot
    <3>4. \A e \in Slots \ todo : Taken(Plain(e)) /\ Taken(Plain(e))'
      <4>1. \A s \in Teams : mine[s] \subseteq mine'[s]
        BY Grows DEF TypeInv
      <4>2. \A e \in Slots \ todo : Taken(Plain(e))
        BY <2>1 DEF Settled
      <4> QED
        BY <4>1, <4>2 DEF Taken, Plain
    <3>2. \A i \in DOMAIN order : i < next + 1 => i <= next
      BY <2>1, <2>2
    <3>3. ASSUME NEW i \in DOMAIN order', i < next'
          PROVE  Blocked(order[i])'
      <4>1. i \in DOMAIN order /\ i <= next /\ order'[i] = order[i]
        BY <3>3, <3>1, <3>2, <2>1
      <4>2. \A e : e = order[i] => Blocked(e)'
        BY <4>1, <2>3
      <4> QED
        BY <4>1, <4>2
    <3> QED
      BY <3>1, <3>3, <3>4 DEF Settled
  <2>5. CASE ~(next < Len(order))
    <3>1. pc' = "done"
      BY <1>4, <2>5 DEF BalanceSlot, GiveUpSlot, NextSlot
    <3>2. \A i \in DOMAIN order : i <= next
      BY <2>1, <2>2, <2>5
    <3>3. ASSUME NEW e \in Slots
          PROVE  Blocked(e)'
      <4>1. PICK i \in DOMAIN order : e = order[i]
        BY <2>2
      <4>2. i <= next
        BY <3>2
      <4> QED
        BY <4>1, <4>2, <2>3
    <3>4. \A e \in Slots : Blocked(e)'
      BY <3>3
    <3> QED
      BY <3>1, <3>4 DEF Settled
  <2> QED
    BY <2>4, <2>5
<1>5. CASE UNCHANGED vars
  BY <1>5 DEF vars, Settled, Blocked, Taken
<1> QED
  BY <1>1, <1>2, <1>3, <1>4, <1>5 DEF Next

\* A slot is only left without a team when every team has something on its day,
\* were it the object of its own wish.
THEOREM LeftOverIsBlocked == Spec => []LeftIsBlocked
<1>1. Init => TypeInv /\ Settled
  BY TypeInit DEF Init, Settled
<1>2. (TypeInv /\ Settled) /\ [Next]_vars => (TypeInv /\ Settled)'
  BY TypeStep, SettledStep
<1>3. Settled => LeftIsBlocked
  BY DEF Settled, Blocked, LeftIsBlocked
<1> QED
  BY <1>1, <1>2, <1>3, PTL DEF Spec

-----------------------------------------------------------------------------
(* What a slot without a team costs.                                       *)

LEMMA FiniteLists ==
    ASSUME TypeOK
    PROVE  IsFiniteSet(UNION {mine[t] : t \in Teams})
<1>1. IsFiniteSet(Teams \union {NoTeam}) /\ IsFiniteSet(Slots \union Stored)
  BY TeamsAssumption, SlotsAssumption, FS_AddElement, FS_Union
<1>2. IsFiniteSet(Objects)
  BY <1>1, FS_Product DEF Objects
<1>3. UNION {mine[t] : t \in Teams} \subseteq Objects
  BY DEF TypeOK
<1> QED
  BY <1>2, <1>3, FS_Subset

\* Of a day on which a slot is left every team holds an object, and no two the same one;
\* those that are slots of the proposal are not among the ones left.
LEMMA CountTheDay ==
    ASSUME TypeOK, Apart, NEW d, NEW left, left = {e \in Vacant : Day[e] = d},
           \A t \in Teams : \E m \in mine[t] : DayOf(m) = d,
           NEW other,
           other = {o \in UNION {mine[t] : t \in Teams} :
                      DayOf(o) = d /\ o \notin {Plain(e) : e \in Slots}}
    PROVE  Cardinality(left) + Cardinality(Teams)
             <= Cardinality({e \in Slots : Day[e] = d}) + Cardinality(other)
<1> DEFINE all   == UNION {mine[t] : t \in Teams}
           onDay == {o \in all : DayOf(o) = d}
           plain == {o \in onDay : o \in {Plain(e) : e \in Slots}}
           slots == {e \in Slots : Day[e] = d}
           hold  == [t \in Teams |-> CHOOSE m \in mine[t] : DayOf(m) = d]
           event == [o \in plain |-> o[2]]
<1>1. IsFiniteSet(onDay) /\ IsFiniteSet(plain) /\ IsFiniteSet(other)
  BY FiniteLists, FS_Subset, onDay \subseteq all, plain \subseteq all, other \subseteq all
<1>2. IsFiniteSet(slots) /\ left \subseteq slots /\ IsFiniteSet(left)
      /\ IsFiniteSet(slots \ left)
  <2>1. left \subseteq slots /\ slots \subseteq Slots /\ slots \ left \subseteq Slots
    BY DEF Vacant
  <2> QED
    BY <2>1, SlotsAssumption, FS_Subset
<1>3. Cardinality(Teams) <= Cardinality(onDay)
  <2>1. \A t \in Teams : hold[t] \in mine[t] /\ DayOf(hold[t]) = d
    OBVIOUS
  <2>2. hold \in [Teams -> onDay]
    BY <2>1
  <2>3. \A s, t \in Teams : hold[s] = hold[t] => s = t
    BY <2>1 DEF Apart, OneTeam
  <2>4. hold \in Injection(Teams, onDay)
    <3> HIDE DEF hold, onDay
    <3> QED  BY <2>2, <2>3 DEF Injection, IsInjective
  <2> QED
    BY <1>1, <2>4, TeamsAssumption, FS_Injection
<1>4. Cardinality(plain) <= Cardinality(slots \ left)
  <2>1. ASSUME NEW o \in plain
        PROVE  o = <<NoTeam, o[2]>> /\ o[2] \in slots \ left
    <3>1. PICK e \in Slots : o = <<NoTeam, e>>
      BY DEF Plain
    <3>2. o[2] = e
      BY <3>1
    <3>3. Day[e] = d
      BY <3>2 DEF DayOf
    <3>4. Taken(Plain(e))
      BY <3>1 DEF Taken, Plain
    <3> QED
      BY <3>1, <3>2, <3>3, <3>4 DEF Vacant
  <2>2. event \in [plain -> slots \ left] /\ \A o \in plain : event[o] = o[2]
    BY <2>1
  <2>3. \A o, p \in plain : event[o] = event[p] => o = p
    BY <2>1, <2>2
  <2>4. event \in Injection(plain, slots \ left)
    <3> HIDE DEF event, plain, slots
    <3> QED  BY <2>2, <2>3 DEF Injection, IsInjective
  <2> QED
    BY <1>1, <1>2, <2>4, FS_Injection
<1>5. Cardinality(slots \ left) = Cardinality(slots) - Cardinality(left)
  <2>1. slots \intersect left = left
    BY <1>2
  <2>2. Cardinality(slots \ left) = Cardinality(slots) - Cardinality(slots \intersect left)
    <3>1. IsFiniteSet(slots)
      BY <1>2
    <3> HIDE DEF slots
    <3> QED
      BY <3>1, FS_Difference
  <2> QED
    BY <2>1, <2>2
<1>6. Cardinality(onDay) <= Cardinality(plain) + Cardinality(other)
  <2>1. onDay = plain \union other
    OBVIOUS
  <2>2. IsFiniteSet(plain \intersect other)
    BY <1>1, FS_Intersection
  <2>3. Cardinality(plain \intersect other) \in Nat
    BY <2>2, FS_CardinalityType
  <2>4. Cardinality(plain) \in Nat /\ Cardinality(other) \in Nat
    BY <1>1, FS_CardinalityType
  <2>5. Cardinality(plain \union other)
          = Cardinality(plain) + Cardinality(other) - Cardinality(plain \intersect other)
    BY <1>1, FS_Union
  <2> HIDE DEF onDay, plain
  <2> QED
    BY <2>1, <2>3, <2>4, <2>5
<1>7. /\ Cardinality(Teams) \in Nat /\ Cardinality(onDay) \in Nat
      /\ Cardinality(plain) \in Nat /\ Cardinality(other) \in Nat
      /\ Cardinality(slots) \in Nat /\ Cardinality(left) \in Nat
  BY <1>1, <1>2, TeamsAssumption, FS_CardinalityType
<1> HIDE DEF onDay, plain, hold, event
<1> QED
  BY <1>3, <1>4, <1>5, <1>6, <1>7

\* For any teams, slots, wishes and shuffle: a day has slots left over only for want of
\* teams, or for the objects of granted wishes and of events that were there before.
THEOREM LeftForWant == Spec => []LeftForWishes
<1>1. Apart /\ TypeOK /\ LeftIsBlocked => LeftForWishes
  <2> SUFFICES ASSUME Apart, TypeOK, LeftIsBlocked, pc = "done", NEW d \in Days,
                      NEW e \in Vacant, Day[e] = d
               PROVE  LET left  == {x \in Vacant : Day[x] = d}
                          other == {o \in UNION {mine[t] : t \in Teams} :
                                      DayOf(o) = d /\ o \notin {Plain(x) : x \in Slots}}
                      IN Cardinality(left) + Cardinality(Teams)
                           <= Cardinality({x \in Slots : Day[x] = d}) + Cardinality(other)
    BY DEF LeftForWishes
  <2>1. e \in Slots /\ ~Taken(Plain(e))
    BY DEF Vacant
  <2>2. \A t \in Teams : \E m \in mine[t] : DayOf(m) = d
    BY <2>1 DEF LeftIsBlocked
  <2> QED
    BY <2>2, CountTheDay
<1> QED
  BY <1>1, ApartAlways, ProposalTypeCorrect, LeftOverIsBlocked, PTL

-----------------------------------------------------------------------------
(* The quota.                                                              *)

LEMMA QuotaType == ASSUME Teams # {} PROVE Quota \in Nat
<1> DEFINE k == Cardinality(Slots)
           n == Cardinality(Teams)
<1>1. k \in Nat /\ n \in Nat /\ 0 < n
  BY SomeTeam, SlotsAssumption, FS_CardinalityType
<1> HIDE DEF k, n
<1>2. (2 * k + n) \div (2 * n) \in Nat
  <2>1. 2 * k + n \in Nat /\ 2 * n \in Nat /\ 2 * n > 0
    BY <1>1
  <2>2. ASSUME NEW a \in Nat, NEW b \in Nat, b > 0 PROVE a \div b \in Nat
    BY <2>2
  <2> QED  BY <2>1, <2>2
<1> QED  BY <1>2 DEF Quota, k, n

LEMMA LoadType ==
    ASSUME TypeOK, NEW t \in Teams
    PROVE  Load(t) \in Nat
<1>1. IsFiniteSet(Teams \union {NoTeam}) /\ IsFiniteSet(Slots \union Stored)
  BY TeamsAssumption, SlotsAssumption, FS_AddElement, FS_Union
<1>2. IsFiniteSet(Objects)
  BY <1>1, FS_Product DEF Objects
<1>3. mine[t] \in SUBSET Objects
  BY DEF TypeOK
<1> QED
  BY <1>2, <1>3, FS_Subset, FS_CardinalityType DEF Load

\* The sort puts a team with fewer events before one with more.
LEMMA SortedByLoad ==
    ASSUME TypeOK, NEW s \in Teams, NEW t \in Teams, Load(s) < Load(t)
    PROVE  Sorted[s] < Sorted[t]
<1> DEFINE ahead(x) == {y \in Teams : \/ Load(y) < Load(x)
                                      \/ Load(y) = Load(x) /\ rank[y] < rank[x]}
<1>1. \A x \in Teams : Load(x) \in Nat /\ rank[x] \in Nat
  BY LoadType DEF TypeOK
<1>2. ahead(s) \subseteq ahead(t) /\ s \in ahead(t) /\ s \notin ahead(s)
  BY <1>1
<1>3. IsFiniteSet(ahead(t)) /\ IsFiniteSet(ahead(s))
  BY TeamsAssumption, FS_Subset
<1>4. /\ Cardinality(ahead(s)) \in Nat /\ Cardinality(ahead(t)) \in Nat
      /\ Cardinality(ahead(s)) <= Cardinality(ahead(t))
      /\ Cardinality(ahead(s)) # Cardinality(ahead(t))
  BY <1>2, <1>3, FS_Subset, FS_CardinalityType
<1> QED
  BY <1>4 DEF Sorted

\* Nobody goes above the quota while a team below it could take the event.
THEOREM QuotaComesFirst == Spec => OverQuotaForced
<1> DEFINE Forced == \A t \in Teams : \A o \in mine'[t] \ mine[t] :
                        Full(t) => \A s \in Teams : Full(s) \/ Conflict(o, s)
<1>1. TypeInv /\ [Next]_vars => Forced
  <2> SUFFICES ASSUME TypeInv, [Next]_vars, NEW t \in Teams, NEW o \in mine'[t] \ mine[t],
                      Full(t), NEW s \in Teams, ~Conflict(o, s)
               PROVE  Full(s)
    OBVIOUS
  <2>1. \A r \in Teams : Load(r) \in Nat
    BY LoadType DEF TypeInv
  <2>2. ASSUME NEW r \in Teams, GrantWish(r) \/ FillSlot(r)
        PROVE  FALSE
    <3>1. ~Full(r)
      BY <2>2 DEF GrantWish, MayWish, FillSlot, First, Below
    <3>2. mine'[t] # mine[t] => t = r
      BY <2>2 DEF GrantWish, FillSlot, Assign, TypeInv, TypeOK
    <3> QED
      BY <3>1, <3>2
  <2>3. ASSUME NEW r \in Teams, BalanceSlot(r)
        PROVE  Full(s)
    <3>1. mine' = [mine EXCEPT ![r] = @ \union {Plain(order[next])}]
      BY <2>3 DEF BalanceSlot, Assign
    <3>2. t = r /\ o = Plain(order[next])
      BY <3>1 DEF TypeInv, TypeOK
    <3>3. rank' = Sorted
      BY <2>3 DEF BalanceSlot, SortTeams
    <3>4. rank'[t] <= rank'[s]
      BY <2>3, <3>2 DEF BalanceSlot, First, Open
    <3>5. ~(Load(s) < Load(t))
      <4>1. Sorted[s] \in Nat /\ Sorted[t] \in Nat
        BY SortedType
      <4> QED
        BY <3>3, <3>4, <4>1, SortedByLoad DEF TypeInv
    <3>6. Quota \in Int
      BY QuotaType
    <3> QED
      BY <3>5, <3>6, <2>1 DEF Full
  <2>4. CASE \/ Shuffle \/ LeaveSlot \/ GiveUpSlot
             \/ (\E r \in Teams : PassTurn(r)) \/ UNCHANGED vars
    BY <2>4 DEF Shuffle, LeaveSlot, GiveUpSlot, PassTurn, vars
  <2> QED
    BY <2>2, <2>3, <2>4 DEF Next
<1>2. TypeInv /\ [Next]_vars => [Forced]_vars
  BY <1>1
<1> QED
  BY <1>2, TypeInit, TypeStep, PTL DEF Spec, OverQuotaForced

-----------------------------------------------------------------------------
(* With teams to divide over, there is a next step until the end.         *)

\* Where the loops stand.
PassInv ==
    /\ pc \in {"rounds", "remaining", "still"} => Slots # {} /\ Teams # {}
    /\ pc \in {"start", "rounds"} =>
         /\ next = 1
         /\ rank \in [Teams -> 0 .. Cardinality(Teams) - 1]
         /\ \A s, t \in Teams : s # t => rank[s] # rank[t]
    /\ pc = "start" => round = 0
    /\ pc = "rounds" => round < Quota
    /\ pc \in {"remaining", "still"} => next \in DOMAIN order

LEMMA SlotsInOrder ==
    ASSUME order \in Orders, Slots # {}
    PROVE  Len(order) \in Nat /\ 1 <= Len(order) /\ DOMAIN order = 1 .. Len(order)
<1>1. order \in Seq(Slots) /\ {order[i] : i \in DOMAIN order} = Slots
  BY OrdersAssumption
<1>2. DOMAIN order # {}
  BY <1>1
<1> QED  BY <1>1, <1>2

LEMMA PassStep == TypeInv /\ PassInv /\ [Next]_vars => PassInv'
<1> SUFFICES ASSUME TypeInv, PassInv, [Next]_vars PROVE PassInv'
  OBVIOUS
<1>1. order \in Orders /\ Slots # {} => Len(order) \in Nat /\ 1 <= Len(order)
                                         /\ DOMAIN order = 1 .. Len(order)
  BY SlotsInOrder
<1>2. (Teams # {} => Quota \in Nat) /\ round \in Nat /\ next \in Nat
  BY QuotaType DEF TypeInv, TypeOK
<1>3. CASE Shuffle
  <2>1. /\ pc = "start" /\ pc' = FirstPass /\ order' \in Orders
        /\ UNCHANGED <<rank, round, next>>
    BY <1>3 DEF Shuffle
  <2>2. Slots # {} => 1 \in DOMAIN order'
    <3>1. ASSUME NEW o \in Orders, Slots # {} PROVE 1 \in DOMAIN o
      <4>1. o \in Seq(Slots) /\ {o[i] : i \in DOMAIN o} = Slots
        BY OrdersAssumption
      <4>2. DOMAIN o # {}
        BY <3>1, <4>1
      <4> QED  BY <4>1, <4>2
    <3> QED  BY <2>1, <3>1
  <2> QED  BY <1>2, <2>1, <2>2 DEF PassInv, FirstPass
<1>4. ASSUME NEW t \in Teams, GrantWish(t) \/ PassTurn(t) PROVE PassInv'
  <2>1. /\ pc = "rounds" /\ NextTurn /\ UNCHANGED <<order, rank, next>>
        /\ order \in Orders /\ Slots # {} /\ next = 1
    BY <1>4 DEF GrantWish, PassTurn, PassInv, TypeInv, Shuffled
  <2>2. 1 \in DOMAIN order
    BY <1>1, <2>1
  <2> QED  BY <1>2, <2>1, <2>2 DEF PassInv, NextTurn
<1>5. ASSUME \/ (\E t \in Teams : FillSlot(t) \/ BalanceSlot(t))
             \/ LeaveSlot \/ GiveUpSlot
      PROVE  PassInv'
  <2>1. /\ pc \in {"remaining", "still"} /\ next \in DOMAIN order /\ order' = order
        /\ \/ next < Len(order) /\ next' = next + 1 /\ pc' = pc
           \/ next' = 1 /\ pc' \in {"still", "done"}
    BY <1>5 DEF FillSlot, BalanceSlot, LeaveSlot, GiveUpSlot, AtSlot, NextSlot
  <2>2. order \in Orders /\ Slots # {}
    BY <2>1 DEF PassInv, TypeInv, Shuffled
  <2>3. next' \in DOMAIN order
    BY <1>1, <1>2, <2>1, <2>2
  <2> QED  BY <2>1, <2>2, <2>3 DEF PassInv
<1>6. CASE UNCHANGED vars
  BY <1>6 DEF vars, PassInv
<1> QED  BY <1>3, <1>4, <1>5, <1>6 DEF Next

LEMMA PassAlways == Spec => [](TypeInv /\ PassInv)
<1>1. Init => PassInv
  BY DEF Init, PassInv
<1>2. (TypeInv /\ PassInv) /\ [Next]_vars => (TypeInv /\ PassInv)'
  BY TypeStep, PassStep
<1> QED  BY <1>1, <1>2, TypeInit, PTL DEF Spec

-----------------------------------------------------------------------------
LEMMA SmallestNat ==
    ASSUME NEW T, T \subseteq Nat, T # {}
    PROVE  \E x \in T : \A y \in T : x <= y
<1> DEFINE less == OpToRel(<, Nat)
<1>1. IsWellFoundedOn(less, Nat)
  BY NatLessThanWellFounded
<1>2. \A x, y \in Nat : x < y => <<x, y>> \in less
  BY DEF OpToRel
<1> HIDE DEF less
<1>3. PICK x \in T : \A y \in T : ~ (<<y, x>> \in less)
  BY <1>1, WFMin
<1>4. \A y \in T : x \in Nat /\ y \in Nat /\ ~(y < x)
  BY <1>2, <1>3, Zenon
<1>5. \A y \in T : x <= y
  BY <1>4
<1> QED  BY <1>5

\* Some team comes first.
LEMMA SomeFirst ==
    ASSUME NEW place \in [Teams -> Nat], NEW among \in SUBSET Teams, among # {}
    PROVE  \E t \in Teams : First(t, among, place)
<1> DEFINE places == {place[t] : t \in among}
<1>1. places \subseteq Nat /\ places # {}
  OBVIOUS
<1>2. PICK x \in places : \A y \in places : x <= y
  BY <1>1, SmallestNat
<1>3. PICK t \in among : place[t] = x
  BY <1>2
<1> QED  BY <1>2, <1>3 DEF First

\* Every turn is some team's.
LEMMA TurnIsTaken ==
    ASSUME TypeInv, PassInv, pc = "rounds"
    PROVE  \E t \in Teams : rank[t] = turn
<1> DEFINE n == Cardinality(Teams)
<1>1. n \in Nat /\ 0 < n /\ turn \in 0 .. n - 1
  BY SomeTeam DEF TypeInv, TypeOK, PassInv
<1>2. rank \in Injection(Teams, 0 .. n - 1)
  BY DEF PassInv, Injection, IsInjective
<1>3. IsFiniteSet(0 .. n - 1) /\ Cardinality(0 .. n - 1) = n
  BY <1>1, FS_Interval
<1>4. rank \in Surjection(Teams, 0 .. n - 1)
  BY <1>2, <1>3, FS_Injection
<1> QED  BY <1>1, <1>4 DEF Surjection

\* What the next step of each pass does, and that there is somebody to do it with.
GoesOn ==
    \/ \E t \in Teams :
         /\ pc = "rounds" /\ rank[t] = turn
         /\ MayWish(t) => \E i \in FreeWishes(t) : \A j \in FreeWishes(t) : i <= j
    \/ /\ AtSlot("remaining")
       /\ LET o == Plain(order[next]) IN
            order[next] \in todo =>
              Below(o) = {} \/ \E t \in Teams : First(t, Below(o), rank)
    \/ /\ AtSlot("still")
       /\ LET o == Plain(order[next]) IN
            order[next] \in todo =>
              Open(o) = {} \/ \E t \in Teams : First(t, Open(o), Sorted)

\* Between the shuffle and the end there is always a next step: a team whose turn it is,
\* a first wish of those it may have, a slot at hand and a first team of those it is for.
THEOREM NeverStuck == Spec => [](pc \notin {"start", "endless", "done"} => GoesOn)
<1>1. TypeInv /\ PassInv => (pc \notin {"start", "endless", "done"} => GoesOn)
  <2> SUFFICES ASSUME TypeInv, PassInv, pc \notin {"start", "endless", "done"} PROVE GoesOn
    OBVIOUS
  <2>1. rank \in [Teams -> Nat] /\ pc \in {"rounds", "remaining", "still"}
    BY DEF TypeInv, TypeOK
  <2>2. CASE pc = "rounds"
    <3>1. PICK t \in Teams : rank[t] = turn
      BY <2>2, TurnIsTaken
    <3>2. ASSUME MayWish(t)
          PROVE  \E i \in FreeWishes(t) : \A j \in FreeWishes(t) : i <= j
      <4>1. FreeWishes(t) # {}
        BY <3>2 DEF MayWish
      <4>2. FreeWishes(t) \subseteq Nat
        <5>1. wish[t] \in WishLists
          BY DEF TypeInv, TypeOK
        <5>2. PICK m \in 0 .. MaxWishes : wish[t] \in [1 .. m -> Wishable]
          BY <5>1 DEF WishLists
        <5> QED  BY <5>2 DEF FreeWishes
      <4> QED  BY <4>1, <4>2, SmallestNat
    <3> QED  BY <2>2, <3>1, <3>2 DEF GoesOn
  <2>3. CASE pc = "remaining"
    <3>1. AtSlot("remaining")
      BY <2>3 DEF AtSlot, PassInv
    <3>2. Below(Plain(order[next])) \in SUBSET Teams
      BY DEF Below
    <3> QED  BY <2>1, <3>1, <3>2, SomeFirst DEF GoesOn
  <2>4. CASE pc = "still"
    <3>1. AtSlot("still")
      BY <2>4 DEF AtSlot, PassInv
    <3>2. Open(Plain(order[next])) \in SUBSET Teams
      BY DEF Open
    <3>3. Open(Plain(order[next])) = {} \/
            \E t \in Teams : First(t, Open(Plain(order[next])), Sorted)
      BY <3>2, SortedType, SomeFirst
    <3> QED  BY <3>1, <3>3 DEF GoesOn
  <2> QED  BY <2>1, <2>2, <2>3, <2>4
<1> QED  BY <1>1, PassAlways, PTL
===============================================================================

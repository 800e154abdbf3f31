------------------------------ MODULE TeamHealth ------------------------------
(***************************************************************************)
(* What a team computes when it is loaded (team.entity.ts): the counts,    *)
(* the mean age and the four numbers of its health.  A score is a fraction *)
(* <<numerator, denominator>> between zero and one.                        *)
(***************************************************************************)
EXTENDS Naturals, FiniteSets

Zero == <<0, 1>>
One  == <<1, 1>>

Fraction(x)  == x[1] \in Nat /\ x[2] \in Nat \ {0} /\ x[1] <= x[2]
Less(x, y)   == x[1] * y[2] < y[1] * x[2]

\* Math.round of a / b, halves up.
Round(a, b) == (2 * a + b) \div (2 * b)

-----------------------------------------------------------------------------
\* getPeopleCountScore, of the number of members.
PeopleCountScore(n) ==
    IF n = 12 THEN One
    ELSE IF n <= 6 \/ n >= 18 THEN Zero
    ELSE IF n > 12 THEN <<10 - (n - 12), 10>>
    ELSE <<10 - (12 - n), 10>>

\* getAgeScore, of the members of fifty and over and of those under fifty whose date
\* of birth is known.
AgeScore(old, young) ==
    IF old = young THEN One
    ELSE IF old = 0 \/ young = 0 THEN Zero
    ELSE IF young < old THEN <<young, old>> ELSE <<old, young>>

\* getGenderScore, of a team of n.
GenderScore(females, males, n) ==
    IF females = males THEN One
    ELSE IF females = n \/ males = n THEN Zero
    ELSE IF females < males THEN <<females, males>> ELSE <<males, females>>

\* setMemberCount: members without market duty count as inactive.
ActiveMemberCount(users, duty, status) ==
    Cardinality({u \in users : duty[u] /\ status[u] = "active"})
InactiveMemberCount(users, duty, status) ==
    Cardinality(users) - ActiveMemberCount(users, duty, status)

\* setMeanAge: members without a date of birth add nothing and are counted.
MeanAge(users, total) == Round(total, Cardinality(users))

-----------------------------------------------------------------------------
\* getGenderCount, and the like for the other columns.
With(users, column, value) == {u \in users : column[u] = value}

\* getMeanCarryingCapacity: one member without a capacity makes the mean NaN, and
\* the team has none.
MeanCarryingCapacity(users, capacity, none) ==
    IF \E u \in users : capacity[u] = none THEN none
    ELSE LET total == Cardinality(With(users, capacity, "medium"))
                        + 2 * Cardinality(With(users, capacity, "high"))
         IN <<"low", "medium", "high">>[Round(total, Cardinality(users)) + 1]

-----------------------------------------------------------------------------
\* setHealth, for members of known gender and age group; a team without members has
\* no health.
Health(users, capacity, gender, age, none) ==
    IF users = {} THEN none
    ELSE [meanCarryingCapacity |-> MeanCarryingCapacity(users, capacity, none),
          ageDiversityScore    |-> AgeScore(Cardinality(With(users, age, "old")),
                                            Cardinality(With(users, age, "young"))),
          genderDiversityScore |-> GenderScore(Cardinality(With(users, gender, "female")),
                                               Cardinality(With(users, gender, "male")),
                                               Cardinality(users)),
          peopleCountScore     |-> PeopleCountScore(Cardinality(users))]

\* setMaleFemaleRatio, two numbers of which a colon makes a string.
MaleFemaleRatio(users, gender) ==
    <<Cardinality(With(users, gender, "male")), Cardinality(With(users, gender, "female"))>>
===============================================================================

------------------------------ MODULE MCAccounts ------------------------------
(* Model-checking instance of Accounts; the statements of team.entity.spec.ts. *)
EXTENDS Accounts, TLC

Symmetry == Permutations(Requests)

\* "should return higher rating the closer the member count is to 12", and the
\* other statements of team.entity.spec.ts, for every team of up to forty.
ASSUME CountScores ==
    \A m, n \in 0 .. 40 :
        LET away(k) == IF k > 12 THEN k - 12 ELSE 12 - k IN
          /\ Fraction(PeopleCountScore(n))
          /\ away(m) < away(n) /\ away(m) < 6
               => Less(PeopleCountScore(n), PeopleCountScore(m))
          /\ away(n) >= 6 => PeopleCountScore(n) = Zero
ASSUME RatioScores ==
    \A a, b \in 0 .. 12 :
        /\ AgeScore(a, b) = AgeScore(b, a)
        /\ AgeScore(a, b) = One <=> a = b
        /\ Less(AgeScore(a, a + b + 2), AgeScore(a, a + b + 1)) \/ a = 0
        /\ a + b > 0 => ~Less(GenderScore(a, b, a + b), AgeScore(a, b))
ASSUME MeanCapacities ==
    LET one == [u \in 1 .. 3 |-> IF u = 1 THEN "low" ELSE IF u = 2 THEN "medium" ELSE "high"] IN
      /\ MeanCarryingCapacity(1 .. 3, one, Null) = "medium"
      /\ MeanCarryingCapacity({1, 2}, one, Null) = "medium"
      /\ MeanCarryingCapacity({2, 3}, one, Null) = "high"
      /\ MeanAge({1, 2}, 45) = 23

\* A team of eight with three women and two members of fifty and over; and the team
\* that scheduling and the members' page show when it is empty.
ASSUME TeamOfEight ==
    LET team     == 1 .. 8
        capacity == [u \in team |-> IF u = 1 THEN "high" ELSE "medium"]
        gender   == [u \in team |-> IF u <= 3 THEN "female" ELSE "male"]
        age      == [u \in team |-> IF u <= 2 THEN "old" ELSE "young"]
    IN /\ Health(team, capacity, gender, age, Null)
            = [meanCarryingCapacity |-> "medium", ageDiversityScore |-> <<2, 6>>,
               genderDiversityScore |-> <<3, 5>>, peopleCountScore |-> <<6, 10>>]
       /\ MaleFemaleRatio(team, gender) = <<5, 3>>
       /\ Health({}, capacity, gender, age, Null) = Null
===============================================================================

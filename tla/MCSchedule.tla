------------------------------ MODULE MCSchedule ------------------------------
(* Model-checking instance of Schedule: a slot of one Saturday, and what is added to it. *)
EXTENDS Schedule, TLC

OneDay == [s \in Slots |-> 1]
Symmetry == Permutations(Teams) \union Permutations(Slots) \union Permutations(Plans)
              \union Permutations(Makers \ MadeAtStart)
===============================================================================

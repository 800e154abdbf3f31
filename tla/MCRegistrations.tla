--------------------------- MODULE MCRegistrations ---------------------------
(* Model-checking instances of Registrations: two market days in one year, one *)
(* in the next.                                                                *)
EXTENDS Registrations, TLC

CONSTANTS e1, e2, f1

TwoYears == (e1 :> 1) @@ (e2 :> 1) @@ (f1 :> 2)

Symmetry == Permutations(Leads) \union Permutations(Teams) \union Permutations(Submissions)
==============================================================================

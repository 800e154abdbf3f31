---------------------------- MODULE MCRsvpScore ----------------------------
(* Model-checking instances of RsvpScore. *)
EXTENDS RsvpScore, TLC

Symmetry == Permutations(Submits) \union Permutations(Users)
                \union Permutations(Events) \union Permutations(Batches)
                \union Permutations(Seeds)
============================================================================

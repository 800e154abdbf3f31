------------------------------ MODULE MCProposal ------------------------------
(* Model-checking instances of Proposal: numbered slots on a few days.  *)
EXTENDS Proposal, TLC

CONSTANT NSlots

\* Slots 1 .. NSlots fall on days 1, 1, 2, 3, ...; the stored event of the runs is
\* numbered 100 plus its day.
NumberedSlots == 1 .. NSlots
NumberedDay == [e \in NumberedSlots \union Stored |-> 
                  IF e > 100 THEN e - 100 ELSE IF e = 1 THEN 1 ELSE e - 1]

AllOrders == {[i \in NumberedSlots |-> p[i]] : p \in Permutations(NumberedSlots)}
===============================================================================

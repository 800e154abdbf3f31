------------------------------ MODULE MCMessages ------------------------------
(* Model-checking instance of Messages: two members, one market day. *)
EXTENDS Messages, TLC

CONSTANTS u1, u2, e1, t1

Positions == Requests \X Users \X (1 .. RowsPerMember)

\* Both in the team, or one of them a substitute.
TeamsOf == {[u \in Users |-> IF u = u1 THEN t ELSE t1] : t \in {t1, Null}}

Rsvp(k, u, a) == [n |-> k, user |-> u, event |-> e1, response |-> a]

\* No answers yet; one, and the row of the weekly job; an answer that is stored twice.
Tables == {{}, {Rsvp(1, u1, "yes"), Rsvp(1, u2, "unknown")},
           {Rsvp(1, u1, "yes"), Rsvp(2, u1, "yes"), Rsvp(1, u2, "unknown")}}
Answers == {Rsvp(1, u1, "no"), Rsvp(2, u1, "yes"), Rsvp(1, u2, "yes")}

===============================================================================

------------------------------ MODULE DedupRunMC ------------------------------
(* Three users: u1 is the oldest, u3 the youngest but linked to Salesforce, *)
(* so pickSurvivor prefers u3 to u1 to u2.  Of two pairs that share a user  *)
(* either both would have u2 lose, or u1 survives one and loses the other. *)
EXTENDS DedupRun

CONSTANTS u1, u2, u3

UsersMC == {u1, u2, u3}
SharedLoser == {{u1, u2}, {u2, u3}}
SharedSurvivor == {{u1, u2}, {u1, u3}}
SeniorityMC == [u \in UsersMC |-> IF u = u1 THEN 1 ELSE IF u = u2 THEN 2 ELSE 3]
=============================================================================

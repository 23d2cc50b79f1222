---------------------------- MODULE MCCommission ----------------------------
(***************************************************************************)
(* Two commissions of one partner: two requests for both, one for one of   *)
(* them, and one for the first commission on another partner's path.       *)
(***************************************************************************)
EXTENDS Commission

CONSTANTS a, b, both1, both2, one, stray, c1, c2, ka, kb

MCAccountOf == [r \in Request |-> IF r = stray THEN b ELSE a]
MCOwnerOf == [c \in Id |-> a]
MCIdsOf == [r \in Request |-> IF r \in {both1, both2} THEN {c1, c2} ELSE {c1}]
MCKeyOf == [r \in Request |-> IF r = stray THEN kb ELSE ka]

=============================================================================

------------------------------- MODULE MCOnus -------------------------------
(***************************************************************************)
(* Two callbacks of one transfer and one of another, for one account.  The *)
(* broker can pay one of the two transfers.                                *)
(***************************************************************************)
EXTENDS Onus

CONSTANTS first, again, other, n1, n2, a1

MCNumberOf == [c \in Callback |-> IF c = other THEN n2 ELSE n1]
MCAccountOf == [c \in Callback |-> a1]
MCAmount == [n \in Number |-> 2]

=============================================================================

-------------------------------- MODULE MCPool --------------------------------
(***************************************************************************)
(* A call of each of four methods on a pool that holds few eggs, any three *)
(* of which run: the claim may leave none.  A deposit has the statements   *)
(* of a withdrawal, with the other sign.  The moves of each value are such *)
(* that no two sets of them add up alike.                                  *)
(***************************************************************************)
EXTENDS Pool, TLC

CONSTANTS claim, buy, sell, withdraw

MCMethod == claim :> "claim" @@ buy :> "buy" @@ sell :> "sell"
                @@ withdraw :> "withdraw"
MCEgg == claim :> 1 @@ buy :> 0 @@ sell :> 2 @@ withdraw :> 8
MCBbc == claim :> 0 @@ buy :> 1 @@ sell :> 2 @@ withdraw :> 4
MCIsBbc == [c \in Call |-> TRUE]

\* Bounds: three calls, one refused statement.
MCThree ==
    /\ Cardinality({c \in Call : pc[c] # "new"}) <= 3
    /\ Cardinality({c \in Call : pc[c] = "failed"}) <= 1

=============================================================================

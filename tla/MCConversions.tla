--------------------------- MODULE MCConversions ---------------------------
(***************************************************************************)
(* Six conversions, two of them of one transaction; checks read in blocks  *)
(* of three.  Either two confirmed ones have a row and a third is on hold, *)
(* for any three of two runs that may insert it and two checks; or five    *)
(* have a row and the sixth is on hold, for a check that has two blocks to *)
(* read and a run that inserts.                                            *)
(***************************************************************************)
EXTENDS Conversions, TLC

MCConv == 1..6
MCTxOf == <<1, 1, 2, 3, 4, 5>>
MCFew == [known |-> {1, 2},
          at |-> <<"confirmed", "confirmed", "hold", "rejected", "rejected",
                   "rejected">>]
MCMany == [known |-> 1..5,
           at |-> <<"confirmed", "confirmed", "confirmed", "rejected",
                    "confirmed", "hold">>]
MCStart == {MCFew, MCMany}
MCSymmetry == Permutations(HoldRun) \cup Permutations(CheckRun)

\* Bounds on the runs that begin.
Begun(R) == Cardinality({r \in R : step[r] # "new"})
MCRuns ==
    IF at[5] = "rejected" THEN Begun(Run) <= 3
    ELSE Begun(HoldRun) <= 1 /\ Begun(CheckRun) <= 1

\* One conversion that is pending.
MCOne == {[MCFew EXCEPT !.known = {1}]}

=============================================================================

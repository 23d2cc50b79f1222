----------------------------- MODULE MCPayouts -----------------------------
(***************************************************************************)
(* What leaves the system: the commissions of partners as MCCommission has *)
(* them, or the exchange as MCExchange has it.  The two parts share no     *)
(* state and are tried one without the other.                              *)
(***************************************************************************)
EXTENDS MCCommission, MCExchange

MCInit == Init /\ ExchangeInit
MCNext == \/ ExchangeInit /\ Next /\ UNCHANGED exchangeVars
          \/ Init /\ ExchangeNext /\ UNCHANGED vars
MCSpec == MCInit /\ [][MCNext]_<<vars, exchangeVars>>

=============================================================================

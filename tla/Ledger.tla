------------------------------- MODULE Ledger -------------------------------
(***************************************************************************)
(* What the balances of cashback_available promise, whatever service       *)
(* writes them: a set of postings, each of which is added to the balance   *)
(* of its owner in one indivisible step, and never twice.                  *)
(***************************************************************************)
EXTENDS Integers

CONSTANTS
    Account,    \* owners of a balance
    Posting,    \* the credits that may be posted
    Owner,      \* [Posting -> Account]
    Value       \* [Posting -> Nat]

VARIABLES
    balance,    \* [Account -> Nat]
    posted      \* the postings made so far

vars == <<balance, posted>>

Init ==
    /\ balance = [a \in Account |-> 0]
    /\ posted = {}

Post(p) ==
    /\ p \notin posted
    /\ posted' = posted \cup {p}
    /\ balance' = [balance EXCEPT ![Owner[p]] = @ + Value[p]]

Next == \E p \in Posting : Post(p)

Spec == Init /\ [][Next]_vars

=============================================================================

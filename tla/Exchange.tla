------------------------------ MODULE Exchange ------------------------------
(***************************************************************************)
(* CashbackExchangeV3Service: a user changes cashback into VNDC at ONUS in *)
(* three calls: inquiry, verifyPasscode, submit.  A submit holds the money *)
(* in the wallet and one second later, in a timer, sends it off-chain.     *)
(*                                                                         *)
(* The gateway fixes the user, so there is one account and one balance.    *)
(* HOLD_BALANCE and REVERT_BALANCE have no handler in this repository: the *)
(* wallet's side is what this service expects of it (external), and an     *)
(* error is always a possible answer.  A token is named by the call that   *)
(* issues it: it is a salted hash.                                         *)
(***************************************************************************)
EXTENDS Integers, Sequences, FiniteSetsExt

CONSTANTS
    Inquiry,    \* calls of inquiry
    Verify,     \* calls of verifyPasscode
    Submit,     \* calls of submit
    InquiryOf,  \* [Verify -> Inquiry], whose token the call brings
    VerifyOf,   \* [Submit -> Verify]
    Amount,     \* [Inquiry -> Nat]
    Initial,    \* the balance at the start, all of it from SUCCESS rows
    MinHold     \* currency_limit_setting.min_hold; min and max admit Amount

ASSUME ExchangeAssumption ==
    /\ InquiryOf \in [Verify -> Inquiry]
    /\ VerifyOf \in [Submit -> Verify]
    /\ IsFiniteSet(Submit)
    /\ Amount \in [Inquiry -> Nat]
    /\ Initial \in Nat
    /\ MinHold \in 0 .. Initial

Call == Inquiry \cup Verify \cup Submit

VARIABLES
    token,      \* the tokens in the cache
    amount,     \* cashback_available.amount
    status,     \* cashback_transaction.status of each submit
    step,       \* next statement of each call
    seen,       \* the balance a submit has validated
    \* history
    held,       \* submits whose amount was taken from the balance
    reverted,   \* submits whose amount was given back
    paid,       \* submits that VNDC has paid out
    stale       \* submits that held on another balance than they validated

exchangeVars == <<token, amount, status, step, seen, held, reverted, paid, stale>>

AmountOf(s) == Amount[InquiryOf[VerifyOf[s]]]
TotalOf(S) == SumFunctionOnSet([s \in Submit |-> AmountOf(s)], S)
InStatus(x) == {s \in Submit : status[s] = x}

ExchangeInit ==
    /\ token = {}
    /\ amount = Initial
    /\ status = [s \in Submit |-> "none"]
    /\ step = [c \in Call |-> "start"]
    /\ seen = [s \in Submit |-> 0]
    /\ held = {}
    /\ reverted = {}
    /\ paid = {}
    /\ stale = {}

Goto(c, label) == step' = [step EXCEPT ![c] = label]

moneyVars == <<amount, status, seen, held, reverted, paid, stale>>

-----------------------------------------------------------------------------
(* Amounts come from the query as Decimal objects; the operator < compares *)
(* their strings.                                                          *)

Dec[n \in Nat] == IF n < 10 THEN <<n>> ELSE Append(Dec[n \div 10], n % 10)
\* A minus sign comes before every digit.
Text(n) == IF n < 0 THEN <<-1>> \o Dec[-n] ELSE Dec[n]

TextLess(s, t) ==
    \E k \in 0 .. Len(s) :
        /\ k < Len(t)
        /\ \A i \in 1 .. k : s[i] = t[i]
        /\ k = Len(s) \/ s[k + 1] < t[k + 1]

-----------------------------------------------------------------------------
(* Plausible mistakes; see Wallet.                                         *)

\* The amount is not compared with the balance.
Sufficient_NotChecked(s) == TRUE

\* An answer that is not known is taken for a refusal.
Outcome_UnknownIsRefused(s) ==
    \/ /\ Goto(s, "success")
       /\ paid' = paid \cup {s}
    \/ /\ Goto(s, "revert")
       /\ paid' \in {paid, paid \cup {s}}

\* Whatever VNDC answers, the exchange is a success.
Outcome_AlwaysSuccess(s) ==
    /\ Goto(s, "success")
    /\ paid' \in {paid, paid \cup {s}}

-----------------------------------------------------------------------------
(* inquiry and verifyPasscode                                              *)

CheckPending(i) ==
    /\ step[i] = "start"
    /\ Goto(i, IF InStatus("PROCESSING") = {} THEN "issue" ELSE "refused")
    /\ UNCHANGED <<token, moneyVars>>

IssueToken(i) ==
    /\ step[i] = "issue"
    /\ Goto(i, "done")
    /\ token' = token \cup {i}
    /\ UNCHANGED moneyVars

FindInquiry(v) ==
    /\ step[v] = "start"
    /\ Goto(v, IF InquiryOf[v] \in token THEN "compare" ELSE "refused")
    /\ UNCHANGED <<token, moneyVars>>

\* A right passcode exchanges the token for a verified one.
ComparePasscode(v) ==
    /\ step[v] = "compare"
    /\ \/ /\ Goto(v, "done")
          /\ token' = (token \ {InquiryOf[v]}) \cup {v}
       \/ Goto(v, "refused") /\ UNCHANGED token
    /\ UNCHANGED moneyVars

TokenExpires(t) ==
    /\ t \in token
    /\ token' = token \ {t}
    /\ UNCHANGED <<step, moneyVars>>

-----------------------------------------------------------------------------
(* submit and callVNDCOffChain                                             *)

HasToken(s) == VerifyOf[s] \in token

FindToken(s) ==
    /\ step[s] = "start"
    /\ Goto(s, IF HasToken(s) THEN "validate" ELSE "refused")
    /\ UNCHANGED <<token, moneyVars>>

\* What the transactions of the account add up to.
Balance == Initial - TotalOf(InStatus("SUCCESS"))

Sufficient(s) ==
    /\ ~ TextLess(Text(amount), Text(Balance))
    /\ amount - MinHold >= AmountOf(s)

ValidateAmountAvailable(s) ==
    /\ step[s] = "validate"
    /\ IF Sufficient(s)
       THEN Goto(s, "hold") /\ seen' = [seen EXCEPT ![s] = amount]
       ELSE Goto(s, "refused") /\ UNCHANGED seen
    /\ UNCHANGED <<token, amount, status, held, reverted, paid, stale>>

HoldBalance(s) ==
    /\ step[s] = "hold"
    /\ \/ /\ Goto(s, "timer")
          /\ amount' = amount - AmountOf(s)
          /\ status' = [status EXCEPT ![s] = "PROCESSING"]
          /\ held' = held \cup {s}
          /\ stale' = IF seen[s] = amount THEN stale ELSE stale \cup {s}
       \/ Goto(s, "refused") /\ UNCHANGED <<amount, status, held, stale>>
    /\ UNCHANGED <<token, seen, reverted, paid>>

\* submit deletes the token once the money is held, without waiting.
DeleteToken(s) ==
    /\ s \in held
    /\ VerifyOf[s] \in token
    /\ token' = token \ {VerifyOf[s]}
    /\ UNCHANGED <<step, moneyVars>>

\* VNDC pays, refuses, or the answer is lost and nobody knows.
Outcome(s) ==
    \/ /\ Goto(s, "success")
       /\ paid' = paid \cup {s}
    \/ /\ Goto(s, "revert")
       /\ UNCHANGED paid
    \/ /\ Goto(s, "unknown")
       /\ paid' \in {paid, paid \cup {s}}

SendOffChain(s) ==
    /\ step[s] = "timer"
    /\ Outcome(s)
    /\ UNCHANGED <<token, amount, status, seen, held, reverted, stale>>

\* Errors of the timer's body are caught and logged.
RecordSuccess(s) ==
    /\ step[s] = "success"
    /\ Goto(s, "done")
    /\ status' \in {status, [status EXCEPT ![s] = "SUCCESS"]}
    /\ UNCHANGED <<token, amount, seen, held, reverted, paid, stale>>

RevertBalance(s) ==
    /\ step[s] = "revert"
    /\ Goto(s, "done")
    /\ \/ /\ amount' = amount + AmountOf(s)
          /\ status' = [status EXCEPT ![s] = "FAILURE"]
          /\ reverted' = reverted \cup {s}
       \/ UNCHANGED <<amount, status, reverted>>
    /\ UNCHANGED <<token, seen, held, paid, stale>>

\* The transaction keeps its status and gets the answer, if there is one.
RecordUnknown(s) ==
    /\ step[s] = "unknown"
    /\ Goto(s, "done")
    /\ UNCHANGED <<token, moneyVars>>

\* The service dies with its calls and its timers.
ExchangeCrash ==
    /\ \E c \in Call : step[c] \notin {"start", "refused", "done", "lost"}
    /\ step' = [c \in Call |-> IF step[c] \in {"start", "refused", "done"}
                               THEN step[c] ELSE "lost"]
    /\ UNCHANGED <<token, moneyVars>>

-----------------------------------------------------------------------------

ExchangeNext ==
    \/ \E i \in Inquiry : CheckPending(i) \/ IssueToken(i)
    \/ \E v \in Verify : FindInquiry(v) \/ ComparePasscode(v)
    \/ \E t \in Inquiry \cup Verify : TokenExpires(t)
    \/ \E s \in Submit :
          \/ FindToken(s) \/ ValidateAmountAvailable(s) \/ HoldBalance(s)
          \/ DeleteToken(s) \/ SendOffChain(s)
          \/ RecordSuccess(s) \/ RevertBalance(s) \/ RecordUnknown(s)
    \/ ExchangeCrash

ExchangeSpec == ExchangeInit /\ [][ExchangeNext]_exchangeVars

-----------------------------------------------------------------------------
(* Properties                                                              *)

ExchangeTypeOK ==
    /\ token \subseteq Inquiry \cup Verify
    /\ amount \in Int
    /\ status \in [Submit -> {"none", "PROCESSING", "SUCCESS", "FAILURE"}]
    /\ step \in [Call -> {"start", "issue", "compare", "validate", "hold",
                        "timer", "success", "revert", "unknown",
                        "refused", "done", "lost"}]
    /\ seen \in [Submit -> Int]
    /\ held \subseteq Submit
    /\ reverted \subseteq held
    /\ paid \subseteq held
    /\ stale \subseteq held

\* Every coin is in one place: the balance is what was there, less what is
\* held or gone; what VNDC has paid out was held and is never given back,
\* whatever submits, crashes and lost answers come together.
Covered ==
    /\ amount = Initial - TotalOf(held \ reverted)
    /\ paid \cap reverted = {}

\* The status shown to the user tells where the money went: SUCCESS means
\* paid, FAILURE means given back; only PROCESSING leaves it open.
StatusTells ==
    \A s \in Submit :
        /\ status[s] = "SUCCESS" => s \in paid
        /\ status[s] = "FAILURE" <=> s \in reverted

\* What the balance lacks of min_hold was taken by submits that are still held
\* and had validated a balance which changed before their hold: no other path
\* of refusals, reverts, lost answers and crashes overdraws it, and a race by
\* no more than what its overtaken submits took (validateAmountAvailable,
\* cashback-exchange-v3.service.ts:640, and callVNDCOffChain, :423).
OverdrawnOnlyByRace ==
    amount + TotalOf(stale \cap (held \ reverted)) >= MinHold

=============================================================================

---------------------------- MODULE PayoutProofs ----------------------------
(***************************************************************************)
(* Proofs about what leaves the company: the commissions of a partner, for *)
(* any partners, commissions and requests (module Commission: what a lock  *)
(* that nobody releases is worth), and cashback changed into VNDC, for any *)
(* calls, amounts and opening balance (module Exchange).                   *)
(***************************************************************************)
EXTENDS Commission, Exchange, Sums, TLAPS

-----------------------------------------------------------------------------
(* Commissions                                                             *)

\* A request that found its commissions payable and may still pay for them.
Checked(r) == pc[r] \in {"rate", "balance", "wallet", "paid"}

\* Its commissions are the partner's, and earned.
Due(r) == /\ IdsOf[r] \subseteq success
          /\ \A c \in IdsOf[r] : OwnerOf[c] = AccountOf[r]

\* A handler runs behind an open gate, and whoever is not through with its
\* marks holds the lock unless it has expired.
LockHeld ==
    \A r \in Request :
        /\ Busy(r) => gate[r] = "handling"
        /\ gate[r] = "new" => pc[r] = "new"
        /\ (Busy(r) \/ r \in marking) /\ r \notin overran =>
              holder[KeyOf[r]] = r

\* Where a message, a payment, a transaction and its marks come from.
Stages ==
    \A r \in Request :
        /\ Checked(r) \/ r \in queue \/ r \in credited => Due(r)
        /\ r \in queue => pc[r] \in {"wallet", "lost"} /\ r \notin credited
        /\ r \in credited => pc[r] \in Ended \cup {"paid"}
        /\ pc[r] \in {"paid", "done"} => r \in credited
        /\ r \in marking => pc[r] = "done"
        /\ \A c \in Id : r \in markedBy[c] => pc[r] = "done" /\ c \in IdsOf[r]

\* Of two requests for one commission, one that has been paid and one that is
\* past its check or paid as well, one overran or left the commission unmarked.
Paying(s) == Checked(s) \/ s \in credited

Beside ==
    \A r \in credited, s \in Request, c \in Id :
        r # s /\ Paying(s) /\ c \in IdsOf[r] \cap IdsOf[s] =>
            \/ r \in overran \/ s \in overran
            \/ Unmarked(r, c) \/ Unmarked(s, c)

IInv == TypeOK /\ LockHeld /\ Stages /\ Beside

-----------------------------------------------------------------------------

\* A step preserves the types.
LEMMA TypeStep == TypeOK /\ [Next]_vars => TypeOK'
<1> SUFFICES ASSUME TypeOK, [Next]_vars
             PROVE  TypeOK'
  OBVIOUS
<1> USE CommissionAssumption, LockAssumption DEF TypeOK, LockTypeOK, Ended,
        Busy
<1>1. ASSUME NEW r \in Request, Send(r)
      PROVE  TypeOK'
  BY <1>1 DEF Send, Acquire, dbVars, walletVars
<1>2. ASSUME NEW r \in Request, LockFails(r)
      PROVE  TypeOK'
  BY <1>2 DEF LockFails, Refuse, dbVars, walletVars
<1>3. ASSUME NEW r \in Request, FindAccount(r)
      PROVE  TypeOK'
  BY <1>3 DEF FindAccount, Step, lockVars, dbVars, walletVars
<1>4. ASSUME NEW r \in Request, FindCommissions(r)
      PROVE  TypeOK'
  BY <1>4 DEF FindCommissions, Step, lockVars, dbVars, walletVars
<1>5. ASSUME NEW r \in Request, GetExchangeRate(r)
      PROVE  TypeOK'
  BY <1>5 DEF GetExchangeRate, Step, lockVars, dbVars, walletVars
<1>6. ASSUME NEW r \in Request, FindAvailable(r)
      PROVE  TypeOK'
  BY <1>6 DEF FindAvailable, Step, lockVars, dbVars, walletVars
<1>7. ASSUME NEW r \in Request, Mark(r)
      PROVE  TypeOK'
  BY <1>7 DEF Mark, lockVars, dbVars, walletVars
<1>8. ASSUME NEW r \in Request, StatementFails(r)
      PROVE  TypeOK'
  BY <1>8 DEF StatementFails, Step, lockVars, dbVars, walletVars
<1>9. ASSUME NEW r \in Request, MarkCommits(r)
      PROVE  TypeOK'
  BY <1>9 DEF MarkCommits, lockVars, dbVars, walletVars
<1>10. ASSUME NEW r \in Request, MarkFails(r)
      PROVE  TypeOK'
  BY <1>10 DEF MarkFails, lockVars, dbVars, walletVars
<1>11. ASSUME NEW r \in Request, Reply(r)
      PROVE  TypeOK'
  BY <1>11 DEF Reply, Answer, dbVars, walletVars
<1>12. ASSUME NEW r \in Request, WalletPays(r)
      PROVE  TypeOK'
  BY <1>12 DEF WalletPays, Returns, lockVars, dbVars
<1>13. ASSUME NEW r \in Request, WalletRefuses(r)
      PROVE  TypeOK'
  BY <1>13 DEF WalletRefuses, Returns, lockVars, dbVars
<1>14. ASSUME NEW c \in Id, TransactionSucceeds(c)
      PROVE  TypeOK'
  BY <1>14 DEF TransactionSucceeds, lockVars, walletVars
<1>15. ASSUME NEW k \in Key, LockExpires(k)
      PROVE  TypeOK'
  BY <1>15 DEF LockExpires, Expire, dbVars, walletVars
<1>16. ASSUME Crash
      PROVE  TypeOK'
  BY <1>16 DEF Crash, GatewayCrash, lockVars, dbVars, walletVars
<1>17. ASSUME UNCHANGED vars
      PROVE  TypeOK'
  BY <1>17 DEF vars, lockVars, dbVars, walletVars
<1> QED
  BY <1>1, <1>2, <1>3, <1>4, <1>5, <1>6, <1>7, <1>8, <1>9, <1>10, <1>11,
     <1>12, <1>13, <1>14, <1>15, <1>16, <1>17 DEF Next

\* Handlers and transactions of marks run under the lock.
LEMMA LockStep == IInv /\ [Next]_vars => LockHeld'
<1> SUFFICES ASSUME IInv, [Next]_vars
             PROVE  LockHeld'
  OBVIOUS
<1> USE CommissionAssumption, LockAssumption DEF IInv, TypeOK, LockTypeOK,
        Ended, Busy, LockHeld, Stages
<1>1. ASSUME NEW r \in Request, Send(r)
      PROVE  LockHeld'
  BY <1>1 DEF Send, Acquire, dbVars, walletVars
<1>2. ASSUME NEW r \in Request, LockFails(r)
      PROVE  LockHeld'
  BY <1>2 DEF LockFails, Refuse, dbVars, walletVars
<1>3. ASSUME NEW r \in Request, FindAccount(r)
      PROVE  LockHeld'
  BY <1>3 DEF FindAccount, Step, lockVars, dbVars, walletVars
<1>4. ASSUME NEW r \in Request, FindCommissions(r)
      PROVE  LockHeld'
  BY <1>4 DEF FindCommissions, Step, lockVars, dbVars, walletVars
<1>5. ASSUME NEW r \in Request, GetExchangeRate(r)
      PROVE  LockHeld'
  BY <1>5 DEF GetExchangeRate, Step, lockVars, dbVars, walletVars
<1>6. ASSUME NEW r \in Request, FindAvailable(r)
      PROVE  LockHeld'
  BY <1>6 DEF FindAvailable, Step, lockVars, dbVars, walletVars
<1>7. ASSUME NEW r \in Request, Mark(r)
      PROVE  LockHeld'
  BY <1>7 DEF Mark, lockVars, dbVars, walletVars
<1>8. ASSUME NEW r \in Request, StatementFails(r)
      PROVE  LockHeld'
  BY <1>8 DEF StatementFails, Step, lockVars, dbVars, walletVars
<1>9. ASSUME NEW r \in Request, MarkCommits(r)
      PROVE  LockHeld'
  BY <1>9 DEF MarkCommits, lockVars, dbVars, walletVars
<1>10. ASSUME NEW r \in Request, MarkFails(r)
      PROVE  LockHeld'
  BY <1>10 DEF MarkFails, lockVars, dbVars, walletVars
<1>11. ASSUME NEW r \in Request, Reply(r)
      PROVE  LockHeld'
  BY <1>11 DEF Reply, Answer, dbVars, walletVars
<1>12. ASSUME NEW r \in Request, WalletPays(r)
      PROVE  LockHeld'
  BY <1>12 DEF WalletPays, Returns, lockVars, dbVars
<1>13. ASSUME NEW r \in Request, WalletRefuses(r)
      PROVE  LockHeld'
  BY <1>13 DEF WalletRefuses, Returns, lockVars, dbVars
<1>14. ASSUME NEW c \in Id, TransactionSucceeds(c)
      PROVE  LockHeld'
  BY <1>14 DEF TransactionSucceeds, lockVars, walletVars
<1>15. ASSUME NEW k \in Key, LockExpires(k)
      PROVE  LockHeld'
  BY <1>15 DEF LockExpires, Expire, dbVars, walletVars
<1>16. ASSUME Crash
      PROVE  LockHeld'
  BY <1>16 DEF Crash, GatewayCrash, lockVars, dbVars, walletVars
<1>17. ASSUME UNCHANGED vars
      PROVE  LockHeld'
  BY <1>17 DEF vars, lockVars, dbVars, walletVars
<1> QED
  BY <1>1, <1>2, <1>3, <1>4, <1>5, <1>6, <1>7, <1>8, <1>9, <1>10, <1>11,
     <1>12, <1>13, <1>14, <1>15, <1>16, <1>17 DEF Next

\* A step keeps the order of payment and marks.
LEMMA StagesStep == IInv /\ [Next]_vars => Stages'
<1> SUFFICES ASSUME IInv, [Next]_vars
             PROVE  Stages'
  OBVIOUS
<1> USE CommissionAssumption DEF IInv, TypeOK, Ended, Busy, Checked, Due,
        LockHeld, Stages
<1>1. ASSUME NEW r \in Request, Send(r)
      PROVE  Stages'
  BY <1>1 DEF Send, Acquire, dbVars, walletVars
<1>2. ASSUME NEW r \in Request, LockFails(r)
      PROVE  Stages'
  BY <1>2 DEF LockFails, Refuse, dbVars, walletVars
<1>3. ASSUME NEW r \in Request, FindAccount(r)
      PROVE  Stages'
  BY <1>3 DEF FindAccount, Step, lockVars, dbVars, walletVars
<1>4. ASSUME NEW r \in Request, FindCommissions(r)
      PROVE  Stages'
  BY <1>4 DEF FindCommissions, Step, lockVars, dbVars, walletVars, Invalid,
     IsApproved
<1>5. ASSUME NEW r \in Request, GetExchangeRate(r)
      PROVE  Stages'
  BY <1>5 DEF GetExchangeRate, Step, lockVars, dbVars, walletVars
<1>6. ASSUME NEW r \in Request, FindAvailable(r)
      PROVE  Stages'
  BY <1>6 DEF FindAvailable, Step, lockVars, dbVars, walletVars
<1>7. ASSUME NEW r \in Request, Mark(r)
      PROVE  Stages'
  BY <1>7 DEF Mark, lockVars, dbVars, walletVars
<1>8. ASSUME NEW r \in Request, StatementFails(r)
      PROVE  Stages'
  BY <1>8 DEF StatementFails, Step, lockVars, dbVars, walletVars
<1>9. ASSUME NEW r \in Request, MarkCommits(r)
      PROVE  Stages'
  BY <1>9 DEF MarkCommits, lockVars, dbVars, walletVars
<1>10. ASSUME NEW r \in Request, MarkFails(r)
      PROVE  Stages'
  BY <1>10 DEF MarkFails, lockVars, dbVars, walletVars
<1>11. ASSUME NEW r \in Request, Reply(r)
      PROVE  Stages'
  BY <1>11 DEF Reply, Answer, dbVars, walletVars
<1>12. ASSUME NEW r \in Request, WalletPays(r)
      PROVE  Stages'
  BY <1>12 DEF WalletPays, Returns, lockVars, dbVars
<1>13. ASSUME NEW r \in Request, WalletRefuses(r)
      PROVE  Stages'
  BY <1>13 DEF WalletRefuses, Returns, lockVars, dbVars
<1>14. ASSUME NEW c \in Id, TransactionSucceeds(c)
      PROVE  Stages'
  BY <1>14 DEF TransactionSucceeds, lockVars, walletVars
<1>15. ASSUME NEW k \in Key, LockExpires(k)
      PROVE  Stages'
  BY <1>15 DEF LockExpires, Expire, dbVars, walletVars
<1>16. ASSUME Crash
      PROVE  Stages'
  BY <1>16 DEF Crash, GatewayCrash, lockVars, dbVars, walletVars
<1>17. ASSUME UNCHANGED vars
      PROVE  Stages'
  BY <1>17 DEF vars, lockVars, dbVars, walletVars
<1> QED
  BY <1>1, <1>2, <1>3, <1>4, <1>5, <1>6, <1>7, <1>8, <1>9, <1>10, <1>11,
     <1>12, <1>13, <1>14, <1>15, <1>16, <1>17 DEF Next

\* No two requests pay for one commission under the lock, with marks.
LEMMA BesideStep == IInv /\ [Next]_vars => Beside'
<1> SUFFICES ASSUME IInv, [Next]_vars
             PROVE  Beside'
  OBVIOUS
<1> USE CommissionAssumption DEF IInv, TypeOK, Ended, Busy, Checked, Due,
        LockHeld, Stages, Paying, Unmarked, Beside
<1>1. ASSUME NEW r \in Request, Send(r)
      PROVE  Beside'
  BY <1>1 DEF Send, Acquire, dbVars, walletVars
<1>2. ASSUME NEW r \in Request, LockFails(r)
      PROVE  Beside'
  BY <1>2 DEF LockFails, Refuse, dbVars, walletVars
<1>3. ASSUME NEW r \in Request, FindAccount(r)
      PROVE  Beside'
  BY <1>3 DEF FindAccount, Step, lockVars, dbVars, walletVars
<1>4. ASSUME NEW r \in Request, FindCommissions(r)
      PROVE  Beside'
  BY <1>4 DEF FindCommissions, Step, lockVars, dbVars, walletVars, Invalid,
     IsApproved
<1>5. ASSUME NEW r \in Request, GetExchangeRate(r)
      PROVE  Beside'
  BY <1>5 DEF GetExchangeRate, Step, lockVars, dbVars, walletVars
<1>6. ASSUME NEW r \in Request, FindAvailable(r)
      PROVE  Beside'
  BY <1>6 DEF FindAvailable, Step, lockVars, dbVars, walletVars
<1>7. ASSUME NEW r \in Request, Mark(r)
      PROVE  Beside'
  BY <1>7 DEF Mark, lockVars, dbVars, walletVars
<1>8. ASSUME NEW r \in Request, StatementFails(r)
      PROVE  Beside'
  BY <1>8 DEF StatementFails, Step, lockVars, dbVars, walletVars
<1>9. ASSUME NEW r \in Request, MarkCommits(r)
      PROVE  Beside'
  BY <1>9 DEF MarkCommits, lockVars, dbVars, walletVars
<1>10. ASSUME NEW r \in Request, MarkFails(r)
      PROVE  Beside'
  BY <1>10 DEF MarkFails, lockVars, dbVars, walletVars
<1>11. ASSUME NEW r \in Request, Reply(r)
      PROVE  Beside'
  BY <1>11 DEF Reply, Answer, dbVars, walletVars
<1>12. ASSUME NEW r \in Request, WalletPays(r)
      PROVE  Beside'
  BY <1>12 DEF WalletPays, Returns, lockVars, dbVars
<1>13. ASSUME NEW r \in Request, WalletRefuses(r)
      PROVE  Beside'
  BY <1>13 DEF WalletRefuses, Returns, lockVars, dbVars
<1>14. ASSUME NEW c \in Id, TransactionSucceeds(c)
      PROVE  Beside'
  BY <1>14 DEF TransactionSucceeds, lockVars, walletVars
<1>15. ASSUME NEW k \in Key, LockExpires(k)
      PROVE  Beside'
  BY <1>15 DEF LockExpires, Expire, dbVars, walletVars
<1>16. ASSUME Crash
      PROVE  Beside'
  BY <1>16 DEF Crash, GatewayCrash, lockVars, dbVars, walletVars
<1>17. ASSUME UNCHANGED vars
      PROVE  Beside'
  BY <1>17 DEF vars, lockVars, dbVars, walletVars
<1> QED
  BY <1>1, <1>2, <1>3, <1>4, <1>5, <1>6, <1>7, <1>8, <1>9, <1>10, <1>11,
     <1>12, <1>13, <1>14, <1>15, <1>16, <1>17 DEF Next

\* The inductive invariant: the types, the lock, the order of payment and
\* marks, and what two requests for one commission come to.
THEOREM Inductive == Spec => []IInv
<1>1. Init => IInv
  BY CommissionAssumption, LockAssumption DEF Init, LockInit, IInv, TypeOK,
     LockTypeOK, LockHeld, Stages, Beside, Busy, Checked, Due, Ended, Paying
<1>2. IInv /\ [Next]_vars => IInv'
  BY TypeStep, LockStep, StagesStep, BesideStep DEF IInv
<1> QED
  BY <1>1, <1>2, PTL DEF Spec

\* Every variable keeps its type.
THEOREM TypeCorrect == Spec => []TypeOK
<1>1. IInv => TypeOK
  BY DEF IInv
<1> QED
  BY <1>1, Inductive, PTL

\* Two requests pay for one commission only if one of them outlived its lock or
\* ended without the mark.  (account.service.ts 716-731, 811-816)
THEOREM PaidAgain == Spec => []PaidAgainOnlyUnmarked
<1>1. IInv => PaidAgainOnlyUnmarked
  BY DEF IInv, TypeOK, Beside, Paying, PaidAgainOnlyUnmarked
<1> QED
  BY <1>1, Inductive, PTL

\* A mark tells of a payment by the request that set it, to the owner of the
\* commission.  (account.service.ts 811-816)
THEOREM MarksTell == Spec => []MarkedIsPaid
<1>1. IInv => MarkedIsPaid
  BY DEF IInv, TypeOK, Stages, Due, MarkedIsPaid
<1> QED
  BY <1>1, Inductive, PTL

\* The wallet is asked to pay only for what has been earned.
\* (account.service.ts 716-721)
THEOREM Earned == Spec => []PaidIsEarned
<1>1. IInv => PaidIsEarned
  BY DEF IInv, TypeOK, Stages, Due, PaidIsEarned
<1> QED
  BY <1>1, Inductive, PTL

-----------------------------------------------------------------------------
(* The exchange                                                            *)

\* Where a submit stands with its money, by its next statement.
Money ==
    \A s \in Submit :
        /\ step[s] \in {"start", "issue", "compare", "validate", "hold",
                        "refused"} => s \notin held
        /\ step[s] \in {"timer", "success", "revert", "unknown"} =>
              s \in held /\ s \notin reverted
        /\ step[s] \in {"timer", "revert"} => s \notin paid
        /\ step[s] = "success" => s \in paid

\* A submit about to hold its amount found enough of it.
Validated ==
    \A s \in Submit : step[s] = "hold" => seen[s] - MinHold >= AmountOf(s)

ExchangeIInv ==
    /\ ExchangeTypeOK
    /\ Money
    /\ Validated
    /\ Covered
    /\ StatusTells
    /\ OverdrawnOnlyByRace

-----------------------------------------------------------------------------
\* Amounts are natural numbers.
LEMMA AmountType == \A s \in Submit : AmountOf(s) \in Nat
BY ExchangeAssumption DEF AmountOf

\* What is held adds up; another submit's amount counts once.
LEMMA Totals ==
    ASSUME NEW S \in SUBSET Submit
    PROVE  /\ TotalOf(S) \in Nat
           /\ TotalOf({}) = 0
           /\ \A s \in Submit \ S : TotalOf(S \cup {s}) = TotalOf(S) + AmountOf(s)
           /\ \A s \in S : TotalOf(S \ {s}) = TotalOf(S) - AmountOf(s)
<1>1. PICK f : f = [s \in Submit |-> AmountOf(s)]
      OBVIOUS
<1>2. f \in [Submit -> Nat] /\ f \in [Submit -> Int] /\ IsFiniteSet(Submit)
      BY <1>1, AmountType, ExchangeAssumption
<1>3. \A T \in SUBSET Submit :
          /\ SumFunctionOnSet(f, T) \in Nat
          /\ \A s \in Submit \ T :
                SumFunctionOnSet(f, T \cup {s}) = SumFunctionOnSet(f, T) + f[s]
      BY <1>2, SumAdds, SumNat
<1>4. \A T \in SUBSET Submit :
          /\ TotalOf(T) \in Nat
          /\ \A s \in Submit \ T : TotalOf(T \cup {s}) = TotalOf(T) + AmountOf(s)
      BY <1>1, <1>3 DEF TotalOf
<1>5. TotalOf({}) = 0
      BY SumEmpty DEF TotalOf
<1>6. ASSUME NEW s \in S
      PROVE  TotalOf(S \ {s}) = TotalOf(S) - AmountOf(s)
  <2>1. PICK T : T = S \ {s}
        OBVIOUS
  <2>2. T \in SUBSET Submit /\ s \in Submit \ T /\ T \cup {s} = S
        BY <2>1
  <2>3. TotalOf(S) = TotalOf(T) + AmountOf(s) /\ TotalOf(T) \in Int
        BY <1>4, <2>2
  <2> QED BY <2>1, <2>3, AmountType
<1> QED BY <1>4, <1>5, <1>6

\* Nothing is held at the start.
LEMMA ExchangeStarts == ExchangeInit => ExchangeIInv
<1> SUFFICES ASSUME ExchangeInit PROVE ExchangeIInv
    OBVIOUS
<1>1. ExchangeTypeOK
  <2>1. amount \in Int /\ seen \in [Submit -> Int]
        BY ExchangeAssumption DEF ExchangeInit
  <2> QED BY <2>1 DEF ExchangeInit, ExchangeTypeOK
<1>4. Money /\ Validated /\ StatusTells
      BY DEF ExchangeInit, Money, Validated, StatusTells, Call
<1>2. Covered
  <2>1. held \ reverted = {} /\ paid \cap reverted = {} /\ amount = Initial
        BY DEF ExchangeInit
  <2>2. TotalOf({}) = 0
        BY Totals
  <2> QED BY <2>1, <2>2, ExchangeAssumption DEF Covered
<1>3. OverdrawnOnlyByRace
  <2>1. stale \cap (held \ reverted) = {} /\ amount = Initial
        BY DEF ExchangeInit
  <2>2. TotalOf({}) = 0
        BY Totals
  <2>3. amount + TotalOf({}) >= MinHold
        BY <2>1, <2>2, ExchangeAssumption
  <2> QED BY <2>1, <2>3 DEF OverdrawnOnlyByRace
<1> QED BY <1>1, <1>2, <1>3, <1>4 DEF ExchangeIInv

\* Every call but a hold and a revert leaves the money where it is.
LEMMA ExchangeStep == ExchangeIInv /\ [ExchangeNext]_exchangeVars => ExchangeIInv'
<1> SUFFICES ASSUME ExchangeIInv, [ExchangeNext]_exchangeVars PROVE ExchangeIInv'
    OBVIOUS
<1> USE ExchangeAssumption DEF ExchangeIInv, ExchangeTypeOK, Goto, Call
<1>0. ASSUME UNCHANGED <<amount, held, reverted, paid, stale>>
      PROVE  Covered' /\ OverdrawnOnlyByRace'
      BY <1>0 DEF Covered, OverdrawnOnlyByRace, TotalOf, AmountOf
<1>a. \A s \in Submit : AmountOf(s) \in Nat /\ AmountOf(s)' = AmountOf(s)
      BY AmountType DEF AmountOf
<1>1. ASSUME NEW i \in Inquiry, CheckPending(i) \/ IssueToken(i)
      PROVE  ExchangeIInv'
      BY <1>0, <1>1, <1>a DEF CheckPending, IssueToken, moneyVars, Money,
         Validated, StatusTells
<1>2. ASSUME NEW v \in Verify, FindInquiry(v) \/ ComparePasscode(v)
      PROVE  ExchangeIInv'
      BY <1>0, <1>2, <1>a DEF FindInquiry, ComparePasscode, moneyVars, Money,
         Validated, StatusTells
<1>3. ASSUME NEW t \in Inquiry \cup Verify, TokenExpires(t)
      PROVE  ExchangeIInv'
      BY <1>0, <1>3, <1>a DEF TokenExpires, moneyVars, Money,
         Validated, StatusTells
<1>4. ASSUME NEW s \in Submit, FindToken(s) \/ DeleteToken(s) \/ RecordUnknown(s)
      PROVE  ExchangeIInv'
      BY <1>0, <1>4, <1>a DEF FindToken, DeleteToken, RecordUnknown, moneyVars, Money,
         Validated, StatusTells
<1>5. ASSUME NEW s \in Submit, ValidateAmountAvailable(s)
      PROVE  ExchangeIInv'
      BY <1>0, <1>5, <1>a DEF ValidateAmountAvailable, Sufficient, Money,
         Validated, StatusTells
<1>6. ASSUME NEW s \in Submit, HoldBalance(s)
      PROVE  ExchangeIInv'
  <2>1. CASE UNCHANGED <<amount, status, held, stale>>
        BY <1>0, <1>6, <1>a, <2>1 DEF HoldBalance, Money,
         Validated, StatusTells
  <2>2. CASE /\ Goto(s, "timer")
             /\ amount' = amount - AmountOf(s)
             /\ status' = [status EXCEPT ![s] = "PROCESSING"]
             /\ held' = held \cup {s}
             /\ stale' = IF seen[s] = amount THEN stale ELSE stale \cup {s}
    <3>1. s \notin held /\ s \notin reverted /\ s \notin paid /\ seen[s] - MinHold >= AmountOf(s)
          BY <1>6 DEF HoldBalance, Money, Validated
    <3>2. UNCHANGED <<token, seen, reverted, paid>>
          BY <1>6 DEF HoldBalance
    <3>3. ExchangeTypeOK' /\ Money' /\ Validated' /\ StatusTells'
          BY <1>6, <1>a, <2>2, <3>1, <3>2 DEF HoldBalance, Money, Validated, StatusTells
    <3>4. OverdrawnOnlyByRace'
      <4>0. PICK X : X = stale \cap (held \ reverted)
            OBVIOUS
      <4>a. /\ X \in SUBSET Submit /\ s \notin X /\ TotalOf(X) \in Nat
            /\ TotalOf(X \cup {s}) = TotalOf(X) + AmountOf(s)
            BY <3>1, <4>0, Totals
      <4>1. CASE seen[s] # amount
        <5>1. stale' \cap (held' \ reverted') = X \cup {s}
              BY <2>2, <3>1, <3>2, <4>0, <4>1
        <5>2. amount' + TotalOf(X \cup {s}) = amount + TotalOf(X)
              BY <1>a, <2>2, <4>a
        <5>3. amount + TotalOf(X) >= MinHold
              BY <4>0 DEF OverdrawnOnlyByRace
        <5> QED BY <5>1, <5>2, <5>3 DEF OverdrawnOnlyByRace, TotalOf, AmountOf
      <4>2. CASE seen[s] = amount
        <5>1. stale' \cap (held' \ reverted') = X
              BY <2>2, <3>1, <3>2, <4>0, <4>2
        <5>2. amount' >= MinHold
              BY <1>a, <2>2, <3>1, <4>2
        <5>3. amount' + TotalOf(X) >= MinHold
              BY <1>a, <2>2, <4>a, <5>2
        <5> QED BY <5>1, <5>3 DEF OverdrawnOnlyByRace, TotalOf, AmountOf
      <4> QED BY <4>1, <4>2
    <3>5. Covered'
      <4>1. held' \ reverted' = (held \ reverted) \cup {s}
            BY <2>2, <3>1, <3>2
      <4>2. TotalOf((held \ reverted) \cup {s}) = TotalOf(held \ reverted) + AmountOf(s)
            BY <3>1, Totals
      <4>3. TotalOf(held \ reverted) \in Int
            BY Totals
      <4>4. TotalOf(held' \ reverted') = TotalOf(held \ reverted) + AmountOf(s)
            BY <4>1, <4>2
      <4>5. amount' = Initial - TotalOf(held' \ reverted')
            BY <1>a, <2>2, <4>3, <4>4 DEF Covered
      <4> QED BY <3>1, <3>2, <4>5 DEF Covered, TotalOf, AmountOf
    <3> QED BY <3>3, <3>4, <3>5
  <2> QED BY <1>6, <2>1, <2>2 DEF HoldBalance
<1>7. ASSUME NEW s \in Submit, SendOffChain(s)
      PROVE  ExchangeIInv'
  <2>1. s \in held /\ s \notin reverted /\ s \notin paid
        BY <1>7 DEF SendOffChain, Money
  <2>2. /\ step[s] = "timer"
        /\ UNCHANGED <<token, amount, status, seen, held, reverted, stale>>
        /\ \/ step' = [step EXCEPT ![s] = "success"] /\ paid' = paid \cup {s}
           \/ step' = [step EXCEPT ![s] = "revert"] /\ paid' = paid
           \/ step' = [step EXCEPT ![s] = "unknown"] /\ paid' \in {paid, paid \cup {s}}
        BY <1>7 DEF SendOffChain, Outcome
  <2>3. Covered' /\ OverdrawnOnlyByRace'
        BY <2>1, <2>2 DEF Covered, OverdrawnOnlyByRace, TotalOf, AmountOf
  <2> QED BY <1>a, <2>1, <2>2, <2>3 DEF Money, Validated, StatusTells
<1>8. ASSUME NEW s \in Submit, RecordSuccess(s)
      PROVE  ExchangeIInv'
      BY <1>0, <1>8, <1>a DEF RecordSuccess, Money,
         Validated, StatusTells
<1>9. ASSUME NEW s \in Submit, RevertBalance(s)
      PROVE  ExchangeIInv'
  <2>1. CASE UNCHANGED <<amount, status, reverted>>
        BY <1>0, <1>9, <1>a, <2>1 DEF RevertBalance, Money,
         Validated, StatusTells
  <2>2. CASE /\ amount' = amount + AmountOf(s)
             /\ status' = [status EXCEPT ![s] = "FAILURE"]
             /\ reverted' = reverted \cup {s}
    <3>1. s \in held /\ s \notin reverted /\ s \notin paid
          BY <1>9 DEF RevertBalance, Money
    <3>2. UNCHANGED <<token, seen, held, paid, stale>> /\ step[s] = "revert"
          BY <1>9 DEF RevertBalance
    <3>3. ExchangeTypeOK' /\ Money' /\ Validated' /\ StatusTells'
          BY <1>9, <1>a, <2>2, <3>1, <3>2 DEF RevertBalance, Money, Validated, StatusTells
    <3>4. OverdrawnOnlyByRace'
      <4>0. PICK X : X = stale \cap (held \ reverted)
            OBVIOUS
      <4>1. /\ X \in SUBSET Submit /\ TotalOf(X) \in Nat
            /\ s \in X => TotalOf(X \ {s}) = TotalOf(X) - AmountOf(s)
            BY <4>0, Totals
      <4>2. stale' \cap (held' \ reverted') = X \ {s}
            BY <2>2, <3>2, <4>0
      <4>3. s \notin X => X \ {s} = X
            OBVIOUS
      <4>4. amount' + TotalOf(X \ {s}) >= amount + TotalOf(X)
            BY <1>a, <2>2, <4>1, <4>3
      <4>5. amount + TotalOf(X) >= MinHold
            BY <4>0 DEF OverdrawnOnlyByRace
      <4>6. TotalOf(X \ {s}) \in Nat
            BY <4>1, Totals
      <4>7. amount' + TotalOf(X \ {s}) >= MinHold
            BY <1>a, <2>2, <4>1, <4>4, <4>5, <4>6
      <4> QED BY <4>2, <4>7 DEF OverdrawnOnlyByRace, TotalOf, AmountOf
    <3>5. Covered'
      <4>1. held' \ reverted' = (held \ reverted) \ {s}
            BY <2>2, <3>1, <3>2
      <4>2. TotalOf((held \ reverted) \ {s}) = TotalOf(held \ reverted) - AmountOf(s)
            BY <3>1, Totals
      <4>3. TotalOf(held \ reverted) \in Int
            BY Totals
      <4>4. TotalOf(held' \ reverted') = TotalOf(held \ reverted) - AmountOf(s)
            BY <4>1, <4>2
      <4>5. amount' = Initial - TotalOf(held' \ reverted')
            BY <1>a, <2>2, <4>3, <4>4 DEF Covered
      <4>6. paid' \cap reverted' = {}
            BY <2>2, <3>1, <3>2 DEF Covered
      <4> QED BY <4>5, <4>6 DEF Covered, TotalOf, AmountOf
    <3> QED BY <3>3, <3>4, <3>5
  <2> QED BY <1>9, <2>1, <2>2 DEF RevertBalance
<1>10. CASE ExchangeCrash
      BY <1>0, <1>10, <1>a DEF ExchangeCrash, moneyVars, Money,
         Validated, StatusTells
<1>11. CASE UNCHANGED exchangeVars
      BY <1>0, <1>11, <1>a DEF exchangeVars, Money,
         Validated, StatusTells
<1> QED BY <1>1, <1>2, <1>3, <1>4, <1>5, <1>6, <1>7, <1>8, <1>9, <1>10, <1>11
        DEF ExchangeNext

\* The exchange's inductive invariant: the types, where each submit stands
\* with its money, that a hold follows a check, and the three properties.
THEOREM ExchangeInductive == ExchangeSpec => []ExchangeIInv
<1> QED
  BY ExchangeStarts, ExchangeStep, PTL DEF ExchangeSpec

\* Every variable of the exchange keeps its type: nothing is reverted or paid
\* that was not held.
THEOREM ExchangeTypeCorrect == ExchangeSpec => []ExchangeTypeOK
<1>1. ExchangeIInv => ExchangeTypeOK
  BY DEF ExchangeIInv
<1> QED
  BY <1>1, ExchangeInductive, PTL

\* The balance is the opening one less what is held or gone, and nothing is
\* both paid out and given back, whatever calls, lost answers and crashes come
\* together.  (cashback-exchange-v3.service.ts 436-634)
THEOREM CoveredAlways == ExchangeSpec => []Covered
<1>1. ExchangeIInv => Covered
  BY DEF ExchangeIInv
<1> QED
  BY <1>1, ExchangeInductive, PTL

\* SUCCESS means paid and FAILURE means given back, for any number of submits.
\* (cashback-exchange-v3.service.ts 436-634)
THEOREM StatusIsTrue == ExchangeSpec => []StatusTells
<1>1. ExchangeIInv => StatusTells
  BY DEF ExchangeIInv
<1> QED
  BY <1>1, ExchangeInductive, PTL

\* What the balance lacks of min_hold is at most what the submits still hold
\* that had validated a balance which changed before their hold.
\* (cashback-exchange-v3.service.ts 423-498, 640-713)
THEOREM OverdraftIsRace == ExchangeSpec => []OverdrawnOnlyByRace
<1>1. ExchangeIInv => OverdrawnOnlyByRace
  BY DEF ExchangeIInv
<1> QED
  BY <1>1, ExchangeInductive, PTL

=============================================================================

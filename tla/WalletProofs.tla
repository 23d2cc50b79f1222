---------------------------- MODULE WalletProofs ----------------------------
(***************************************************************************)
(* Proofs about the two services of apps/wallet: the balances, for any     *)
(* accounts, messages and amounts and any number of concurrent handlers    *)
(* (module Wallet), and the pool, for any calls, arguments and opening     *)
(* values (module Pool).                                                   *)
(***************************************************************************)
EXTENDS Wallet, Pool, Sums, TLAPS

-----------------------------------------------------------------------------
(* The balances                                                            *)

\* A message still in the queue has not started any of its legs.
QueuedIsIdle ==
    \A l \in Leg : msg[MsgOf[l]] = "queued" => step[l] = "idle"

\* What the position of a leg says about the database.  Each conjunct is
\* what the next statement of the leg relies on.
LegInv ==
    \A l \in Leg :
        /\ step[l] \in {"idle", "find", "history", "update"}
              => l \notin posted
        /\ step[l] \in {"history", "update"} => RowMatches(l)
        /\ step[l] \in {"update", "insert"} => l \in histories
        /\ step[l] = "insert" => l \in posted
        /\ step[l] = "done" => l \in cbTrans

IInv ==
    /\ TypeOK
    /\ QueuedIsIdle
    /\ LegInv
    /\ AuditTrail
    /\ LockVersionNeverMismatches

\* The types of the wallet's state: in particular no balance is negative.
THEOREM TypeCorrect == Spec => []TypeOK
<1> USE WalletAssumption DEF TypeOK, Settled, Running, Thrown
<1>1. Init => TypeOK
  BY DEF Init
<1>2. TypeOK /\ [Next]_vars => TypeOK'
  <2> SUFFICES ASSUME TypeOK, [Next]_vars
               PROVE  TypeOK'
    OBVIOUS
  <2>1. ASSUME NEW a \in Account, SaveAccount(a)
        PROVE  TypeOK'
    BY <2>1 DEF SaveAccount
  <2>2. ASSUME NEW m \in Msg, Deliver(m)
        PROVE  TypeOK'
    BY <2>2 DEF Deliver, Start, dbVars
  <2>3. ASSUME NEW m \in Msg, HandlerThrows(m)
        PROVE  TypeOK'
    BY <2>3 DEF HandlerThrows, Rollback
  <2>4. ASSUME NEW m \in Msg, NoneAccountReferral(m)
        PROVE  TypeOK'
    BY <2>4 DEF NoneAccountReferral, dbVars
  <2>5. ASSUME NEW m \in Msg, AccountReferral(m)
        PROVE  TypeOK'
    BY <2>5 DEF AccountReferral
  <2>6. ASSUME NEW m \in Msg, OpenDeposit(m)
        PROVE  TypeOK'
    BY <2>6 DEF OpenDeposit, Start
  <2>7. ASSUME NEW m \in Msg, CommitDeposit(m)
        PROVE  TypeOK'
    BY <2>7 DEF CommitDeposit, Rollback
  <2>8. ASSUME NEW m \in Msg, DepositExpires(m)
        PROVE  TypeOK'
    BY <2>8 DEF DepositExpires
  <2>9. ASSUME NEW l \in Leg, FindRow(l)
        PROVE  TypeOK'
    BY <2>9 DEF FindRow, dbVars
  <2>10. ASSUME NEW l \in Leg, InsertHistory(l)
         PROVE  TypeOK'
    BY <2>10 DEF InsertHistory
  <2>11. ASSUME NEW l \in Leg, UpdateMany(l)
         PROVE  TypeOK'
    BY <2>11 DEF UpdateMany
  <2>12. ASSUME NEW l \in Leg, InsertCbTrans(l)
         PROVE  TypeOK'
    BY <2>12 DEF InsertCbTrans
  <2>13. ASSUME NEW l \in Leg, StatementFails(l)
         PROVE  TypeOK'
    BY <2>13 DEF StatementFails, dbVars
  <2>14. CASE Crash
    BY <2>14 DEF Crash
  <2>15. CASE UNCHANGED vars
    BY <2>15 DEF vars, dbVars
  <2> QED
    BY <2>1, <2>2, <2>3, <2>4, <2>5, <2>6, <2>7, <2>8, <2>9, <2>10, <2>11,
       <2>12, <2>13, <2>14, <2>15 DEF Next, HandlerStep, LegStep
<1> QED
  BY <1>1, <1>2, PTL DEF Spec

\* The invariant that ties each leg's position to the database is kept by
\* every step of every handler, by errors and by crashes.
THEOREM Invariance == Spec => []IInv
<1> USE WalletAssumption
<1>1. Init => IInv
  BY DEF Init, IInv, TypeOK, QueuedIsIdle, LegInv, AuditTrail,
     LockVersionNeverMismatches, Settled, Running, Thrown
<1>2. IInv /\ TypeOK' /\ [Next]_vars => IInv'
  <2> SUFFICES ASSUME IInv, TypeOK', [Next]_vars
               PROVE  IInv'
    OBVIOUS
  <2> USE DEF IInv, TypeOK, QueuedIsIdle, LegInv, AuditTrail, RowMatches,
              LockVersionNeverMismatches
  <2>1. ASSUME NEW a \in Account, SaveAccount(a)
        PROVE  IInv'
    BY <2>1 DEF SaveAccount
  <2>2. ASSUME NEW m \in Msg, Deliver(m)
        PROVE  IInv'
    BY <2>2 DEF Deliver, Start, LegsOf, dbVars
  <2>3. ASSUME NEW m \in Msg, HandlerThrows(m)
        PROVE  IInv'
    BY <2>3 DEF HandlerThrows
  <2>4. ASSUME NEW m \in Msg, NoneAccountReferral(m)
        PROVE  IInv'
    BY <2>4 DEF NoneAccountReferral, dbVars
  <2>5. ASSUME NEW m \in Msg, AccountReferral(m)
        PROVE  IInv'
    BY <2>5 DEF AccountReferral
  <2>6. ASSUME NEW m \in Msg, OpenDeposit(m)
        PROVE  IInv'
    BY <2>6 DEF OpenDeposit, Start, LegsOf
  <2>7. ASSUME NEW m \in Msg, CommitDeposit(m)
        PROVE  IInv'
    BY <2>7 DEF CommitDeposit
  <2>8. ASSUME NEW m \in Msg, DepositExpires(m)
        PROVE  IInv'
    BY <2>8 DEF DepositExpires
  <2>9. ASSUME NEW l \in Leg, FindRow(l)
        PROVE  IInv'
    BY <2>9 DEF FindRow, dbVars
  <2>10. ASSUME NEW l \in Leg, InsertHistory(l)
         PROVE  IInv'
    BY <2>10 DEF InsertHistory
  <2>11. ASSUME NEW l \in Leg, UpdateMany(l)
         PROVE  IInv'
    BY <2>11 DEF UpdateMany
  <2>12. ASSUME NEW l \in Leg, InsertCbTrans(l)
         PROVE  IInv'
    BY <2>12 DEF InsertCbTrans
  <2>13. ASSUME NEW l \in Leg, StatementFails(l)
         PROVE  IInv'
    BY <2>13 DEF StatementFails, Running, dbVars
  <2>14. CASE Crash
    BY <2>14 DEF Crash, Running
  <2>15. CASE UNCHANGED vars
    BY <2>15 DEF vars, dbVars
  <2> QED
    BY <2>1, <2>2, <2>3, <2>4, <2>5, <2>6, <2>7, <2>8, <2>9, <2>10, <2>11,
       <2>12, <2>13, <2>14, <2>15 DEF Next, HandlerStep, LegStep
<1> QED
  BY <1>1, <1>2, TypeCorrect, PTL DEF Spec

\* The audit trail survives every interleaving, error and crash.
THEOREM AuditTrailHolds == Spec => []AuditTrail
BY Invariance, PTL DEF IInv

\* updateBalance never throws LockVersionMismatchException.
THEOREM NoMismatch == Spec => []LockVersionNeverMismatches
BY Invariance, PTL DEF IInv

\* The wallet implements the atomic ledger.
THEOREM Refinement == Spec => LedgerSpec
<1> USE WalletAssumption
<1>1. Init => Balances!Init
  BY DEF Init, Balances!Init
<1>2. IInv /\ [Next]_vars => [Balances!Next]_(Balances!vars)
  <2> SUFFICES ASSUME IInv, [Next]_vars
               PROVE  \/ Balances!Next
                      \/ UNCHANGED <<amount, posted>>
    BY DEF Balances!vars
  <2>1. ASSUME NEW l \in Leg, UpdateMany(l)
        PROVE  Balances!Next
    <3>1. step[l] = "update" /\ RowMatches(l) /\ l \notin posted
      BY <2>1 DEF IInv, LegInv, UpdateMany
    <3>2. Balances!Post(l)
      BY <2>1, <3>1 DEF UpdateMany, Balances!Post
    <3> QED
      BY <3>2 DEF Balances!Next
  <2>2. ASSUME NEW m \in Msg,
               Deliver(m) \/ HandlerStep(m) \/ DepositExpires(m)
        PROVE  UNCHANGED <<amount, posted>>
    BY <2>2 DEF Deliver, HandlerStep, DepositExpires, HandlerThrows,
       NoneAccountReferral, AccountReferral, OpenDeposit, CommitDeposit, dbVars
  <2>3. ASSUME NEW l \in Leg,
               \/ FindRow(l) \/ InsertHistory(l) \/ InsertCbTrans(l)
               \/ StatementFails(l)
        PROVE  UNCHANGED <<amount, posted>>
    BY <2>3 DEF FindRow, InsertHistory, InsertCbTrans, StatementFails, dbVars
  <2>4. ASSUME NEW a \in Account, SaveAccount(a)
        PROVE  UNCHANGED <<amount, posted>>
    BY <2>4 DEF SaveAccount
  <2>5. CASE Crash \/ UNCHANGED vars
    BY <2>5 DEF Crash, vars, dbVars
  <2> QED
    BY <2>1, <2>2, <2>3, <2>4, <2>5 DEF Next, LegStep
<1> QED
  BY <1>1, <1>2, Invariance, PTL DEF Spec, LedgerSpec, Balances!Spec

\* A settled referral and a successful order were paid.
THEOREM PaidHolds == Spec => [](ReferralPaid /\ DepositPaid)
<1> USE WalletAssumption
<1> DEFINE Paid == ReferralPaid /\ DepositPaid
<1>1. Init => Paid
  BY DEF Init, ReferralPaid, DepositPaid
<1>2. IInv /\ Paid /\ [Next]_vars => Paid'
  <2> SUFFICES ASSUME IInv, Paid, [Next]_vars
               PROVE  Paid'
    OBVIOUS
  <2>1. cbTrans \subseteq cbTrans'
    BY DEF Next, LegStep, HandlerStep, vars, dbVars, SaveAccount, Deliver,
       HandlerThrows, NoneAccountReferral, AccountReferral, OpenDeposit,
       CommitDeposit, DepositExpires, FindRow, InsertHistory, UpdateMany,
       InsertCbTrans, StatementFails, Crash
  <2>2. ASSUME NEW m \in Msg, AllDone(m)
        PROVE  LegsOf(m) \subseteq cbTrans
    BY <2>2 DEF AllDone, LegsOf, IInv, LegInv
  <2>3. ReferralPaid'
    <3>1. ASSUME NEW a \in referrals', a \notin referrals
          PROVE  \E m \in Msg : /\ Pattern[m] = "ACCOUNT_REFERRAL"
                                /\ ReferralFrom[m] = a
                                /\ AllDone(m)
      BY <3>1 DEF Next, LegStep, HandlerStep, vars, dbVars, SaveAccount, Deliver,
         HandlerThrows, NoneAccountReferral, AccountReferral, OpenDeposit,
         CommitDeposit, DepositExpires, FindRow, InsertHistory, UpdateMany,
         InsertCbTrans, StatementFails, Crash
    <3> QED
      BY <2>1, <2>2, <3>1 DEF ReferralPaid
  <2>4. DepositPaid'
    <3>1. ASSUME NEW o \in Order, order'[o] = "SUCCESS", order[o] # "SUCCESS"
          PROVE  \E m \in Msg : /\ Pattern[m] = "USER_DEPOSIT"
                                /\ OrderOf[m] = o
                                /\ AllDone(m)
      BY <3>1 DEF IInv, TypeOK, Next, LegStep, HandlerStep, vars, dbVars,
         SaveAccount, Deliver, HandlerThrows, NoneAccountReferral,
         AccountReferral, OpenDeposit, CommitDeposit, DepositExpires, FindRow,
         InsertHistory, UpdateMany, InsertCbTrans, StatementFails, Crash
    <3> QED
      BY <2>1, <2>2, <3>1 DEF DepositPaid
  <2> QED
    BY <2>3, <2>4
<1> QED
  BY <1>1, <1>2, Invariance, PTL DEF Spec

\* A referral row tells of two recorded credits, although its three writes
\* share no transaction.
THEOREM ReferralIsPaid == Spec => []ReferralPaid
<1>1. (ReferralPaid /\ DepositPaid) => ReferralPaid
  OBVIOUS
<1> QED
  BY PaidHolds, <1>1, PTL

-----------------------------------------------------------------------------
(* The pool.  The rows of its histories are computed from what a call read *)
(* first.  RowsInv says where a call that no other one disturbed stands:   *)
(* the pool differs from what it read by exactly the statements it has run. *)

\* The statements of each method.
Statements(c) ==
    CASE Method[c] = "claim" -> {"egg", "eggRow", "strictRate", "commit"}
      [] Method[c] = "buy"   -> {"bbc", "bbcRow", "rate", "rateRow", "commit"}
      [] Method[c] = "sell"  -> {"egg", "eggRow", "bbc", "bbcRow", "rate",
                                 "rateRow", "commit"}
      [] OTHER -> {"both", "bbcRow", "eggRow", "rate", "rateRow", "commit"}

StepOK == \A c \in Call : pc[c] \in Ended \cup {"new"} \cup Statements(c)

TypeInv == PoolTypeOK /\ StepOK

\* Whether a call has yet to update the one and the other value.
EggAhead(c) == pc[c] \in {"new", "egg", "both"}
BbcAhead(c) == \/ pc[c] \in {"new", "both", "bbc"}
               \/ Method[c] = "sell" /\ pc[c] \in {"egg", "eggRow"}

\* The committed values as the call has left them.
EggNow(c) == IF EggAhead(c) THEN seenEgg[c] ELSE seenEgg[c] + EggMove(c)
BbcNow(c) == IF BbcAhead(c) \/ InTransaction(c) THEN seenBbc[c]
             ELSE seenBbc[c] + BbcMove(c)

Undisturbed(c) == Open(c) => egg = EggNow(c) /\ bbc = BbcNow(c)

AfterExact(c) ==
    /\ Open(c) /\ ~EggAhead(c) /\ Method[c] # "buy"
          => afterEgg[c] = seenEgg[c] + EggMove(c)
    /\ Open(c) /\ ~BbcAhead(c) /\ Method[c] # "claim"
          => afterBbc[c] = seenBbc[c] + BbcMove(c)

QuoteExact(c) ==
    Method[c] # "claim" /\ pc[c] \in {"rateRow", "commit"} =>
        quote[c] = <<BbcNow(c), EggNow(c)>>

EggRowExact(c) ==
    eggRow[c] # NoRow => ~EggAhead(c) /\ eggRow[c].last = afterEgg[c]
BbcRowExact(c) ==
    bbcRow[c] # NoRow => ~BbcAhead(c) /\ bbcRow[c].last = afterBbc[c]
RateRowExact(c) ==
    rateRow[c] # NoRow =>
        /\ pc[c] # "new" /\ ~EggAhead(c) /\ ~BbcAhead(c)
        /\ Method[c] # "claim" =>
              rateRow[c][1] = seenBbc[c] + IF InTransaction(c) THEN 0
                                           ELSE BbcMove(c)
        /\ rateRow[c][2] = seenEgg[c] + EggMove(c)

RowsInv ==
    /\ TypeInv
    /\ \A c \in Call \ overlapped :
          /\ Undisturbed(c) /\ AfterExact(c) /\ QuoteExact(c)
          /\ EggRowExact(c) /\ BbcRowExact(c) /\ RateRowExact(c)

-----------------------------------------------------------------------------
(* The methods                                                             *)

LEMMA Moves ==
    ASSUME NEW c \in Call
    PROVE  /\ Method[c] \in Methods
           /\ EggMove(c) \in Int /\ BbcMove(c) \in Int
           /\ Method[c] = "buy" => EggMove(c) = 0
           /\ Method[c] = "claim" => BbcMove(c) = 0
<1>1. Method[c] \in Methods /\ Egg[c] \in Nat /\ Bbc[c] \in Nat
      BY PoolAssumption
<1>2. CASE Method[c] = "claim"
      BY <1>1, <1>2 DEF EggMove, BbcMove
<1>3. CASE Method[c] = "buy"
      BY <1>1, <1>3 DEF EggMove, BbcMove
<1>4. CASE Method[c] = "sell"
      BY <1>1, <1>4 DEF EggMove, BbcMove
<1>5. CASE Method[c] = "deposit"
      BY <1>1, <1>5 DEF EggMove, BbcMove
<1>6. CASE Method[c] = "withdraw"
      BY <1>1, <1>6 DEF EggMove, BbcMove
<1> QED BY <1>1, <1>2, <1>3, <1>4, <1>5, <1>6 DEF Methods

\* Which statement follows which, for all methods at once.
LEMMA Follows ==
    ASSUME NEW c \in Call
    PROVE  /\ Script(c)["start"] = CASE Method[c] \in {"claim", "sell"} -> "egg"
                                     [] Method[c] = "buy" -> "bbc"
                                     [] OTHER -> "both"
           /\ Method[c] \in {"claim", "sell"} => Script(c)["egg"] = "eggRow"
           /\ Method[c] \in {"buy", "sell"} => Script(c)["bbc"] = "bbcRow"
           /\ Method[c] \in {"deposit", "withdraw"} =>
                 Script(c)["both"] \in {"bbcRow", "eggRow", "rate"}
           /\ Method[c] = "claim" => Script(c)["eggRow"] = "strictRate"
           /\ Method[c] = "sell" => Script(c)["eggRow"] = "bbc"
           /\ Method[c] \in {"deposit", "withdraw"} =>
                 Script(c)["eggRow"] = "rate"
           /\ Method[c] \in {"buy", "sell"} => Script(c)["bbcRow"] = "rate"
           /\ Method[c] \in {"deposit", "withdraw"} =>
                 Script(c)["bbcRow"] \in {"eggRow", "rate"}
           /\ Method[c] # "claim" => /\ Script(c)["rate"] = "rateRow"
                                     /\ Script(c)["rateRow"] = "commit"
           /\ Method[c] = "claim" => Script(c)["strictRate"] = "commit"
           /\ Script(c)["commit"] = "done"
<1>1. Method[c] \in Methods
      BY Moves
<1>2. CASE Method[c] = "claim"
      BY <1>2 DEF Script, UpdatePoolClaimGoldenEgg
<1>3. CASE Method[c] = "buy"
      BY <1>3 DEF Script, UpdatePoolBuyEggEvent
<1>4. CASE Method[c] = "sell"
      BY <1>4 DEF Script, UpdatePoolSellGoldenEgg
<1>5. CASE Method[c] = "deposit"
      BY <1>5 DEF Script, DepositPoolValue
<1>6. CASE Method[c] = "withdraw"
      BY <1>6 DEF Script, WithdrawalPoolValue, DepositPoolValue
<1> QED BY <1>1, <1>2, <1>3, <1>4, <1>5, <1>6 DEF Methods

\* A statement is one of its method's.
LEMMA StatementsOf ==
    ASSUME NEW c \in Call
    PROVE  /\ "egg" \in Statements(c) => Method[c] \in {"claim", "sell"}
           /\ "bbc" \in Statements(c) => Method[c] \in {"buy", "sell"}
           /\ "both" \in Statements(c) => Method[c] \in {"deposit", "withdraw"}
           /\ "eggRow" \in Statements(c) => Method[c] # "buy"
           /\ "bbcRow" \in Statements(c) => Method[c] # "claim"
           /\ "rate" \in Statements(c) => Method[c] # "claim"
           /\ "rateRow" \in Statements(c) => Method[c] # "claim"
           /\ "strictRate" \in Statements(c) => Method[c] = "claim"
           /\ Method[c] \in {"claim", "sell"} => {"egg", "eggRow"} \subseteq Statements(c)
           /\ Method[c] = "claim" => "strictRate" \in Statements(c)
           /\ Method[c] \in {"buy", "sell"} => {"bbc", "bbcRow"} \subseteq Statements(c)
           /\ Method[c] \in {"deposit", "withdraw"} =>
                 {"both", "bbcRow", "eggRow"} \subseteq Statements(c)
           /\ Method[c] # "claim" => {"rate", "rateRow"} \subseteq Statements(c)
           /\ "commit" \in Statements(c)
<1>1. Method[c] \in Methods
      BY Moves
<1>2. CASE Method[c] = "claim"
      BY <1>2 DEF Statements
<1>3. CASE Method[c] = "buy"
      BY <1>3 DEF Statements
<1>4. CASE Method[c] = "sell"
      BY <1>4 DEF Statements
<1>5. CASE Method[c] \in {"deposit", "withdraw"}
      BY <1>5 DEF Statements
<1> QED BY <1>1, <1>2, <1>3, <1>4, <1>5 DEF Methods

-----------------------------------------------------------------------------
LEMMA PoolTypeInit == PoolInit => TypeInv
BY PoolAssumption DEF PoolInit, TypeInv, PoolTypeOK, StepOK, Ended

\* Each step keeps the types, and its call among its method's statements.
LEMMA PoolTypeStep == TypeInv /\ [PoolNext]_poolVars => TypeInv'
<1> SUFFICES ASSUME TypeInv, [PoolNext]_poolVars PROVE TypeInv'
    OBVIOUS
<1> USE DEF TypeInv, PoolTypeOK, Goes, Overlaps
<1>1. CASE UNCHANGED poolVars
      BY <1>1 DEF poolVars, seen, rows, after, StepOK
<1>2. CASE PoolCrash
      BY <1>2 DEF PoolCrash, seen, rows, after, StepOK, Ended
<1>3. ASSUME NEW c \in Call, Step(c) PROVE TypeInv'
  <2> DEFINE At == Ended \cup {"new"} \cup Statements(c)
  <2>0. /\ EggMove(c) \in Int /\ BbcMove(c) \in Int /\ Method[c] \in Methods
        /\ pc[c] \in At
        BY Moves DEF StepOK
  <2>1. ASSUME NEW s \in At, pc' = [pc EXCEPT ![c] = s]
        PROVE  StepOK' /\ pc' \in [Call -> Ended \cup {"new", "egg", "eggRow",
                   "bbc", "bbcRow", "both", "rate", "rateRow", "strictRate",
                   "commit"}]
    <3>1. s \in Ended \cup {"new", "egg", "eggRow", "bbc", "bbcRow", "both",
                         "rate", "rateRow", "strictRate", "commit"}
          BY <2>0 DEF Statements, Methods
    <3> QED BY <2>1, <3>1 DEF StepOK
  <2>2. CASE ReadPoolValue(c)
    <3>1. Script(c)["start"] \in At
          BY <2>0, Follows, StatementsOf DEF Methods
    <3> QED BY <2>1, <2>2, <3>1 DEF ReadPoolValue, rows, after, Ended
  <2>3. CASE UpdateEgg(c)
    <3>1. Script(c)["egg"] \in At
          BY <2>0, <2>3, Follows, StatementsOf DEF UpdateEgg, Ended
    <3>2. egg' \in Int /\ afterEgg' \in [Call -> Int]
          BY <2>0, <2>3 DEF UpdateEgg
    <3>3. overlapped' \subseteq Call
          BY <2>3 DEF UpdateEgg
    <3> QED BY <2>1, <2>3, <3>1, <3>2, <3>3 DEF UpdateEgg, seen, rows
  <2>4. CASE UpdateBbc(c)
    <3>1. Script(c)["bbc"] \in At
          BY <2>0, <2>4, Follows, StatementsOf DEF UpdateBbc, Ended
    <3>2. bbc' \in Int /\ afterBbc' \in [Call -> Int]
          BY <2>0, <2>4 DEF UpdateBbc
    <3>3. overlapped' \subseteq Call
          BY <2>4 DEF UpdateBbc
    <3> QED BY <2>1, <2>4, <3>1, <3>2, <3>3 DEF UpdateBbc, seen, rows
  <2>5. CASE UpdateBoth(c)
    <3>1. Script(c)["both"] \in At
          BY <2>0, <2>5, Follows, StatementsOf, SMTT(30) DEF UpdateBoth, Ended
    <3>2. /\ egg' \in Int /\ afterEgg' \in [Call -> Int]
          /\ bbc' \in Int /\ afterBbc' \in [Call -> Int]
          BY <2>0, <2>5 DEF UpdateBoth
    <3>3. overlapped' \subseteq Call
          BY <2>5 DEF UpdateBoth
    <3> QED BY <2>1, <2>5, <3>1, <3>2, <3>3 DEF UpdateBoth, seen, rows
  <2>6. CASE LockAndUpdate(c)
    <3>1. Script(c)["bbc"] \in At
          BY <2>0, <2>6, Follows, StatementsOf DEF LockAndUpdate, Ended
    <3>2. afterBbc' \in [Call -> Int] /\ holder' \in Call
          BY <2>0, <2>6 DEF LockAndUpdate
    <3>3. overlapped' \subseteq Call
          BY <2>6 DEF LockAndUpdate
    <3> QED BY <2>1, <2>6, <3>1, <3>2, <3>3 DEF LockAndUpdate, seen, rows
  <2>7. CASE CreateEggRow(c)
    <3>1. Script(c)["eggRow"] \in At
          BY <2>0, <2>7, Follows, StatementsOf DEF CreateEggRow, Ended, Methods
    <3>2. [moved |-> EggMove(c), last |-> seenEgg[c] + EggMove(c)] \in HistoryRow
          BY <2>0 DEF HistoryRow
    <3> QED BY <2>1, <2>7, <3>1, <3>2 DEF CreateEggRow, seen, after
  <2>8. BbcRowOf(c) \in HistoryRow
        BY <2>0 DEF BbcRowOf, HistoryRow
  <2>9. CASE CreateBbcRow(c)
    <3>1. Script(c)["bbcRow"] \in At
          BY <2>0, <2>9, Follows, StatementsOf DEF CreateBbcRow, Ended, Methods
    <3> QED BY <2>1, <2>8, <2>9, <3>1 DEF CreateBbcRow, seen, after
  <2>10. CASE ReadRate(c)
    <3>1. Script(c)["rate"] \in At
          BY <2>0, <2>10, Follows, StatementsOf DEF ReadRate, Ended
    <3> QED BY <2>1, <2>10, <3>1 DEF ReadRate, seen, rows, after
  <2>11. CASE CreateRateRow(c)
    <3>1. Script(c)["rateRow"] \in At
          BY <2>0, <2>11, Follows, StatementsOf DEF CreateRateRow, Ended
    <3> QED BY <2>1, <2>11, <3>1 DEF CreateRateRow, seen, after
  <2>12. CASE CreatePoolRateHistory(c)
    <3>1. Script(c)["strictRate"] \in At
          BY <2>0, <2>12, Follows, StatementsOf DEF CreatePoolRateHistory, Ended
    <3>2. CASE egg = 0
          BY <2>1, <2>12, <3>2 DEF CreatePoolRateHistory, seen, after, Ended
    <3>3. CASE egg # 0
      <4>1. <<bbc, egg>> \in Int \X Int
            OBVIOUS
      <4> QED BY <2>1, <2>12, <3>1, <3>3, <4>1, SMTT(30)
              DEF CreatePoolRateHistory, seen, after
    <3> QED BY <3>2, <3>3
  <2>13. CASE Commit(c)
    <3>1. Script(c)["commit"] \in At
          BY Follows DEF Ended
    <3>2. bbc' \in Int /\ overlapped' \subseteq Call
          BY <2>0, <2>13 DEF Commit
    <3>3. rateRow' \in [Call -> (Int \X Int) \cup {NoRow}]
          BY <2>13 DEF Commit
    <3>4. bbcRow' \in [Call -> HistoryRow \cup {NoRow}] /\ holder' \in Call \cup {NoCall}
          BY <2>8, <2>13 DEF Commit
    <3> QED BY <2>1, <2>13, <3>1, <3>2, <3>3, <3>4 DEF Commit, seen, after
  <2>14. CASE Fails(c)
        BY <2>1, <2>14 DEF Fails, Release, seen, rows, after, Ended
  <2> QED BY <1>3, <2>2, <2>3, <2>4, <2>5, <2>6, <2>7, <2>9, <2>10, <2>11,
             <2>12, <2>13, <2>14 DEF Step
<1> QED BY <1>1, <1>2, <1>3 DEF PoolNext

\* Types of the pool, its calls and its rows.
THEOREM PoolTypeCorrect == PoolSpec => []PoolTypeOK
<1>1. TypeInv => PoolTypeOK
      BY DEF TypeInv
<1> QED BY <1>1, PoolTypeInit, PoolTypeStep, PTL DEF PoolSpec

-----------------------------------------------------------------------------
(* The rows                                                                *)

Exact(c) == /\ Undisturbed(c) /\ AfterExact(c) /\ QuoteExact(c)
            /\ EggRowExact(c) /\ BbcRowExact(c) /\ RateRowExact(c)

\* A step leaves what other calls have read and written, and one that moves
\* the pool overlaps with all that are open.
LEMMA StepFrame ==
    ASSUME TypeInv, NEW x \in Call, Step(x), NEW c \in Call \ {x}
    PROVE  /\ pc'[c] = pc[c] /\ seenEgg'[c] = seenEgg[c] /\ seenBbc'[c] = seenBbc[c]
           /\ quote'[c] = quote[c] /\ eggRow'[c] = eggRow[c]
           /\ bbcRow'[c] = bbcRow[c] /\ rateRow'[c] = rateRow[c]
           /\ afterEgg'[c] = afterEgg[c] /\ afterBbc'[c] = afterBbc[c]
           /\ overlapped \subseteq overlapped'
           /\ UNCHANGED <<egg, bbc>> \/ (Open(c) => c \in overlapped')
<1> USE DEF TypeInv, PoolTypeOK, Goes, Overlaps, seen, rows, after
<1>1. CASE ReadPoolValue(x) \/ ReadRate(x) \/ CreateEggRow(x) \/ Fails(x)
      BY <1>1 DEF ReadPoolValue, ReadRate, CreateEggRow, Fails
<1>2. CASE UpdateEgg(x)
      BY <1>2 DEF UpdateEgg
<1>3. CASE UpdateBbc(x)
      BY <1>3 DEF UpdateBbc
<1>4. CASE UpdateBoth(x)
      BY <1>4 DEF UpdateBoth
<1>5. CASE LockAndUpdate(x)
      BY <1>5 DEF LockAndUpdate
<1>6. CASE CreateBbcRow(x) \/ CreateRateRow(x) \/ CreatePoolRateHistory(x)
      BY <1>6 DEF CreateBbcRow, CreateRateRow, CreatePoolRateHistory
<1>7. CASE Commit(x)
      BY <1>7 DEF Commit
<1> QED BY <1>1, <1>2, <1>3, <1>4, <1>5, <1>6, <1>7 DEF Step

\* So it leaves the others exact.
LEMMA OthersExact ==
    ASSUME TypeInv, NEW x \in Call, Step(x),
           NEW c \in Call \ {x}, Exact(c), c \notin overlapped'
    PROVE  Exact(c)'
<1>1. /\ pc'[c] = pc[c] /\ seenEgg'[c] = seenEgg[c] /\ seenBbc'[c] = seenBbc[c]
      /\ quote'[c] = quote[c] /\ eggRow'[c] = eggRow[c]
      /\ bbcRow'[c] = bbcRow[c] /\ rateRow'[c] = rateRow[c]
      /\ afterEgg'[c] = afterEgg[c] /\ afterBbc'[c] = afterBbc[c]
      /\ UNCHANGED <<egg, bbc>> \/ ~Open(c)
      BY StepFrame
<1>2. /\ EggNow(c)' = EggNow(c) /\ BbcNow(c)' = BbcNow(c)
      /\ EggAhead(c)' = EggAhead(c) /\ BbcAhead(c)' = BbcAhead(c)
      BY <1>1 DEF EggNow, BbcNow, EggAhead, BbcAhead, EggMove, BbcMove, InTransaction
<1>3. Undisturbed(c)'
      BY <1>1, <1>2 DEF Exact, Undisturbed, Open
<1>4. AfterExact(c)'
      BY <1>1, <1>2 DEF Exact, AfterExact, Open, EggMove, BbcMove
<1>5. QuoteExact(c)'
      BY <1>1, <1>2 DEF Exact, QuoteExact
<1>6. EggRowExact(c)' /\ BbcRowExact(c)'
      BY <1>1, <1>2 DEF Exact, EggRowExact, BbcRowExact
<1>7. RateRowExact(c)'
      BY <1>1, <1>2 DEF Exact, RateRowExact, EggMove, BbcMove, InTransaction
<1> QED BY <1>3, <1>4, <1>5, <1>6, <1>7 DEF Exact

\* And its own call, as long as no other one disturbs it.
LEMMA OwnExact ==
    ASSUME TypeInv, NEW c \in Call, Step(c), Exact(c)
    PROVE  Exact(c)'
<1> USE DEF Goes, Open, Ended
<1>0. /\ PoolTypeOK /\ pc[c] \in Ended \cup {"new"} \cup Statements(c)
      /\ EggMove(c) \in Int /\ BbcMove(c) \in Int /\ Method[c] \in Methods
      /\ Method[c] = "buy" => EggMove(c) = 0
      /\ Method[c] = "claim" => BbcMove(c) = 0
      BY Moves DEF TypeInv, StepOK
<1>e. /\ seenEgg[c] \in Int /\ seenBbc[c] \in Int /\ egg \in Int /\ bbc \in Int
      BY <1>0 DEF PoolTypeOK
<1>m. EggMove(c)' = EggMove(c) /\ BbcMove(c)' = BbcMove(c)
      BY DEF EggMove, BbcMove
<1>x. /\ Undisturbed(c) /\ AfterExact(c) /\ QuoteExact(c)
      /\ EggRowExact(c) /\ BbcRowExact(c) /\ RateRowExact(c)
      BY DEF Exact
<1>1. CASE ReadPoolValue(c)
  <2>1. eggRow[c] = NoRow /\ bbcRow[c] = NoRow /\ rateRow[c] = NoRow
        BY <1>x, <1>1 DEF ReadPoolValue, EggRowExact, BbcRowExact, RateRowExact,
                          EggAhead, BbcAhead
  <2>2. /\ eggRow' = eggRow /\ bbcRow' = bbcRow /\ rateRow' = rateRow
        /\ egg' = egg /\ bbc' = bbc
        /\ seenEgg'[c] = egg /\ seenBbc'[c] = bbc
        BY <1>0, <1>1 DEF ReadPoolValue, PoolTypeOK, rows
  <2>3. CASE pc'[c] = "done"
        BY <2>1, <2>2, <2>3
        DEF Exact, Undisturbed, AfterExact, QuoteExact, EggRowExact,
            BbcRowExact, RateRowExact
  <2>4. CASE pc'[c] = Script(c)["start"]
    <3>1. /\ Method[c] \in {"claim", "sell"} => pc'[c] = "egg"
          /\ Method[c] = "buy" => pc'[c] = "bbc"
          /\ Method[c] \in {"deposit", "withdraw"} => pc'[c] = "both"
          BY <2>4, Follows
    <3>2. EggNow(c)' = egg /\ BbcNow(c)' = bbc
          BY <1>0, <1>e, <1>m, <2>2, <3>1
          DEF EggNow, BbcNow, EggAhead, BbcAhead, InTransaction, Methods
    <3>3. AfterExact(c)' /\ QuoteExact(c)'
          BY <1>0, <3>1 DEF AfterExact, QuoteExact, EggAhead, BbcAhead, Methods
    <3> QED BY <2>1, <2>2, <3>2, <3>3
            DEF Exact, Undisturbed, EggRowExact, BbcRowExact, RateRowExact
  <2> QED BY <1>0, <1>1, <2>3, <2>4 DEF ReadPoolValue, PoolTypeOK
<1>2. CASE UpdateEgg(c)
  <2>1. /\ pc[c] = "egg" /\ pc'[c] = Script(c)["egg"]
        /\ egg' = egg + EggMove(c) /\ bbc' = bbc /\ afterEgg'[c] = egg'
        /\ afterBbc' = afterBbc
        BY <1>0, <1>2 DEF UpdateEgg, PoolTypeOK
  <2>2. UNCHANGED <<seenEgg, seenBbc, quote, eggRow, bbcRow, rateRow>>
        BY <1>2 DEF UpdateEgg, seen, rows
  <2>3. Method[c] # "buy" \/ InTransaction(c)
        BY DEF InTransaction
  <2> QED BY <1>0, <1>e, <1>m, <1>x, <1>2, <2>1, <2>2, <2>3, Follows, StatementsOf
          DEF Exact, UpdateEgg, Undisturbed, AfterExact, QuoteExact, EggRowExact, BbcRowExact,
              RateRowExact, EggNow, BbcNow, EggAhead, BbcAhead, InTransaction, Methods
<1>3. CASE UpdateBbc(c)
  <2>1. /\ pc[c] = "bbc" /\ pc'[c] = Script(c)["bbc"]
        /\ bbc' = bbc + BbcMove(c) /\ egg' = egg /\ afterBbc'[c] = bbc'
        /\ afterEgg' = afterEgg
        BY <1>0, <1>3 DEF UpdateBbc, PoolTypeOK
  <2>2. UNCHANGED <<seenEgg, seenBbc, quote, eggRow, bbcRow, rateRow>>
        BY <1>3 DEF UpdateBbc, seen, rows
  <2>3. Method[c] # "buy" \/ InTransaction(c)
        BY DEF InTransaction
  <2> QED BY <1>0, <1>e, <1>m, <1>x, <1>3, <2>1, <2>2, <2>3, Follows, StatementsOf
          DEF Exact, UpdateBbc, Undisturbed, AfterExact, QuoteExact, EggRowExact, BbcRowExact,
              RateRowExact, EggNow, BbcNow, EggAhead, BbcAhead, InTransaction, Methods
<1>4. CASE UpdateBoth(c)
  <2>1. /\ pc[c] = "both" /\ pc'[c] = Script(c)["both"]
        /\ egg' = egg + EggMove(c) /\ bbc' = bbc + BbcMove(c)
        /\ afterEgg'[c] = egg' /\ afterBbc'[c] = bbc'
        BY <1>0, <1>4 DEF UpdateBoth, PoolTypeOK
  <2>2. UNCHANGED <<seenEgg, seenBbc, quote, eggRow, bbcRow, rateRow>>
        BY <1>4 DEF UpdateBoth, seen, rows
  <2>3. Method[c] # "buy" \/ InTransaction(c)
        BY DEF InTransaction
  <2> QED BY <1>0, <1>e, <1>m, <1>x, <1>4, <2>1, <2>2, <2>3, Follows, StatementsOf
          DEF Exact, UpdateBoth, Undisturbed, AfterExact, QuoteExact, EggRowExact, BbcRowExact,
              RateRowExact, EggNow, BbcNow, EggAhead, BbcAhead, InTransaction, Methods
<1>5. CASE LockAndUpdate(c)
  <2>1. /\ pc[c] = "bbc" /\ pc'[c] = Script(c)["bbc"]
        /\ bbc' = bbc /\ egg' = egg /\ afterBbc'[c] = bbc + BbcMove(c)
        /\ afterEgg' = afterEgg
        BY <1>0, <1>5 DEF LockAndUpdate, PoolTypeOK
  <2>2. UNCHANGED <<seenEgg, seenBbc, quote, eggRow, bbcRow, rateRow>>
        BY <1>5 DEF LockAndUpdate, seen, rows
  <2>3. Method[c] # "buy" \/ InTransaction(c)
        BY DEF InTransaction
  <2> QED BY <1>0, <1>e, <1>m, <1>x, <1>5, <2>1, <2>2, <2>3, Follows, StatementsOf
          DEF Exact, LockAndUpdate, Undisturbed, AfterExact, QuoteExact, EggRowExact, BbcRowExact,
              RateRowExact, EggNow, BbcNow, EggAhead, BbcAhead, InTransaction, Methods
<1>6. CASE CreateEggRow(c)
  <2>1. /\ pc[c] = "eggRow" /\ pc'[c] = Script(c)["eggRow"]
        /\ eggRow'[c].last = seenEgg[c] + EggMove(c)
        /\ UNCHANGED <<bbcRow, rateRow, quote>>
        BY <1>0, <1>6 DEF CreateEggRow, PoolTypeOK, rows
  <2>2. UNCHANGED <<egg, bbc, seenEgg, seenBbc, afterEgg, afterBbc>>
        BY <1>6 DEF CreateEggRow, seen, after
  <2> QED BY <1>0, <1>e, <1>m, <1>x, <2>1, <2>2, Follows, StatementsOf
          DEF Exact, Undisturbed, AfterExact, QuoteExact, EggRowExact, BbcRowExact,
              RateRowExact, EggNow, BbcNow, EggAhead, BbcAhead, InTransaction, Methods
<1>7. CASE CreateBbcRow(c)
  <2>1. /\ pc[c] = "bbcRow" /\ pc'[c] = Script(c)["bbcRow"]
        /\ bbcRow'[c] = bbcRow[c]
              \/ bbcRow'[c].last = seenBbc[c] + BbcMove(c)
        /\ UNCHANGED <<eggRow, rateRow, quote>>
        BY <1>0, <1>7 DEF CreateBbcRow, BbcRowOf, PoolTypeOK, rows
  <2>2. UNCHANGED <<egg, bbc, seenEgg, seenBbc, afterEgg, afterBbc>>
        BY <1>7 DEF CreateBbcRow, seen, after
  <2> QED BY <1>0, <1>e, <1>m, <1>x, <2>1, <2>2, Follows, StatementsOf
          DEF Exact, Undisturbed, AfterExact, QuoteExact, EggRowExact, BbcRowExact,
              RateRowExact, EggNow, BbcNow, EggAhead, BbcAhead, InTransaction, Methods
<1>8. CASE ReadRate(c)
  <2>1. /\ pc[c] = "rate" /\ pc'[c] = Script(c)["rate"]
        /\ quote'[c] = <<bbc, egg>>
        /\ UNCHANGED <<eggRow, bbcRow, rateRow>>
        BY <1>0, <1>8 DEF ReadRate, PoolTypeOK, rows
  <2>2. UNCHANGED <<egg, bbc, seenEgg, seenBbc, afterEgg, afterBbc>>
        BY <1>8 DEF ReadRate, seen, after
  <2> QED BY <1>0, <1>e, <1>m, <1>x, <2>1, <2>2, Follows, StatementsOf
          DEF Exact, Undisturbed, AfterExact, QuoteExact, EggRowExact, BbcRowExact,
              RateRowExact, EggNow, BbcNow, EggAhead, BbcAhead, InTransaction, Methods
<1>9. CASE CreateRateRow(c)
  <2>1. /\ pc[c] = "rateRow" /\ pc'[c] = Script(c)["rateRow"]
        /\ rateRow'[c] = rateRow[c] \/ rateRow'[c] = quote[c]
        /\ UNCHANGED <<eggRow, bbcRow, quote>>
        BY <1>0, <1>9 DEF CreateRateRow, PoolTypeOK, rows
  <2>2. UNCHANGED <<egg, bbc, seenEgg, seenBbc, afterEgg, afterBbc>>
        BY <1>9 DEF CreateRateRow, seen, after
  <2> QED BY <1>0, <1>e, <1>m, <1>x, <2>1, <2>2, Follows, StatementsOf
          DEF Exact, Undisturbed, AfterExact, QuoteExact, EggRowExact, BbcRowExact,
              RateRowExact, EggNow, BbcNow, EggAhead, BbcAhead, InTransaction, Methods
<1>10. CASE CreatePoolRateHistory(c)
  <2>1. /\ pc[c] = "strictRate" /\ pc'[c] \in {"failed", "commit"}
        /\ rateRow'[c] = rateRow[c] \/ rateRow'[c] = <<bbc, egg>>
        BY <1>0, <1>10, Follows, StatementsOf DEF CreatePoolRateHistory, PoolTypeOK
  <2>2. UNCHANGED <<egg, bbc, seenEgg, seenBbc, afterEgg, afterBbc, eggRow, bbcRow>>
        BY <1>10 DEF CreatePoolRateHistory, seen, after
  <2>3. Method[c] = "claim"
        BY <1>0, <2>1, StatementsOf
  <2> QED BY <1>0, <1>e, <1>m, <1>x, <2>1, <2>2, <2>3
          DEF Exact, Undisturbed, AfterExact, QuoteExact, EggRowExact, BbcRowExact,
              RateRowExact, EggNow, BbcNow, EggAhead, BbcAhead, InTransaction
<1>11. CASE Commit(c)
  <2>0. pc[c] = "commit" /\ pc'[c] = "done"
        BY <1>0, <1>11, Follows DEF Commit, PoolTypeOK
  <2>r. \/ rateRow'[c] = rateRow[c]
        \/ Method[c] # "claim" /\ rateRow'[c] = quote[c]
        BY <1>0, <1>11 DEF Commit, PoolTypeOK
  <2>b. \/ bbcRow'[c] = bbcRow[c]
        \/ InTransaction(c) /\ bbcRow'[c].last = seenBbc[c] + BbcMove(c)
        BY <1>0, <1>11 DEF Commit, BbcRowOf, PoolTypeOK
  <2>2. UNCHANGED <<seenEgg, seenBbc, afterEgg, afterBbc, eggRow>>
        BY <1>11 DEF Commit, seen, after
  <2> QED BY <1>0, <1>e, <1>m, <1>x, <2>0, <2>r, <2>b, <2>2
          DEF Exact, Undisturbed, AfterExact, QuoteExact, EggRowExact, BbcRowExact,
              RateRowExact, EggNow, BbcNow, EggAhead, BbcAhead, InTransaction
<1>12. CASE Fails(c)
  <2>1. Open(c) /\ pc'[c] = "failed"
        BY <1>0, <1>12 DEF Fails, PoolTypeOK
  <2>2. UNCHANGED <<seenEgg, seenBbc, afterEgg, afterBbc, eggRow, bbcRow, rateRow>>
        BY <1>12 DEF Fails, seen, after, rows
  <2> QED BY <1>m, <1>x, <2>1, <2>2
          DEF Exact, Undisturbed, AfterExact, QuoteExact, EggRowExact, BbcRowExact,
              RateRowExact, EggNow, BbcNow, EggAhead, BbcAhead, InTransaction
<1> QED BY <1>1, <1>2, <1>3, <1>4, <1>5, <1>6, <1>7, <1>8, <1>9, <1>10, <1>11, <1>12 DEF Step

\* The invariant of the rows.
LEMMA RowsStep == RowsInv /\ [PoolNext]_poolVars => RowsInv'
<1> SUFFICES ASSUME RowsInv, [PoolNext]_poolVars PROVE RowsInv'
    OBVIOUS
<1>0. TypeInv /\ TypeInv' /\ \A c \in Call \ overlapped : Exact(c)
      BY PoolTypeStep DEF RowsInv, Exact
<1> SUFFICES ASSUME NEW c \in Call, c \notin overlapped' PROVE Exact(c)'
    BY <1>0 DEF RowsInv, Exact
<1>1. CASE UNCHANGED poolVars
      BY <1>0, <1>1
      DEF poolVars, seen, rows, after, Exact, Open, EggMove, BbcMove,
          Undisturbed, AfterExact, QuoteExact, EggRowExact, BbcRowExact,
          RateRowExact, EggNow, BbcNow, EggAhead, BbcAhead, InTransaction
<1>2. CASE PoolCrash
  <2>1. /\ UNCHANGED <<overlapped, seenEgg, seenBbc, afterEgg, afterBbc, eggRow,
                       bbcRow, rateRow>>
        /\ pc'[c] = IF Open(c) THEN "lost" ELSE pc[c]
        BY <1>2 DEF PoolCrash, seen, rows, after
  <2>2. Exact(c) /\ EggMove(c)' = EggMove(c) /\ BbcMove(c)' = BbcMove(c)
        BY <1>0, <2>1 DEF EggMove, BbcMove
  <2> QED BY <2>1, <2>2
          DEF Exact, Open, Ended,
              Undisturbed, AfterExact, QuoteExact, EggRowExact, BbcRowExact,
              RateRowExact, EggNow, BbcNow, EggAhead, BbcAhead, InTransaction
<1>3. ASSUME NEW x \in Call, Step(x) PROVE Exact(c)'
  <2>1. overlapped \subseteq overlapped'
        BY <1>0, <1>3 DEF Step, ReadPoolValue, UpdateEgg, UpdateBbc, UpdateBoth,
           LockAndUpdate, CreateEggRow, CreateBbcRow, ReadRate, CreateRateRow,
           CreatePoolRateHistory, Commit, Fails, Overlaps
  <2>2. Exact(c)
        BY <1>0, <2>1
  <2>3. CASE c = x
        BY <1>0, <1>3, <2>2, <2>3, OwnExact
  <2>4. CASE c # x
        BY <1>0, <1>3, <2>2, <2>4, OthersExact
  <2> QED BY <2>3, <2>4
<1> QED BY <1>1, <1>2, <1>3 DEF PoolNext

\* The rows a call leaves are exact unless another call moved the pool while
\* it ran, whatever fails and wherever the process ends.
THEOREM RowsAreExact == PoolSpec => []RowsExact
<1>1. PoolInit => RowsInv
  <2> SUFFICES ASSUME PoolInit PROVE RowsInv
      OBVIOUS
  <2>1. \A c \in Call : Exact(c)
        BY DEF PoolInit, Exact, Open,
               Undisturbed, AfterExact, QuoteExact, EggRowExact, BbcRowExact,
               RateRowExact, EggNow, BbcNow, EggAhead, BbcAhead, InTransaction
  <2> QED BY <2>1, PoolTypeInit DEF RowsInv, Exact
<1>2. RowsInv => RowsExact
      BY DEF RowsInv, EggRowExact, BbcRowExact, RateRowExact, RowsExact
<1> QED BY <1>1, <1>2, RowsStep, PTL DEF PoolSpec

-----------------------------------------------------------------------------
(* The pool's audit: what its values and its histories add up to.          *)

\* The update is committed, and its history row is the call's next or, of a
\* deposit or a withdrawal, one of its next statements.
EggDue(c) == \/ pc[c] = "eggRow"
             \/ pc[c] = "bbcRow" /\ Method[c] \in {"deposit", "withdraw"}
BbcDue(c) == pc[c] = "bbcRow" /\ ~InTransaction(c)

\* A row is written once, and before the call ends unless nothing moved.
InTurn(c) ==
    /\ EggAhead(c) \/ EggDue(c) => eggRow[c] = NoRow
    /\ BbcAhead(c) \/ BbcDue(c) \/ (Open(c) /\ InTransaction(c))
          => bbcRow[c] = NoRow
    /\ Open(c) /\ ~EggAhead(c) /\ ~EggDue(c) /\ eggRow[c] = NoRow
          => EggMove(c) = 0
    /\ Open(c) /\ ~BbcAhead(c) /\ ~BbcDue(c) /\ bbcRow[c] = NoRow
          => InTransaction(c) \/ BbcMove(c) = 0

\* A call that is in U moved the value and has not recorded it, and one that
\* is about to record it is in U.
EggLedger(c, U) ==
    /\ c \in U => /\ eggRow[c] = NoRow /\ EggMove(c) # 0
                  /\ pc[c] \notin {"new", "done"} /\ ~EggAhead(c)
    /\ EggDue(c) /\ EggMove(c) # 0 => c \in U
BbcLedger(c, U) ==
    /\ c \in U => /\ bbcRow[c] = NoRow /\ BbcMove(c) # 0 /\ ~InTransaction(c)
                  /\ pc[c] \notin {"new", "done"} /\ ~BbcAhead(c)
    /\ BbcDue(c) /\ BbcMove(c) # 0 => c \in U

EggAudit == \E U \in SUBSET Call :
                /\ \A c \in Call : EggLedger(c, U)
                /\ Accounts(egg, OpeningEgg, eggRow, EggMoves, U)
BbcAudit == \E U \in SUBSET Call :
                /\ \A c \in Call : BbcLedger(c, U)
                /\ Accounts(bbc, OpeningBbc, bbcRow, BbcMoves, U)

AuditInv ==
    /\ TypeInv
    /\ \A c \in Call : InTurn(c)
    /\ EggAudit
    /\ BbcAudit

\* The sums of Accounts are integers.
LEMMA AccountsType ==
    ASSUME NEW row \in [Call -> HistoryRow \cup {NoRow}],
           NEW move \in [Call -> Int], NEW U \in SUBSET Call
    PROVE  /\ [c \in Call |-> Recorded(row, c)] \in [Call -> Int]
           /\ SumFunctionOnSet([c \in Call |-> Recorded(row, c)], Call) \in Int
           /\ SumFunctionOnSet(move, U) \in Int
<1>1. IsFiniteSet(Call)
      BY PoolAssumption
<1>2. \A c \in Call : Recorded(row, c) \in Int
      BY DEF Recorded, HistoryRow
<1>3. [c \in Call |-> Recorded(row, c)] \in [Call -> Int]
      BY <1>2
<1>4. SumFunctionOnSet([c \in Call |-> Recorded(row, c)], Call) \in Int
      BY <1>1, <1>3, SumAdds
<1>5. SumFunctionOnSet(move, U) \in Int
      BY <1>1, SumAdds
<1> QED BY <1>3, <1>4, <1>5

\* A call that moves the value joins U.
LEMMA AccountsMove ==
    ASSUME NEW value \in Int, NEW opening \in Int,
           NEW row \in [Call -> HistoryRow \cup {NoRow}],
           NEW move \in [Call -> Int], NEW U \in SUBSET Call,
           NEW c \in Call \ U, Accounts(value, opening, row, move, U)
    PROVE  Accounts(value + move[c], opening, row, move, U \cup {c})
<1>1. SumFunctionOnSet(move, U \cup {c}) = SumFunctionOnSet(move, U) + move[c]
      BY PoolAssumption, SumAdds
<1>2. /\ SumFunctionOnSet([x \in Call |-> Recorded(row, x)], Call) \in Int
      /\ SumFunctionOnSet(move, U) \in Int
      BY AccountsType
<1>3. move[c] \in Int
      OBVIOUS
<1> QED BY <1>1, <1>2, <1>3 DEF Accounts

\* A call that has moved it leaves U.
LEMMA AccountsLeave ==
    ASSUME NEW value \in Int, NEW opening \in Int,
           NEW row \in [Call -> HistoryRow \cup {NoRow}],
           NEW move \in [Call -> Int], NEW U \in SUBSET Call,
           NEW c \in U, Accounts(value, opening, row, move, U)
    PROVE  Accounts(value - move[c], opening, row, move, U \ {c})
<1>1. PICK T : T = U \ {c}
      OBVIOUS
<1>2. T \in SUBSET Call /\ c \in Call \ T /\ T \cup {c} = U
      BY <1>1
<1>3. SumFunctionOnSet(move, U) = SumFunctionOnSet(move, T) + move[c]
      BY <1>2, PoolAssumption, SumAdds
<1>4. /\ SumFunctionOnSet([x \in Call |-> Recorded(row, x)], Call) \in Int
      /\ SumFunctionOnSet(move, T) \in Int
      BY <1>2, AccountsType
<1>5. move[c] \in Int
      OBVIOUS
<1>6. Accounts(value - move[c], opening, row, move, T)
      BY <1>3, <1>4, <1>5 DEF Accounts
<1> QED BY <1>1, <1>6

\* A row that is written adds what it records.
LEMMA AccountsRecord ==
    ASSUME NEW value \in Int, NEW opening \in Int,
           NEW row \in [Call -> HistoryRow \cup {NoRow}],
           NEW move \in [Call -> Int], NEW U \in SUBSET Call,
           NEW c \in Call, row[c] = NoRow, NEW r \in HistoryRow,
           Accounts(value, opening, row, move, U)
    PROVE  Accounts(value + r.moved, opening, [row EXCEPT ![c] = r], move, U)
<1>1. PICK row2 : row2 = [row EXCEPT ![c] = r]
      OBVIOUS
<1>2. row2 \in [Call -> HistoryRow \cup {NoRow}]
      BY <1>1
<1>3. PICK f : f = [x \in Call |-> Recorded(row, x)]
      OBVIOUS
<1>4. PICK g : g = [x \in Call |-> Recorded(row2, x)]
      OBVIOUS
<1>5. f \in [Call -> Int] /\ g \in [Call -> Int]
      BY <1>2, <1>3, <1>4, AccountsType
<1>6. r.moved \in Int /\ r # NoRow
      BY PoolAssumption DEF HistoryRow
<1>7. f[c] = 0 /\ g[c] = r.moved
      BY <1>1, <1>3, <1>4, <1>6 DEF Recorded
<1>8. \A x \in Call \ {c} : f[x] = g[x]
      BY <1>1, <1>3, <1>4 DEF Recorded
<1>9. SumFunctionOnSet(g, Call) = SumFunctionOnSet(f, Call) - f[c] + g[c]
      BY <1>5, <1>8, PoolAssumption, SumChanges
<1>10. /\ SumFunctionOnSet(f, Call) \in Int
       /\ SumFunctionOnSet(move, U) \in Int
      BY <1>3, AccountsType
<1>11. SumFunctionOnSet(g, Call) = SumFunctionOnSet(f, Call) + r.moved
      BY <1>6, <1>7, <1>9, <1>10
<1>12. Accounts(value + r.moved, opening, row2, move, U)
      BY <1>3, <1>4, <1>6, <1>10, <1>11 DEF Accounts
<1> QED BY <1>1, <1>12

\* A deposit or a withdrawal passes over the row of what it does not move.
LEMMA DepositFollows ==
    ASSUME NEW c \in Call, Method[c] \in {"deposit", "withdraw"}
    PROVE  /\ \/ Script(c)["both"] = "bbcRow"
              \/ BbcMove(c) = 0 /\ Script(c)["both"] = "eggRow"
              \/ BbcMove(c) = 0 /\ EggMove(c) = 0 /\ Script(c)["both"] = "rate"
           /\ \/ Script(c)["bbcRow"] = "eggRow"
              \/ EggMove(c) = 0 /\ Script(c)["bbcRow"] = "rate"
           /\ Script(c)["eggRow"] = "rate"
<1>1. Egg[c] \in Nat /\ Bbc[c] \in Nat
      BY PoolAssumption
<1>2. Script(c) = DepositPoolValue(c)
      BY DEF Script, WithdrawalPoolValue
<1>3. /\ ~(Egg[c] > 0) => EggMove(c) = 0
      /\ ~(Bbc[c] > 0) => BbcMove(c) = 0
      BY <1>1 DEF EggMove, BbcMove
<1>4. /\ Script(c)["both"] = IF Bbc[c] > 0 THEN "bbcRow"
                             ELSE IF Egg[c] > 0 THEN "eggRow" ELSE "rate"
      /\ Script(c)["bbcRow"] = IF Egg[c] > 0 THEN "eggRow" ELSE "rate"
      /\ Script(c)["eggRow"] = "rate"
      BY <1>2 DEF DepositPoolValue
<1> QED BY <1>3, <1>4

\* What a step is to the eggs: the update, its row, or neither.
EggSteady(c) ==
    /\ egg' = egg /\ eggRow' = eggRow
    /\ pc[c] # "new" /\ ~EggAhead(c) => pc'[c] # "new" /\ ~EggAhead(c)'
    /\ EggDue(c)' => EggDue(c)
    /\ pc'[c] = "done" => pc[c] \in {"new", "commit"}
EggUpdated(c) ==
    /\ pc[c] \in {"egg", "both"} /\ pc'[c] \in {"eggRow", "bbcRow", "rate"}
    /\ egg' = egg + EggMove(c) /\ eggRow' = eggRow
EggRecorded(c) ==
    /\ pc[c] = "eggRow" /\ pc'[c] \in {"strictRate", "bbc", "rate"}
    /\ egg' = egg
    /\ eggRow' = [eggRow EXCEPT ![c] = [moved |-> EggMove(c),
                                        last |-> seenEgg[c] + EggMove(c)]]

BbcSteady(c) ==
    /\ bbc' = bbc /\ bbcRow' = bbcRow
    /\ pc[c] # "new" /\ ~BbcAhead(c) => pc'[c] # "new" /\ ~BbcAhead(c)'
    /\ BbcDue(c)' => BbcDue(c)
    /\ pc'[c] = "done" => pc[c] = "new" \/ (pc[c] = "commit" /\ ~InTransaction(c))
BbcUpdated(c) ==
    /\ pc[c] \in {"bbc", "both"} /\ ~InTransaction(c)
    /\ pc'[c] \in {"eggRow", "bbcRow", "rate"}
    /\ Method[c] = "sell" => pc'[c] = "bbcRow"
    /\ bbc' = bbc + BbcMove(c) /\ bbcRow' = bbcRow
BbcRecorded(c) ==
    /\ pc[c] = "bbcRow" /\ ~InTransaction(c)
    /\ pc'[c] \in {"eggRow", "rate"}
    /\ Method[c] = "sell" => pc'[c] = "rate"
    /\ bbc' = bbc /\ bbcRow' = [bbcRow EXCEPT ![c] = BbcRowOf(c)]
BbcCommitted(c) ==
    /\ pc[c] = "commit" /\ pc'[c] = "done" /\ InTransaction(c)
    /\ bbc' = bbc + BbcMove(c) /\ bbcRow' = [bbcRow EXCEPT ![c] = BbcRowOf(c)]

LEMMA AuditSteps ==
    ASSUME TypeInv, NEW c \in Call, Step(c), InTurn(c)
    PROVE  /\ EggSteady(c) \/ EggUpdated(c) \/ EggRecorded(c)
           /\ BbcSteady(c) \/ BbcUpdated(c) \/ BbcRecorded(c) \/ BbcCommitted(c)
           /\ InTurn(c)'
<1> USE DEF Goes, Open, Ended
<1>0. /\ PoolTypeOK /\ pc[c] \in Ended \cup {"new"} \cup Statements(c)
      /\ Method[c] \in Methods
      /\ Method[c] = "buy" => EggMove(c) = 0
      /\ Method[c] = "claim" => BbcMove(c) = 0
      BY Moves DEF TypeInv, StepOK
<1>r. /\ [moved |-> EggMove(c), last |-> seenEgg[c] + EggMove(c)] # NoRow
      /\ BbcRowOf(c) # NoRow
  <2>1. /\ EggMove(c) \in Int /\ BbcMove(c) \in Int
        /\ seenEgg[c] \in Int /\ seenBbc[c] \in Int
        BY <1>0, Moves DEF PoolTypeOK
  <2> QED BY <2>1, PoolAssumption DEF BbcRowOf
<1>m. EggMove(c)' = EggMove(c) /\ BbcMove(c)' = BbcMove(c)
      BY DEF EggMove, BbcMove
<1>1. CASE ReadPoolValue(c)
  <2>1. /\ pc[c] = "new" /\ UNCHANGED <<egg, bbc, eggRow, bbcRow>>
        /\ pc'[c] = "done" \/ pc'[c] = Script(c)["start"]
        BY <1>0, <1>1 DEF ReadPoolValue, rows, PoolTypeOK
  <2> QED BY <1>0, <1>m, <2>1, Follows
          DEF EggSteady, BbcSteady, InTurn, EggAhead, BbcAhead, EggDue, BbcDue,
              InTransaction, Methods
<1>2. CASE UpdateEgg(c)
  <2>1. /\ pc[c] = "egg" /\ pc'[c] = Script(c)["egg"]
        /\ egg' = egg + EggMove(c) /\ UNCHANGED <<bbc, eggRow, bbcRow>>
        BY <1>0, <1>2 DEF UpdateEgg, rows, PoolTypeOK
  <2>2. Method[c] \in {"claim", "sell"} /\ pc'[c] = "eggRow"
        BY <1>0, <2>1, Follows, StatementsOf
  <2> QED BY <1>0, <1>m, <2>1, <2>2
          DEF EggUpdated, BbcSteady, InTurn, EggAhead, BbcAhead, EggDue, BbcDue,
              InTransaction, Methods
<1>3. CASE UpdateBbc(c)
  <2>1. /\ pc[c] = "bbc" /\ pc'[c] = Script(c)["bbc"] /\ ~InTransaction(c)
        /\ bbc' = bbc + BbcMove(c) /\ UNCHANGED <<egg, eggRow, bbcRow>>
        BY <1>0, <1>3 DEF UpdateBbc, rows, PoolTypeOK
  <2>2. Method[c] = "sell" /\ pc'[c] = "bbcRow"
        BY <1>0, <2>1, Follows, StatementsOf DEF InTransaction
  <2> QED BY <1>0, <1>m, <2>1, <2>2
          DEF EggSteady, BbcUpdated, InTurn, EggAhead, BbcAhead, EggDue, BbcDue,
              InTransaction, Methods
<1>4. CASE UpdateBoth(c)
  <2>1. /\ pc[c] = "both" /\ pc'[c] = Script(c)["both"]
        /\ egg' = egg + EggMove(c) /\ bbc' = bbc + BbcMove(c)
        /\ UNCHANGED <<eggRow, bbcRow>>
        BY <1>0, <1>4 DEF UpdateBoth, rows, PoolTypeOK
  <2>2. Method[c] \in {"deposit", "withdraw"}
        BY <1>0, <2>1, StatementsOf
  <2>3. \/ pc'[c] = "bbcRow"
        \/ BbcMove(c) = 0 /\ pc'[c] = "eggRow"
        \/ BbcMove(c) = 0 /\ EggMove(c) = 0 /\ pc'[c] = "rate"
        BY <2>1, <2>2, DepositFollows
  <2> QED BY <1>0, <1>m, <2>1, <2>2, <2>3
          DEF EggUpdated, BbcUpdated, InTurn, EggAhead, BbcAhead, EggDue, BbcDue,
              InTransaction, Methods
<1>5. CASE LockAndUpdate(c)
  <2>1. /\ pc[c] = "bbc" /\ pc'[c] = Script(c)["bbc"] /\ InTransaction(c)
        /\ UNCHANGED <<egg, bbc, eggRow, bbcRow>>
        BY <1>0, <1>5 DEF LockAndUpdate, rows, PoolTypeOK
  <2>2. Method[c] = "buy" /\ pc'[c] = "bbcRow"
        BY <2>1, Follows DEF InTransaction
  <2> QED BY <1>0, <1>m, <2>1, <2>2
          DEF EggSteady, BbcSteady, InTurn, EggAhead, BbcAhead, EggDue, BbcDue,
              InTransaction, Methods
<1>6. CASE CreateEggRow(c)
  <2>1. /\ pc[c] = "eggRow" /\ pc'[c] = Script(c)["eggRow"]
        /\ UNCHANGED <<egg, bbc, bbcRow>>
        /\ eggRow' = [eggRow EXCEPT ![c] = [moved |-> EggMove(c),
                                            last |-> seenEgg[c] + EggMove(c)]]
        BY <1>0, <1>6 DEF CreateEggRow, PoolTypeOK
  <2>2. eggRow'[c] # NoRow
        BY <1>0, <1>r, <2>1 DEF PoolTypeOK
  <2>3. \/ Method[c] = "claim" /\ pc'[c] = "strictRate"
        \/ Method[c] = "sell" /\ pc'[c] = "bbc"
        \/ Method[c] \in {"deposit", "withdraw"} /\ pc'[c] = "rate"
        BY <1>0, <2>1, Follows, StatementsOf DEF Methods
  <2> QED BY <1>0, <1>m, <2>1, <2>2, <2>3
          DEF EggRecorded, BbcSteady, InTurn, EggAhead, BbcAhead, EggDue, BbcDue,
              InTransaction, Methods
<1>7. CASE CreateBbcRow(c)
  <2>1. /\ pc[c] = "bbcRow" /\ pc'[c] = Script(c)["bbcRow"]
        /\ UNCHANGED <<egg, bbc, eggRow>>
        /\ InTransaction(c) => bbcRow' = bbcRow
        /\ ~InTransaction(c) => bbcRow' = [bbcRow EXCEPT ![c] = BbcRowOf(c)]
        BY <1>0, <1>7 DEF CreateBbcRow, PoolTypeOK
  <2>2. ~InTransaction(c) => bbcRow'[c] # NoRow
        BY <1>0, <1>r, <2>1 DEF PoolTypeOK
  <2>3. \/ Method[c] \in {"buy", "sell"} /\ pc'[c] = "rate"
        \/ Method[c] \in {"deposit", "withdraw"} /\ pc'[c] = "eggRow"
        \/ /\ Method[c] \in {"deposit", "withdraw"} /\ EggMove(c) = 0
           /\ pc'[c] = "rate"
        BY <1>0, <2>1, Follows, DepositFollows, StatementsOf DEF Methods
  <2>4. CASE InTransaction(c)
        BY <1>0, <1>m, <2>1, <2>3, <2>4
        DEF EggSteady, BbcSteady, InTurn, EggAhead, BbcAhead, EggDue, BbcDue,
            InTransaction, Methods
  <2>5. CASE ~InTransaction(c)
        BY <1>0, <1>m, <2>1, <2>2, <2>3, <2>5
        DEF EggSteady, BbcRecorded, InTurn, EggAhead, BbcAhead, EggDue, BbcDue,
            InTransaction, Methods
  <2> QED BY <2>4, <2>5
<1>8. CASE ReadRate(c) \/ CreateRateRow(c) \/ CreatePoolRateHistory(c)
  <2>1. UNCHANGED <<egg, bbc, eggRow, bbcRow>>
        BY <1>8 DEF ReadRate, CreateRateRow, CreatePoolRateHistory, rows
  <2>2. /\ pc[c] \in {"rate", "rateRow", "strictRate"}
        /\ pc'[c] \in {"rateRow", "commit", "failed"}
    <3>1. CASE ReadRate(c)
          BY <1>0, <3>1, Follows, StatementsOf DEF ReadRate, PoolTypeOK
    <3>2. CASE CreateRateRow(c)
          BY <1>0, <3>2, Follows, StatementsOf DEF CreateRateRow, PoolTypeOK
    <3>3. CASE CreatePoolRateHistory(c)
          BY <1>0, <3>3, Follows, StatementsOf
          DEF CreatePoolRateHistory, PoolTypeOK
    <3> QED BY <1>8, <3>1, <3>2, <3>3
  <2> QED BY <1>0, <1>m, <2>1, <2>2
          DEF EggSteady, BbcSteady, InTurn, EggAhead, BbcAhead, EggDue, BbcDue,
              InTransaction, Methods
<1>9. CASE Commit(c)
  <2>1. /\ pc[c] = "commit" /\ pc'[c] = "done" /\ UNCHANGED <<egg, eggRow>>
        /\ InTransaction(c) => /\ bbc' = bbc + BbcMove(c)
                               /\ bbcRow' = [bbcRow EXCEPT ![c] = BbcRowOf(c)]
        /\ ~InTransaction(c) => UNCHANGED <<bbc, bbcRow>>
        BY <1>0, <1>9, Follows DEF Commit, PoolTypeOK
  <2> QED BY <1>0, <1>m, <2>1
          DEF EggSteady, BbcSteady, BbcCommitted, InTurn, EggAhead, BbcAhead,
              EggDue, BbcDue, InTransaction, Methods
<1>10. CASE Fails(c)
  <2>1. Open(c) /\ pc'[c] = "failed" /\ UNCHANGED <<egg, bbc, eggRow, bbcRow>>
        BY <1>0, <1>10 DEF Fails, rows, PoolTypeOK
  <2> QED BY <1>0, <1>m, <2>1
          DEF EggSteady, BbcSteady, InTurn, EggAhead, BbcAhead, EggDue, BbcDue,
              InTransaction, Methods
<1> QED BY <1>1, <1>2, <1>3, <1>4, <1>5, <1>6, <1>7, <1>8, <1>9, <1>10 DEF Step

\* The calls that a step is not of stay where they are.
LEMMA AuditFrame ==
    ASSUME TypeInv, NEW x \in Call, Step(x), NEW c \in Call \ {x}
    PROVE  /\ InTurn(c) => InTurn(c)'
           /\ \A U, V : (c \in U <=> c \in V) =>
                 /\ EggLedger(c, U) => EggLedger(c, V)'
                 /\ BbcLedger(c, U) => BbcLedger(c, V)'
<1>1. pc'[c] = pc[c] /\ eggRow'[c] = eggRow[c] /\ bbcRow'[c] = bbcRow[c]
      BY StepFrame
<1>2. /\ EggMove(c)' = EggMove(c) /\ BbcMove(c)' = BbcMove(c)
      /\ EggAhead(c)' = EggAhead(c) /\ BbcAhead(c)' = BbcAhead(c)
      /\ EggDue(c)' = EggDue(c) /\ BbcDue(c)' = BbcDue(c)
      /\ Open(c)' = Open(c) /\ InTransaction(c)' = InTransaction(c)
      BY <1>1 DEF EggMove, BbcMove, EggAhead, BbcAhead, EggDue, BbcDue, Open,
                  InTransaction
<1> QED BY <1>1, <1>2 DEF InTurn, EggLedger, BbcLedger

\* The eggs are accounted for, whatever a call does next.
LEMMA EggAudited ==
    ASSUME TypeInv, \A x \in Call : InTurn(x), EggAudit,
           NEW c \in Call, Step(c)
    PROVE  EggAudit'
<1>1. PICK U \in SUBSET Call :
          /\ \A x \in Call : EggLedger(x, U)
          /\ Accounts(egg, OpeningEgg, eggRow, EggMoves, U)
      BY DEF EggAudit
<1>2. /\ egg \in Int /\ OpeningEgg \in Int /\ EggMoves \in [Call -> Int]
      /\ eggRow \in [Call -> HistoryRow \cup {NoRow}]
      /\ EggMoves[c] = EggMove(c) /\ EggMove(c) \in Int /\ EggMoves' = EggMoves
      BY PoolAssumption, Moves DEF TypeInv, PoolTypeOK, EggMoves, EggMove
<1>3. /\ InTurn(c) /\ EggLedger(c, U) /\ EggMove(c)' = EggMove(c)
      BY <1>1 DEF EggMove
<1>4. ASSUME NEW V \in SUBSET Call, V \ {c} = U \ {c}, EggLedger(c, V)',
             Accounts(egg', OpeningEgg, eggRow', EggMoves, V)
      PROVE  EggAudit'
  <2>1. \A x \in Call \ {c} : EggLedger(x, V)'
    <3> SUFFICES ASSUME NEW x \in Call \ {c} PROVE EggLedger(x, V)'
        OBVIOUS
    <3>1. EggLedger(x, U) /\ (x \in U <=> x \in V)
        BY <1>1, <1>4
    <3> QED BY <3>1, AuditFrame
  <2>2. Accounts(egg, OpeningEgg, eggRow, EggMoves, V)'
        BY <1>2, <1>4 DEF Accounts, Recorded
  <2> QED BY <1>4, <2>1, <2>2 DEF EggAudit
<1>5. CASE EggSteady(c)
  <2>1. EggLedger(c, U)'
        BY <1>3, <1>5 DEF EggSteady, EggLedger, InTurn, Open, Ended, EggAhead, EggDue
  <2>2. Accounts(egg', OpeningEgg, eggRow', EggMoves, U)
        BY <1>1, <1>5 DEF EggSteady
  <2> QED BY <1>4, <2>1, <2>2
<1>6. CASE EggUpdated(c)
  <2>1. c \notin U /\ eggRow'[c] = NoRow /\ EggAhead(c) /\ ~EggAhead(c)'
        BY <1>3, <1>6 DEF EggUpdated, EggLedger, InTurn, EggAhead
  <2>2. CASE EggMove(c) = 0
    <3>1. EggLedger(c, U)'
          BY <1>3, <2>1, <2>2 DEF EggLedger
    <3>2. Accounts(egg', OpeningEgg, eggRow', EggMoves, U)
          BY <1>1, <1>2, <1>6, <2>2 DEF EggUpdated
    <3> QED BY <1>4, <3>1, <3>2
  <2>3. CASE EggMove(c) # 0
    <3>1. EggLedger(c, U \cup {c})'
          BY <1>3, <1>6, <2>1, <2>3 DEF EggUpdated, EggLedger
    <3>2. Accounts(egg + EggMoves[c], OpeningEgg, eggRow, EggMoves, U \cup {c})
          BY <1>1, <1>2, <2>1, AccountsMove
    <3>3. Accounts(egg', OpeningEgg, eggRow', EggMoves, U \cup {c})
          BY <1>2, <1>6, <3>2 DEF EggUpdated
    <3> QED BY <1>4, <3>1, <3>3
  <2> QED BY <2>2, <2>3
<1>7. CASE EggRecorded(c)
  <2>1. PICK r : r = [moved |-> EggMove(c), last |-> seenEgg[c] + EggMove(c)]
        OBVIOUS
  <2>2. r \in HistoryRow /\ r.moved = EggMove(c)
        BY <1>2, <2>1 DEF HistoryRow, TypeInv, PoolTypeOK
  <2>3. /\ eggRow[c] = NoRow /\ EggDue(c) /\ ~EggDue(c)'
        /\ eggRow' = [eggRow EXCEPT ![c] = r] /\ egg' = egg
        BY <1>3, <1>7, <2>1 DEF EggRecorded, InTurn, EggDue
  <2>4. CASE c \notin U
    <3>1. EggMove(c) = 0
          BY <1>3, <2>3, <2>4 DEF EggLedger
    <3>2. EggLedger(c, U)'
          BY <1>3, <2>4, <3>1 DEF EggLedger
    <3>3. Accounts(egg + r.moved, OpeningEgg, eggRow', EggMoves, U)
          BY <1>1, <1>2, <2>2, <2>3, AccountsRecord
    <3>4. Accounts(egg', OpeningEgg, eggRow', EggMoves, U)
          BY <1>2, <2>2, <2>3, <3>1, <3>3
    <3> QED BY <1>4, <3>2, <3>4
  <2>5. CASE c \in U
    <3>1. EggLedger(c, U \ {c})'
          BY <2>3 DEF EggLedger
    <3>2. PICK before : before = egg - EggMoves[c]
          OBVIOUS
    <3>3. before \in Int /\ before + r.moved = egg' /\ U \ {c} \in SUBSET Call
          BY <1>2, <2>2, <2>3, <3>2
    <3>4. Accounts(before, OpeningEgg, eggRow, EggMoves, U \ {c})
          BY <1>1, <1>2, <2>5, <3>2, AccountsLeave
    <3>5. Accounts(before + r.moved, OpeningEgg, eggRow', EggMoves, U \ {c})
          BY <1>2, <2>2, <2>3, <3>3, <3>4, AccountsRecord
    <3> QED BY <1>4, <3>1, <3>3, <3>5
  <2> QED BY <2>4, <2>5
<1> QED BY <1>3, <1>5, <1>6, <1>7, AuditSteps

\* And so are the BBC; a buy moves them and records it in one commit.
LEMMA BbcAudited ==
    ASSUME TypeInv, \A x \in Call : InTurn(x), BbcAudit,
           NEW c \in Call, Step(c)
    PROVE  BbcAudit'
<1>1. PICK U \in SUBSET Call :
          /\ \A x \in Call : BbcLedger(x, U)
          /\ Accounts(bbc, OpeningBbc, bbcRow, BbcMoves, U)
      BY DEF BbcAudit
<1>2. /\ bbc \in Int /\ OpeningBbc \in Int /\ BbcMoves \in [Call -> Int]
      /\ bbcRow \in [Call -> HistoryRow \cup {NoRow}]
      /\ BbcMoves[c] = BbcMove(c) /\ BbcMove(c) \in Int /\ BbcMoves' = BbcMoves
      BY PoolAssumption, Moves DEF TypeInv, PoolTypeOK, BbcMoves, BbcMove
<1>3. /\ InTurn(c) /\ BbcLedger(c, U) /\ BbcMove(c)' = BbcMove(c)
      /\ InTransaction(c)' = InTransaction(c)
      BY <1>1 DEF BbcMove, InTransaction
<1>r. BbcRowOf(c) \in HistoryRow /\ BbcRowOf(c).moved = BbcMove(c)
      BY <1>2 DEF BbcRowOf, HistoryRow, TypeInv, PoolTypeOK
<1>4. ASSUME NEW V \in SUBSET Call, V \ {c} = U \ {c}, BbcLedger(c, V)',
             Accounts(bbc', OpeningBbc, bbcRow', BbcMoves, V)
      PROVE  BbcAudit'
  <2>1. \A x \in Call \ {c} : BbcLedger(x, V)'
    <3> SUFFICES ASSUME NEW x \in Call \ {c} PROVE BbcLedger(x, V)'
        OBVIOUS
    <3>1. BbcLedger(x, U) /\ (x \in U <=> x \in V)
        BY <1>1, <1>4
    <3> QED BY <3>1, AuditFrame
  <2>2. Accounts(bbc, OpeningBbc, bbcRow, BbcMoves, V)'
        BY <1>2, <1>4 DEF Accounts, Recorded
  <2> QED BY <1>4, <2>1, <2>2 DEF BbcAudit
<1>5. CASE BbcSteady(c)
  <2>1. BbcLedger(c, U)'
        BY <1>3, <1>5 DEF BbcSteady, BbcLedger, InTurn, Open, Ended, BbcAhead,
           BbcDue
  <2>2. Accounts(bbc', OpeningBbc, bbcRow', BbcMoves, U)
        BY <1>1, <1>5 DEF BbcSteady
  <2> QED BY <1>4, <2>1, <2>2
<1>6. CASE BbcUpdated(c)
  <2>1. c \notin U /\ bbcRow'[c] = NoRow /\ BbcAhead(c) /\ ~BbcAhead(c)'
        BY <1>3, <1>6 DEF BbcUpdated, BbcLedger, InTurn, BbcAhead
  <2>2. CASE BbcMove(c) = 0
    <3>1. BbcLedger(c, U)'
          BY <1>3, <2>1, <2>2 DEF BbcLedger
    <3>2. Accounts(bbc', OpeningBbc, bbcRow', BbcMoves, U)
          BY <1>1, <1>2, <1>6, <2>2 DEF BbcUpdated
    <3> QED BY <1>4, <3>1, <3>2
  <2>3. CASE BbcMove(c) # 0
    <3>1. BbcLedger(c, U \cup {c})'
          BY <1>3, <1>6, <2>1, <2>3 DEF BbcUpdated, BbcLedger
    <3>2. Accounts(bbc + BbcMoves[c], OpeningBbc, bbcRow, BbcMoves, U \cup {c})
          BY <1>1, <1>2, <2>1, AccountsMove
    <3>3. Accounts(bbc', OpeningBbc, bbcRow', BbcMoves, U \cup {c})
          BY <1>2, <1>6, <3>2 DEF BbcUpdated
    <3> QED BY <1>4, <3>1, <3>3
  <2> QED BY <2>2, <2>3
<1>7. CASE BbcRecorded(c)
  <2>1. /\ bbcRow[c] = NoRow /\ BbcDue(c) /\ ~BbcDue(c)'
        /\ bbcRow' = [bbcRow EXCEPT ![c] = BbcRowOf(c)] /\ bbc' = bbc
        BY <1>3, <1>7 DEF BbcRecorded, InTurn, BbcDue
  <2>2. CASE c \notin U
    <3>1. BbcMove(c) = 0
          BY <1>3, <2>1, <2>2 DEF BbcLedger
    <3>2. BbcLedger(c, U)'
          BY <1>3, <2>2, <3>1 DEF BbcLedger
    <3>3. Accounts(bbc + BbcRowOf(c).moved, OpeningBbc, bbcRow', BbcMoves, U)
          BY <1>1, <1>2, <1>r, <2>1, AccountsRecord
    <3>4. Accounts(bbc', OpeningBbc, bbcRow', BbcMoves, U)
          BY <1>2, <1>r, <2>1, <3>1, <3>3
    <3> QED BY <1>4, <3>2, <3>4
  <2>3. CASE c \in U
    <3>1. BbcLedger(c, U \ {c})'
          BY <2>1 DEF BbcLedger
    <3>2. PICK before : before = bbc - BbcMoves[c]
          OBVIOUS
    <3>3. /\ before \in Int /\ before + BbcRowOf(c).moved = bbc'
          /\ U \ {c} \in SUBSET Call
          BY <1>2, <1>r, <2>1, <3>2
    <3>4. Accounts(before, OpeningBbc, bbcRow, BbcMoves, U \ {c})
          BY <1>1, <1>2, <2>3, <3>2, AccountsLeave
    <3>5. Accounts(before + BbcRowOf(c).moved, OpeningBbc, bbcRow', BbcMoves,
                   U \ {c})
          BY <1>2, <1>r, <2>1, <3>3, <3>4, AccountsRecord
    <3> QED BY <1>4, <3>1, <3>3, <3>5
  <2> QED BY <2>2, <2>3
<1>8. CASE BbcCommitted(c)
  <2>1. /\ bbcRow[c] = NoRow /\ InTransaction(c) /\ bbc' = bbc + BbcMove(c)
        /\ bbcRow' = [bbcRow EXCEPT ![c] = BbcRowOf(c)]
        BY <1>3, <1>8 DEF BbcCommitted, InTurn, Open, Ended
  <2>2. BbcLedger(c, U)'
        BY <1>3, <1>8, <2>1 DEF BbcCommitted, BbcLedger, BbcDue
  <2>3. Accounts(bbc + BbcRowOf(c).moved, OpeningBbc, bbcRow', BbcMoves, U)
        BY <1>1, <1>2, <1>r, <2>1, AccountsRecord
  <2>4. Accounts(bbc', OpeningBbc, bbcRow', BbcMoves, U)
        BY <1>r, <2>1, <2>3
  <2> QED BY <1>4, <2>2, <2>4
<1> QED BY <1>3, <1>5, <1>6, <1>7, <1>8, AuditSteps

\* It holds at the start, with nobody in U.
LEMMA AuditStarts == PoolInit => AuditInv
<1> SUFFICES ASSUME PoolInit PROVE AuditInv
    OBVIOUS
<1>1. \A c \in Call : InTurn(c) /\ EggLedger(c, {}) /\ BbcLedger(c, {})
      BY DEF PoolInit, InTurn, EggLedger, BbcLedger, EggDue, BbcDue, EggAhead,
             BbcAhead, Open
<1>2. ASSUME NEW row, \A c \in Call : row[c] = NoRow, NEW opening \in Int,
             NEW move
      PROVE  Accounts(opening, opening, row, move, {})
  <2>1. PICK f : f = [c \in Call |-> Recorded(row, c)]
        OBVIOUS
  <2>2. \A c \in Call : f[c] = 0
        BY <1>2, <2>1 DEF Recorded
  <2>3. SumFunctionOnSet(f, Call) = 0
        BY <2>2, PoolAssumption, SumZero
  <2>4. SumFunctionOnSet(move, {}) = 0
        BY SumEmpty
  <2> QED BY <1>2, <2>1, <2>3, <2>4 DEF Accounts
<1>3. EggAudit
  <2>1. Accounts(egg, OpeningEgg, eggRow, EggMoves, {})
        BY <1>2, PoolAssumption DEF PoolInit
  <2> QED BY <1>1, <2>1 DEF EggAudit
<1>4. BbcAudit
  <2>1. Accounts(bbc, OpeningBbc, bbcRow, BbcMoves, {})
        BY <1>2, PoolAssumption DEF PoolInit
  <2> QED BY <1>1, <2>1 DEF BbcAudit
<1> QED BY <1>1, <1>3, <1>4, PoolTypeInit DEF AuditInv

\* A step that is no call's keeps the values and the rows.
LEMMA AuditIdle ==
    ASSUME AuditInv, TypeInv', PoolCrash \/ UNCHANGED poolVars
    PROVE  AuditInv'
<1>1. /\ UNCHANGED <<egg, bbc, eggRow, bbcRow>>
      /\ \A c \in Call : pc'[c] = pc[c] \/ (Open(c) /\ pc'[c] = "lost")
      BY DEF PoolCrash, poolVars, rows, AuditInv, TypeInv, PoolTypeOK
<1>2. ASSUME NEW c \in Call
      PROVE  /\ InTurn(c)'
             /\ \A U : /\ EggLedger(c, U) => EggLedger(c, U)'
                       /\ BbcLedger(c, U) => BbcLedger(c, U)'
  <2>1. /\ EggMove(c)' = EggMove(c) /\ BbcMove(c)' = BbcMove(c)
        /\ InTransaction(c)' = InTransaction(c) /\ InTurn(c)
        BY DEF EggMove, BbcMove, InTransaction, AuditInv
  <2> QED BY <1>1, <2>1 DEF InTurn, EggLedger, BbcLedger, EggAhead, BbcAhead,
             EggDue, BbcDue, Open, Ended
<1>3. /\ EggMoves' = EggMoves /\ BbcMoves' = BbcMoves
      BY DEF EggMoves, BbcMoves, EggMove, BbcMove
<1>4. EggAudit'
  <2>1. PICK U \in SUBSET Call :
            /\ \A c \in Call : EggLedger(c, U)
            /\ Accounts(egg, OpeningEgg, eggRow, EggMoves, U)
        BY DEF AuditInv, EggAudit
  <2>2. Accounts(egg, OpeningEgg, eggRow, EggMoves, U)'
        BY <1>1, <1>3, <2>1 DEF Accounts, Recorded
  <2> QED BY <1>2, <2>1, <2>2 DEF EggAudit
<1>5. BbcAudit'
  <2>1. PICK U \in SUBSET Call :
            /\ \A c \in Call : BbcLedger(c, U)
            /\ Accounts(bbc, OpeningBbc, bbcRow, BbcMoves, U)
        BY DEF AuditInv, BbcAudit
  <2>2. Accounts(bbc, OpeningBbc, bbcRow, BbcMoves, U)'
        BY <1>1, <1>3, <2>1 DEF Accounts, Recorded
  <2> QED BY <1>2, <2>1, <2>2 DEF BbcAudit
<1> QED BY <1>2, <1>4, <1>5 DEF AuditInv

\* And every step keeps it.
LEMMA AuditStep == AuditInv /\ [PoolNext]_poolVars => AuditInv'
<1> SUFFICES ASSUME AuditInv, [PoolNext]_poolVars PROVE AuditInv'
    OBVIOUS
<1>1. TypeInv'
      BY PoolTypeStep DEF AuditInv
<1>2. CASE PoolCrash \/ UNCHANGED poolVars
      BY <1>1, <1>2, AuditIdle
<1>3. ASSUME NEW c \in Call, Step(c) PROVE AuditInv'
  <2>1. \A x \in Call : InTurn(x)'
    <3> SUFFICES ASSUME NEW x \in Call PROVE InTurn(x)'
        OBVIOUS
    <3>1. CASE x = c
          BY <1>3, <3>1, AuditSteps DEF AuditInv
    <3>2. CASE x # c
          BY <1>3, <3>2, AuditFrame DEF AuditInv
    <3> QED BY <3>1, <3>2
  <2>2. EggAudit' /\ BbcAudit'
        BY <1>3, EggAudited, BbcAudited DEF AuditInv
  <2> QED BY <1>1, <2>1, <2>2 DEF AuditInv
<1> QED BY <1>2, <1>3 DEF PoolNext

\* The two histories account for the pool, up to whole moves of calls that
\* were cut off between an update and its row, for any number of calls.
THEOREM PoolIsAudited == PoolSpec => []Audited
<1>1. AuditInv => Audited
  <2> SUFFICES ASSUME AuditInv PROVE Audited
      OBVIOUS
  <2>1. \E U \in SUBSET Unrecorded(eggRow) :
            Accounts(egg, OpeningEgg, eggRow, EggMoves, U)
    <3>1. PICK U \in SUBSET Call :
              /\ \A c \in Call : EggLedger(c, U)
              /\ Accounts(egg, OpeningEgg, eggRow, EggMoves, U)
          BY DEF AuditInv, EggAudit
    <3>2. \A c \in U : ~InTransaction(c)
          BY <3>1, Moves DEF EggLedger, InTransaction
    <3>3. U \in SUBSET Unrecorded(eggRow)
          BY <3>1, <3>2 DEF EggLedger, Unrecorded
    <3> QED BY <3>1, <3>3
  <2>2. \E U \in SUBSET Unrecorded(bbcRow) :
            Accounts(bbc, OpeningBbc, bbcRow, BbcMoves, U)
    <3>1. PICK U \in SUBSET Call :
              /\ \A c \in Call : BbcLedger(c, U)
              /\ Accounts(bbc, OpeningBbc, bbcRow, BbcMoves, U)
          BY DEF AuditInv, BbcAudit
    <3>2. U \in SUBSET Unrecorded(bbcRow)
          BY <3>1 DEF BbcLedger, Unrecorded
    <3> QED BY <3>1, <3>2
  <2> QED BY <2>1, <2>2 DEF Audited
<1> QED BY <1>1, AuditStarts, AuditStep, PTL DEF PoolSpec

=============================================================================

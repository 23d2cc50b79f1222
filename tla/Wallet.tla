------------------------------- MODULE Wallet -------------------------------
(***************************************************************************)
(* The wallet microservice (apps/wallet): the handlers of its RabbitMQ     *)
(* queue, run concurrently by one Node process over a Postgres database.   *)
(*                                                                         *)
(* A message makes one increaseBalance call (NONE_ACCOUNT_REFERRAL,        *)
(* USER_DEPOSIT) or two in parallel (ACCOUNT_REFERRAL).  A call, here a    *)
(* Leg, is four awaited statements, so any two legs interleave between     *)
(* them.  The message is acknowledged before its handler starts: a crash   *)
(* loses whatever the handler had left to do.                              *)
(*                                                                         *)
(* Balances are those of one currency; Version[l] is the version number    *)
(* the sender of the message put in its payload.                           *)
(***************************************************************************)
EXTENDS Integers, FiniteSets

CONSTANTS
    Account,        \* accounts
    Msg,            \* messages sent to the wallet queue
    Leg,            \* increaseBalance calls made by the handlers
    Order,          \* rows of partner_transaction
    Pattern,        \* [Msg -> Patterns]
    MsgOf,          \* [Leg -> Msg], the message a call belongs to
    Receiver,       \* [Leg -> Account], cbTransaction.receiverId
    Amount,         \* [Leg -> Nat], cbTransaction.amount
    Version,        \* [Leg -> Nat \ {0}], version in the payload
    OrderOf,        \* [Msg -> Order], partnerTransaction.orderId
    ReferralFrom,   \* [Msg -> Account], accountReferral.referralFrom
    NoMsg           \* no open transaction

Patterns == {"NONE_ACCOUNT_REFERRAL", "ACCOUNT_REFERRAL", "USER_DEPOSIT"}

ASSUME WalletAssumption ==
    /\ Pattern \in [Msg -> Patterns]
    /\ MsgOf \in [Leg -> Msg]
    /\ Receiver \in [Leg -> Account]
    /\ Amount \in [Leg -> Nat]
    /\ Version \in [Leg -> Nat \ {0}]
    /\ OrderOf \in [Msg -> Order]
    /\ ReferralFrom \in [Msg -> Account]
    /\ NoMsg \notin Msg

VARIABLES
    \* the database
    amount,     \* cashback_available.amount
    version,    \* cashback_available.version; 0 while there is no row
    histories,  \* legs with a row in cashback_available_histories
    cbTrans,    \* legs with a row in cashback_transaction
    referrals,  \* accounts with a row in account_referral (referral_from)
    order,      \* partner_transaction.status
    tx,         \* the message whose open transaction has updated the order
    \* the service
    msg,        \* state of each message
    step,       \* next statement of each leg
    oldBalance, \* oldBalance, as the leg read it
    \* history
    posted      \* legs whose increment is in amount

dbVars == <<amount, version, histories, cbTrans, referrals, order, tx>>
vars == <<dbVars, msg, step, oldBalance, posted>>

LegsOf(m) == {l \in Leg : MsgOf[l] = m}

\* A leg that is between two of its statements.
Running == {"find", "history", "update", "insert"}
\* A leg whose increaseBalance has thrown.
Thrown == {"failed", "mismatch"}
Settled == {"done", "failed", "lost"}

Init ==
    /\ amount = [a \in Account |-> 0]
    /\ version = [a \in Account |-> 0]
    /\ histories = {}
    /\ cbTrans = {}
    /\ referrals = {}
    /\ order = [o \in Order |-> "PROCESSING"]
    /\ tx = [o \in Order |-> NoMsg]
    /\ msg \in [Msg -> {"queued", "lost"}]    \* lost on the way, or never sent
    /\ step = [l \in Leg |-> "idle"]
    /\ oldBalance = [l \in Leg |-> 0]
    /\ posted = {}

-----------------------------------------------------------------------------
(* The authenticator's saveAccount gives an account its row, version 1.    *)

SaveAccount(a) ==
    /\ version[a] = 0
    /\ version' = [version EXCEPT ![a] = 1]
    /\ UNCHANGED <<amount, histories, cbTrans, referrals, order, tx,
                   msg, step, oldBalance, posted>>

(* Delivery: the Ack decorator acknowledges, then the handler starts.      *)

Start(m) == [l \in Leg |-> IF l \in LegsOf(m) THEN "find" ELSE step[l]]

Deliver(m) ==
    /\ msg[m] = "queued"
    /\ msg' = [msg EXCEPT ![m] = "running"]
    /\ step' = IF Pattern[m] = "USER_DEPOSIT" THEN step ELSE Start(m)
    /\ UNCHANGED <<dbVars, oldBalance, posted>>

-----------------------------------------------------------------------------
(* Plausible mistakes in the handlers.  None is a part of Next: each one   *)
(* stands in for the definition it is named after, to show that a property *)
(* below notices it.                                                       *)

\* updateMany writes the sum computed from the balance read earlier.
UpdateMany_Overwrites(l) ==
    /\ step[l] = "update"
    /\ amount' = [amount EXCEPT ![Receiver[l]] = oldBalance[l] + Amount[l]]
    /\ posted' = posted \cup {l}
    /\ step' = [step EXCEPT ![l] = "insert"]
    /\ UNCHANGED <<version, histories, cbTrans, referrals, order, tx,
                   msg, oldBalance>>

\* The history row is not awaited, and is lost with the process.
InsertHistory_Skipped(l) ==
    /\ step[l] = "history"
    /\ step' = [step EXCEPT ![l] = "update"]
    /\ UNCHANGED <<dbVars, msg, oldBalance, posted>>

\* Promise.race in the place of Promise.all.
AllDone_Race(m) == \E l \in LegsOf(m) : step[l] = "done"

\* The callback of the deposit's transaction does not await increaseBalance.
AllDone_NotAwaited(m) == \A l \in LegsOf(m) : step[l] # "idle"

\* updateBalance tries again until it finds the row, instead of throwing.
FindRow_Waits(l) ==
    /\ step[l] = "find"
    /\ version[Receiver[l]] = Version[l]
    /\ oldBalance' = [oldBalance EXCEPT ![l] = amount[Receiver[l]]]
    /\ step' = [step EXCEPT ![l] = "history"]
    /\ UNCHANGED <<dbVars, msg, posted>>

-----------------------------------------------------------------------------
(* increaseBalance, with updateBalance and insertCashbackTransaction       *)

RowMatches(l) == version[Receiver[l]] = Version[l]

\* findUniqueOrThrow reads the balance, or throws when no row matches.
FindRow(l) ==
    /\ step[l] = "find"
    /\ IF RowMatches(l)
       THEN /\ oldBalance' = [oldBalance EXCEPT ![l] = amount[Receiver[l]]]
            /\ step' = [step EXCEPT ![l] = "history"]
       ELSE /\ step' = [step EXCEPT ![l] = "failed"]
            /\ UNCHANGED oldBalance
    /\ UNCHANGED <<dbVars, msg, posted>>

InsertHistory(l) ==
    /\ step[l] = "history"
    /\ histories' = histories \cup {l}
    /\ step' = [step EXCEPT ![l] = "update"]
    /\ UNCHANGED <<amount, version, cbTrans, referrals, order, tx,
                   msg, oldBalance, posted>>

\* updateMany increments in the database, on the rows of that version.
UpdateMany(l) ==
    /\ step[l] = "update"
    /\ IF RowMatches(l)
       THEN /\ amount' = [amount EXCEPT ![Receiver[l]] = @ + Amount[l]]
            /\ posted' = posted \cup {l}
            /\ step' = [step EXCEPT ![l] = "insert"]
       ELSE /\ step' = [step EXCEPT ![l] = "mismatch"]
            /\ UNCHANGED <<amount, posted>>
    /\ UNCHANGED <<version, histories, cbTrans, referrals, order, tx,
                   msg, oldBalance>>

InsertCbTrans(l) ==
    /\ step[l] = "insert"
    /\ cbTrans' = cbTrans \cup {l}
    /\ step' = [step EXCEPT ![l] = "done"]
    /\ UNCHANGED <<amount, version, histories, referrals, order, tx,
                   msg, oldBalance, posted>>

\* Any statement can be refused by the database; nothing catches the error.
StatementFails(l) ==
    /\ step[l] \in Running
    /\ step' = [step EXCEPT ![l] = "failed"]
    /\ UNCHANGED <<dbVars, msg, oldBalance, posted>>

-----------------------------------------------------------------------------
(* The handlers around the legs                                            *)

AllDone(m) == \A l \in LegsOf(m) : step[l] = "done"

\* Closes m's transaction, if it is still open, without its update.
Rollback(m) == [o \in Order |-> IF tx[o] = m THEN NoMsg ELSE tx[o]]

\* A call that threw rejects the handler at once: Promise.all does not wait
\* for the other leg, which keeps running.
HandlerThrows(m) ==
    /\ msg[m] = "running"
    /\ \E l \in LegsOf(m) : step[l] \in Thrown
    /\ msg' = [msg EXCEPT ![m] = "failed"]
    /\ tx' = Rollback(m)
    /\ UNCHANGED <<amount, version, histories, cbTrans, referrals, order,
                   step, oldBalance, posted>>

NoneAccountReferral(m) ==
    /\ msg[m] = "running"
    /\ Pattern[m] = "NONE_ACCOUNT_REFERRAL"
    /\ AllDone(m)
    /\ msg' = [msg EXCEPT ![m] = "done"]
    /\ UNCHANGED <<dbVars, step, oldBalance, posted>>

\* accountReferral inserts the referral once both balances are increased;
\* referral_from is unique, and the statement may fail.
AccountReferral(m) ==
    /\ msg[m] = "running"
    /\ Pattern[m] = "ACCOUNT_REFERRAL"
    /\ AllDone(m)
    /\ \/ /\ ReferralFrom[m] \notin referrals
          /\ referrals' = referrals \cup {ReferralFrom[m]}
          /\ msg' = [msg EXCEPT ![m] = "done"]
       \/ /\ msg' = [msg EXCEPT ![m] = "failed"]
          /\ UNCHANGED referrals
    /\ UNCHANGED <<amount, version, histories, cbTrans, order, tx,
                   step, oldBalance, posted>>

\* userDeposit opens a transaction and updates the order in it: the row is
\* locked until the transaction ends.  The balance is increased through the
\* ordinary client, outside that transaction.
OpenDeposit(m) ==
    /\ msg[m] = "running"
    /\ Pattern[m] = "USER_DEPOSIT"
    /\ \A l \in LegsOf(m) : step[l] = "idle"
    /\ \/ /\ tx[OrderOf[m]] = NoMsg
          /\ tx' = [tx EXCEPT ![OrderOf[m]] = m]
          /\ step' = Start(m)
          /\ UNCHANGED msg
       \/ /\ msg' = [msg EXCEPT ![m] = "failed"]
          /\ UNCHANGED <<tx, step>>
    /\ UNCHANGED <<amount, version, histories, cbTrans, referrals, order,
                   oldBalance, posted>>

\* The transaction outlives Prisma's time limit and is rolled back, while
\* increaseBalance runs on.
DepositExpires(m) ==
    /\ tx[OrderOf[m]] = m
    /\ tx' = [tx EXCEPT ![OrderOf[m]] = NoMsg]
    /\ UNCHANGED <<amount, version, histories, cbTrans, referrals, order,
                   msg, step, oldBalance, posted>>

CommitDeposit(m) ==
    /\ msg[m] = "running"
    /\ Pattern[m] = "USER_DEPOSIT"
    /\ AllDone(m)
    /\ IF tx[OrderOf[m]] = m
       THEN /\ order' = [order EXCEPT ![OrderOf[m]] = "SUCCESS"]
            /\ msg' = [msg EXCEPT ![m] = "done"]
       ELSE /\ msg' = [msg EXCEPT ![m] = "failed"]
            /\ UNCHANGED order
    /\ tx' = Rollback(m)
    /\ UNCHANGED <<amount, version, histories, cbTrans, referrals,
                   step, oldBalance, posted>>

\* The process dies and restarts.  Open transactions are rolled back; no
\* message is delivered again, they were all acknowledged.
Crash ==
    /\ \/ \E m \in Msg : msg[m] = "running"
       \/ \E l \in Leg : step[l] \in Running
    /\ msg' = [m \in Msg |-> IF msg[m] = "running" THEN "lost" ELSE msg[m]]
    /\ step' = [l \in Leg |-> IF step[l] \in Running THEN "lost" ELSE step[l]]
    /\ tx' = [o \in Order |-> NoMsg]
    /\ UNCHANGED <<amount, version, histories, cbTrans, referrals, order,
                   oldBalance, posted>>

-----------------------------------------------------------------------------

LegStep(l) ==
    FindRow(l) \/ InsertHistory(l) \/ UpdateMany(l) \/ InsertCbTrans(l)

HandlerStep(m) ==
    \/ HandlerThrows(m)
    \/ NoneAccountReferral(m)
    \/ AccountReferral(m)
    \/ OpenDeposit(m)
    \/ CommitDeposit(m)

Next ==
    \/ \E a \in Account : SaveAccount(a)
    \/ \E m \in Msg : Deliver(m) \/ HandlerStep(m) \/ DepositExpires(m)
    \/ \E l \in Leg : LegStep(l) \/ StatementFails(l)
    \/ Crash

Spec == Init /\ [][Next]_vars

\* The event loop takes every callback it is given and the broker delivers
\* what it holds; nothing forces an error, a timeout or a crash.
Fairness ==
    /\ \A m \in Msg : WF_vars(Deliver(m)) /\ WF_vars(HandlerStep(m))
    /\ \A l \in Leg : WF_vars(LegStep(l))

-----------------------------------------------------------------------------
(* Properties                                                              *)

TypeOK ==
    /\ amount \in [Account -> Nat]
    /\ version \in [Account -> Nat]
    /\ histories \subseteq Leg
    /\ cbTrans \subseteq Leg
    /\ referrals \subseteq Account
    /\ order \in [Order -> {"PROCESSING", "SUCCESS"}]
    /\ tx \in [Order -> Msg \cup {NoMsg}]
    /\ msg \in [Msg -> {"queued", "running"} \cup Settled]
    /\ step \in [Leg -> {"idle", "done", "lost"} \cup Running \cup Thrown]
    /\ oldBalance \in [Leg -> Nat]
    /\ posted \subseteq Leg

\* updateBalance and insertCashbackTransaction leave an audit trail: a
\* transaction is recorded only for a balance that was increased, and a
\* balance is increased only after its history row is written, even when a
\* crash or an error cuts the sequence short.
AuditTrail == cbTrans \subseteq posted /\ posted \subseteq histories

\* LockVersionMismatchException is never thrown by updateBalance: the row
\* that findUniqueOrThrow found still has that version at updateMany.
LockVersionNeverMismatches == \A l \in Leg : step[l] # "mismatch"

\* A row in account_referral means that both of the accounts were credited
\* and both transactions were recorded, although accountReferral runs the
\* three writes outside any common transaction.
ReferralPaid ==
    \A a \in referrals :
        \E m \in Msg : /\ Pattern[m] = "ACCOUNT_REFERRAL"
                       /\ ReferralFrom[m] = a
                       /\ LegsOf(m) \subseteq cbTrans

\* An order that userDeposit has turned to SUCCESS was credited: no crash,
\* expired transaction or second deposit of the order makes it SUCCESS
\* without the money.
DepositPaid ==
    \A o \in Order : order[o] = "SUCCESS" =>
        \E m \in Msg : /\ Pattern[m] = "USER_DEPOSIT"
                       /\ OrderOf[m] = o
                       /\ LegsOf(m) \subseteq cbTrans

\* Every message the queue holds is answered or lost, and then none of its
\* legs keeps running and none of its transactions stays open.
EveryMessageSettles ==
    \A m \in Msg : <>[](/\ msg[m] \in Settled
                        /\ \A l \in LegsOf(m) : step[l] \notin Running
                        /\ tx[OrderOf[m]] # m)

\* The wallet implements the atomic ledger: every step posts one leg that
\* was not posted before, or leaves the balances alone.
Balances == INSTANCE Ledger WITH Posting <- Leg, Owner <- Receiver,
                                 Value <- Amount, balance <- amount
LedgerSpec == Balances!Spec

=============================================================================

-------------------------------- MODULE Onus --------------------------------
(***************************************************************************)
(* Payments through ONUS: the callback by which ONUS reports a transfer to *)
(* the broker (third-party service), under a Redlock lock on the transfer, *)
(* and processTransaction, which has the wallet move the amount from the   *)
(* broker to the account and then records the transfer.  One broker, one   *)
(* currency.  The rows of a callback carry its txId, a fresh UUID; they    *)
(* are named by the callback.                                              *)
(*                                                                         *)
(* The wallet's BROKER_PROCESS is outside this repository: it moves the    *)
(* amount and creates both rows in one transaction, or refuses.  So is     *)
(* lock.unlock: it is called on a value of type any, and frees the lock or *)
(* throws.                                                                 *)
(***************************************************************************)
EXTENDS Integers, FiniteSetsExt

CONSTANTS
    Callback,   \* HTTP requests
    Number,     \* transaction numbers of ONUS
    NumberOf,   \* [Callback -> Number]
    Account,
    AccountOf,  \* [Callback -> Account], by e-mail or phone
    Amount,     \* [Number -> Nat]
    Opening,    \* the broker's balance at the start
    MaxRetry,   \* MAX_RETRY
    Free        \* no holder

ASSUME OnusAssumption ==
    /\ IsFiniteSet(Callback)
    /\ NumberOf \in [Callback -> Number]
    /\ AccountOf \in [Callback -> Account]
    /\ Amount \in [Number -> Nat]
    /\ Opening \in Nat
    /\ MaxRetry \in Nat \ {0}
    /\ Free \notin Callback

VARIABLES
    holder,     \* the locks in Redis
    pc,         \* next statement of each callback
    attempt,    \* of checkTransaction or doProcessTransaction, else 1
    rows,       \* accounts with a balance in the currency
    broker,     \* the broker's balance
    queue,      \* BROKER_PROCESS messages the wallet has yet to handle
    paid,       \* cashback_transaction and cashback_transaction_broker, by id
    recorded,   \* partner_transaction, notification and vndc_transaction
    \* history variables
    overtaken,  \* callbacks past their last check of the broker's balance
                \* when the wallet paid for another
    overran     \* callbacks whose lock expired before they had ended

walletVars == <<broker, paid, overtaken>>
dbVars == <<rows, recorded>>
vars == <<holder, pc, attempt, dbVars, queue, walletVars, overran>>

Cost(c) == Amount[NumberOf[c]]
CostOf(C) == SumFunctionOnSet([c \in Callback |-> Cost(c)], C)
Ended == {"success", "failure", "error", "lost"}
Busy(c) == pc[c] \notin Ended \cup {"new"}

TypeOK ==
    /\ holder \in [Number -> Callback \cup {Free}]
    /\ pc \in [Callback -> Ended \cup
           {"new", "account", "info", "exists", "broker", "upsert", "send",
            "wallet", "record", "unlock", "known"}]
    /\ attempt \in [Callback -> 1..MaxRetry]
    /\ rows \subseteq Account
    /\ broker \in Int
    /\ queue \subseteq Callback
    /\ paid \subseteq Callback
    /\ recorded \subseteq Callback
    /\ overtaken \subseteq Callback
    /\ overran \subseteq Callback

Init ==
    /\ holder = [n \in Number |-> Free]
    /\ pc = [c \in Callback |-> "new"]
    /\ attempt = [c \in Callback |-> 1]
    /\ rows = {}
    /\ broker = Opening
    /\ queue = {}
    /\ paid = {}
    /\ recorded = {}
    /\ overtaken = {}
    /\ overran = {}

Goto(c, label) == pc' = [pc EXCEPT ![c] = label]

\* On to the next function, or out of the handler.
Enter(c, label) ==
    /\ Goto(c, label)
    /\ attempt' = [attempt EXCEPT ![c] = 1]

\* A callback goes on and changes nothing else.
Step(c, label) ==
    /\ Enter(c, label)
    /\ UNCHANGED <<holder, dbVars, queue, walletVars, overran>>

-----------------------------------------------------------------------------
(* Plausible mistakes; see Wallet.                                         *)

\* The lock is on the broker's uuid and the account, as in LockInterceptor.
Acquire_OtherKey(c) == pc[c] = "new" /\ Step(c, "account")

\* The attempts are not counted.
Retry_Uncounted(c, label) == Goto(c, label) /\ UNCHANGED attempt

\* checkAccount has looked at the balance already.
FindBroker_Unchecked(c) == pc[c] = "broker" /\ Step(c, "upsert")

\* The message to the wallet is not awaited.
DoProcessTransaction_NotAwaited(c) ==
    /\ pc[c] = "send"
    /\ queue' = queue \cup {c}
    /\ Goto(c, "record")
    /\ UNCHANGED <<holder, attempt, dbVars, walletVars, overran>>

-----------------------------------------------------------------------------
(* The callback                                                            *)

\* _redlock.acquire([uuid + transactionNumber], REDLOCK_TTL)
Acquire(c) ==
    /\ pc[c] = "new"
    /\ holder[NumberOf[c]] = Free
    /\ holder' = [holder EXCEPT ![NumberOf[c]] = c]
    /\ Goto(c, "account")
    /\ UNCHANGED <<attempt, dbVars, queue, walletVars, overran>>

\* Its attempts are used up, or Redis fails: outside the try.
AcquireFails(c) == pc[c] = "new" /\ Step(c, "error")

\* The error is in ONUS_ERROR: the handler unlocks in its catch.
KnownError(c) == Step(c, "known")

\* It is not: the handler answers and keeps the lock.
UnknownError(c) == Step(c, "failure")

\* Two reads: the broker's balance, and the one account of the payer.
CheckAccount(c) ==
    /\ pc[c] = "account"
    /\ \/ broker >= Cost(c) /\ Step(c, "info")
       \/ KnownError(c)

\* Another attempt, as long as MAX_RETRY allows.
Retry(c, label) ==
    /\ attempt[c] < MaxRetry
    /\ attempt' = [attempt EXCEPT ![c] = @ + 1]
    /\ Goto(c, label)

\* getTransactionInfo throws, and after MAX_DELAY there is another attempt.
InfoFails(c) ==
    /\ pc[c] = "info"
    /\ Retry(c, "info")
    /\ UNCHANGED <<holder, dbVars, queue, walletVars, overran>>

\* It answers, or has failed MAX_RETRY times.  The answer has to agree with
\* the request, and to be recent.
CheckTransaction(c) ==
    /\ pc[c] = "info"
    /\ Step(c, "exists") \/ KnownError(c)

Exists(n) == \E d \in recorded : NumberOf[d] = n

\* TRANSACTION_ALREADY_EXISTED
CountExisting(c) ==
    /\ pc[c] = "exists"
    /\ IF Exists(NumberOf[c]) THEN KnownError(c) ELSE Step(c, "broker")

FindBroker(c) ==
    /\ pc[c] = "broker"
    /\ IF broker >= Cost(c) THEN Step(c, "upsert") ELSE KnownError(c)

UpsertCbAvailable(c) ==
    /\ pc[c] = "upsert"
    /\ rows' = rows \cup {AccountOf[c]}
    /\ Goto(c, "send")
    /\ UNCHANGED <<holder, attempt, recorded, queue, walletVars, overran>>

\* Both versions are read and go into the payload.
DoProcessTransaction(c) ==
    /\ pc[c] = "send"
    /\ AccountOf[c] \in rows
    /\ queue' = queue \cup {c}
    /\ Goto(c, "wallet")
    /\ UNCHANGED <<holder, attempt, dbVars, walletVars, overran>>

\* A version cannot be read.
ProcessFails(c) ==
    /\ pc[c] = "send"
    /\ Retry(c, "send")
    /\ UNCHANGED <<holder, dbVars, queue, walletVars, overran>>

ProcessGivesUp(c) ==
    /\ pc[c] = "send"
    /\ attempt[c] = MaxRetry
    /\ UnknownError(c)

\* generatePartnerTx, then one transaction: vndc_transaction_number is unique
\* and cashback_transaction_id refers to the wallet's row.
CreateRecords(c) ==
    /\ pc[c] = "record"
    /\ ~ Exists(NumberOf[c])
    /\ recorded' = recorded \cup {c}
    /\ Goto(c, "unlock")
    /\ UNCHANGED <<holder, attempt, rows, queue, walletVars, overran>>

\* A statement rejects, or the exchange rate that generatePartnerTx asks for.
StatementFails(c) ==
    /\ pc[c] \in {"account", "exists", "broker", "upsert", "record"}
    /\ UnknownError(c)

\* lock.unlock() is not awaited; a lock that has expired is not freed again.
Unlock(c) ==
    /\ pc[c] \in {"unlock", "known"}
    /\ Goto(c, IF pc[c] = "unlock" THEN "success" ELSE "failure")
    /\ holder' = IF holder[NumberOf[c]] = c
                 THEN [holder EXCEPT ![NumberOf[c]] = Free] ELSE holder
    /\ UNCHANGED <<attempt, dbVars, queue, walletVars, overran>>

\* It throws: in the try, to the catch, and in the catch, out of the handler.
UnlockThrows(c) ==
    \/ pc[c] = "unlock" /\ UnknownError(c)
    \/ pc[c] = "known" /\ Step(c, "error")

-----------------------------------------------------------------------------
(* The environment                                                         *)

\* Nothing looks at the broker's balance for d again.
Checked(d) == pc[d] \in {"upsert", "send", "wallet"} \/ d \in queue

\* What the answer of the wallet does to a callback that waits for it.  The
\* last error reaches the handler, which may know its message or not.
AnswerOK(c) == pc[c] = "wallet" /\ Enter(c, "record")

AnswerError(c) ==
    /\ pc[c] = "wallet"
    /\ \/ Retry(c, "send")
       \/ /\ attempt[c] = MaxRetry
          /\ Enter(c, "known") \/ Enter(c, "failure")

\* The callback was lost, and nobody waits.
Unheard(c) == pc[c] = "lost" /\ UNCHANGED <<pc, attempt>>

\* The wallet pays; it may still answer with an error after that.
BrokerProcess(c) ==
    /\ c \in queue \ paid
    /\ queue' = queue \ {c}
    /\ paid' = paid \cup {c}
    /\ broker' = broker - Cost(c)
    /\ overtaken' = overtaken \cup {d \in Callback \ {c} : Checked(d)}
    /\ AnswerOK(c) \/ AnswerError(c) \/ Unheard(c)
    /\ UNCHANGED <<holder, dbVars, overran>>

\* It refuses, as it must when it has rows with this id already.
BrokerRefuses(c) ==
    /\ c \in queue
    /\ queue' = queue \ {c}
    /\ AnswerError(c) \/ Unheard(c)
    /\ UNCHANGED <<holder, dbVars, walletVars, overran>>

\* REDLOCK_TTL has passed.
LockExpires(n) ==
    /\ holder[n] # Free
    /\ holder' = [holder EXCEPT ![n] = Free]
    /\ overran' = IF Busy(holder[n]) THEN overran \cup {holder[n]} ELSE overran
    /\ UNCHANGED <<pc, attempt, dbVars, queue, walletVars>>

\* The service dies with its callbacks; Redis, the queue and the wallet do not.
Crash ==
    /\ \E c \in Callback : Busy(c)
    /\ pc' = [c \in Callback |-> IF Busy(c) THEN "lost" ELSE pc[c]]
    /\ attempt' = [c \in Callback |-> IF Busy(c) THEN 1 ELSE attempt[c]]
    /\ UNCHANGED <<holder, dbVars, queue, walletVars, overran>>

-----------------------------------------------------------------------------
Process(c) ==
    \/ Acquire(c) \/ AcquireFails(c) \/ CheckAccount(c)
    \/ InfoFails(c) \/ CheckTransaction(c) \/ CountExisting(c) \/ FindBroker(c)
    \/ UpsertCbAvailable(c) \/ DoProcessTransaction(c) \/ ProcessFails(c)
    \/ ProcessGivesUp(c) \/ CreateRecords(c) \/ StatementFails(c)
    \/ Unlock(c) \/ UnlockThrows(c)

Wallet(c) == BrokerProcess(c) \/ BrokerRefuses(c)

Next ==
    \/ \E c \in Callback : Process(c) \/ Wallet(c)
    \/ \E n \in Number : LockExpires(n)
    \/ Crash

\* Node runs every handler that can go on; the wallet works off its queue.
Fairness == \A c \in Callback : WF_vars(Process(c)) /\ WF_vars(Wallet(c))

Spec == Init /\ [][Next]_vars /\ Fairness

-----------------------------------------------------------------------------
(* Properties                                                              *)

\* The broker pays a transfer twice only when one of the two callbacks outlived
\* its lock, or ended, by an error or a crash, between the wallet's payment and
\* the record that later callbacks look for.
\* (onus.controller.ts 150-159, onus.service.ts 188-195, 306-342)
PaidAgainOnlyUnrecorded ==
    \A c, d \in paid :
        c # d /\ NumberOf[c] = NumberOf[d] =>
            \E e \in {c, d} :
                e \in overran \/ (e \notin recorded /\ pc[e] \in Ended)

\* Whatever retries, crashes and late answers do, a recorded transfer has been
\* paid by the very rows its record refers to, to an account with a balance,
\* and it is recorded once.  (onus.service.ts 216-233, 306-342)
RecordedIsPaid ==
    /\ recorded \subseteq paid
    /\ \A c \in paid : AccountOf[c] \in rows
    /\ \A c, d \in recorded : NumberOf[c] = NumberOf[d] => c = d

\* The broker is overdrawn by no more than the payments took whose last check
\* of the balance another payment had overtaken: retries, late refusals, second
\* payments of one transfer and crashes alone never overdraw it.
\* (onus.service.ts 203-214)
OverdrawnOnlyByRace == broker + CostOf(paid \cap overtaken) >= 0

\* The retries of checkTransaction and doProcessTransaction come to an end:
\* every callback is answered, or lost in a crash.
\* (onus.service.ts 362-389, 450-491)
EveryCallbackEnds == \A c \in Callback : <>(pc[c] \in Ended)

=============================================================================

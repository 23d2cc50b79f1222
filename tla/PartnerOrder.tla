---------------------------- MODULE PartnerOrder ----------------------------
(***************************************************************************)
(* Orders for Satoshi and VNDC (partner_transaction), from the gateway's   *)
(* payme and partner controllers through the authenticator's               *)
(* PartnerService, with the cashback service's buyVNDC.  Every handler is  *)
(* a sequence of awaited statements, so that handlers interleave between   *)
(* them.  An order is named by the request that creates it: its id is a    *)
(* fresh UUID.                                                             *)
(*                                                                         *)
(* credited[r], trail and raced are about what confirm and cancel do to an *)
(* order: both read it, and later write it without looking at it again.    *)
(***************************************************************************)
EXTENDS LockInterceptor, Integers, FiniteSets

CONSTANTS
    Account,
    AccountOf,  \* [Request -> Account], the authenticated user
    Kind,       \* [Request -> Kinds], the route
    Target,     \* [Request -> Request], the order a cancel or confirm names
    Amount      \* [Request -> Nat], the amount of an order

\* buyVNDC of CashbackService is "inquiry", after its route.
Creators == {"buySatoshi", "buyVNDC", "inquiry"}
Kinds == Creators \cup {"cancel", "confirm"}

ASSUME OrderAssumption ==
    /\ AccountOf \in [Request -> Account]
    /\ Kind \in [Request -> Kinds]
    /\ Target \in [Request -> Request]
    /\ \A r \in Request : Kind[Target[r]] \in Creators
    /\ Amount \in [Request -> Nat]
    /\ Locked = {r \in Request : Kind[r] = "buySatoshi"}
    /\ \A r, s \in Locked : KeyOf[r] = KeyOf[s]

VARIABLES
    order,      \* partner_transaction.status; "none" while there is no row
    trail,      \* partner_transaction.histories: who wrote an entry
    balance,    \* cashback_available.amount in SATOSHI
    pc,         \* next statement of each handler
    seen,       \* the histories a handler read
    \* history variables
    credited,   \* the confirms that have increased a balance
    raced,      \* orders that two handlers have had in hand at once
    overran     \* requests whose lock expired before their handler ended

orderVars == <<order, trail, balance>>
vars == <<lockVars, orderVars, pc, seen, credited, raced, overran>>

Buys == {r \in Request : Kind[r] \in Creators}
Ended == {"done", "threw", "lost"}
Busy(r) == pc[r] \notin Ended \cup {"idle"}

Init ==
    /\ LockInit
    /\ order = [o \in Buys |-> "none"]
    /\ trail = [o \in Buys |-> {}]
    /\ balance = [a \in Account |-> 0]
    /\ pc = [r \in Request |-> "idle"]
    /\ seen = [r \in Request |-> {}]
    /\ credited = {}
    /\ raced = {}
    /\ overran = {}

Goto(r, label) == pc' = [pc EXCEPT ![r] = label]

-----------------------------------------------------------------------------
(* Plausible mistakes; see Wallet.                                         *)

\* confirm does not return early for an order that is a SUCCESS already.
ConfirmFind_AnyStatus(r) ==
    /\ pc[r] = "confirm"
    /\ LET o == Target[r] IN
       IF order[o] \in {"PROCESSING", "SUCCESS"} /\ AccountOf[o] = AccountOf[r]
       THEN /\ Goto(r, "pay")
            /\ seen' = [seen EXCEPT ![r] = trail[o]]
            /\ raced' = IF \E s \in Request : pc[s] \in {"reject", "pay"}
                                              /\ Target[s] = o
                        THEN raced \cup {o} ELSE raced
       ELSE Goto(r, "threw") /\ UNCHANGED <<seen, raced>>
    /\ UNCHANGED <<lockVars, orderVars, credited, overran>>

\* A confirm that is refused by the database still credits the balance.
Pay_NotInTransaction(r) ==
    /\ pc[r] = "pay"
    /\ Goto(r, "done")
    /\ LET o == Target[r] IN
       /\ order' = [order EXCEPT ![o] = "SUCCESS"]
       /\ trail' = [trail EXCEPT ![o] = seen[r] \cup {r}]
       /\ \/ /\ balance' = [balance EXCEPT ![AccountOf[r]] = @ + Amount[o]]
             /\ credited' = credited \cup {r}
          \/ UNCHANGED <<balance, credited>>
    /\ UNCHANGED <<lockVars, seen, raced, overran>>

\* The balance is written, not incremented.
Pay_Overwrites(r) ==
    /\ pc[r] = "pay"
    /\ Goto(r, "done")
    /\ LET o == Target[r] IN
       /\ order' = [order EXCEPT ![o] = "SUCCESS"]
       /\ trail' = [trail EXCEPT ![o] = seen[r] \cup {r}]
       /\ balance' = [balance EXCEPT ![AccountOf[r]] = Amount[o]]
       /\ credited' = credited \cup {r}
    /\ UNCHANGED <<lockVars, seen, raced, overran>>

-----------------------------------------------------------------------------
(* The gateway                                                             *)

FirstStatement(r) ==
    CASE Kind[r] \in {"buySatoshi", "buyVNDC"} -> "count"
      [] Kind[r] = "inquiry" -> "rate"
      [] OTHER -> Kind[r]

\* The route's handler sends its message to the service's queue.
Send(r) ==
    /\ Acquire(r)
    /\ Goto(r, FirstStatement(r))
    /\ UNCHANGED <<orderVars, seen, credited, raced, overran>>

LockFails(r) ==
    /\ Refuse(r)
    /\ UNCHANGED <<orderVars, pc, seen, credited, raced, overran>>

\* The service's answer, a result or an error, reaches the interceptor.
Reply(r) ==
    /\ pc[r] \in {"done", "threw"}
    /\ Answer(r)
    /\ UNCHANGED <<orderVars, pc, seen, credited, raced, overran>>

LockExpires(k) ==
    /\ Expire(k)
    /\ overran' = IF Busy(holder[k]) THEN overran \cup {holder[k]} ELSE overran
    /\ UNCHANGED <<orderVars, pc, seen, credited, raced>>

GatewayDies ==
    /\ GatewayCrash
    /\ UNCHANGED <<orderVars, pc, seen, credited, raced, overran>>

-----------------------------------------------------------------------------
(* createTransactionForBuyingSatoshi, createBuyVNDCTransaction, buyVNDC    *)

Pending(a) == {o \in Buys : AccountOf[o] = a /\ order[o] = "PROCESSING"}

CountPending(r) ==
    /\ pc[r] = "count"
    /\ IF Pending(AccountOf[r]) # {}
       THEN Goto(r, "threw")
       ELSE Goto(r, IF Kind[r] = "buySatoshi" THEN "rate" ELSE "create")
    /\ UNCHANGED <<lockVars, orderVars, seen, credited, raced, overran>>

\* The rates come from a cache or from VNDC, or there are none.
GetExchangeRate(r) ==
    /\ pc[r] = "rate"
    /\ Goto(r, "create") \/ Goto(r, "threw")
    /\ UNCHANGED <<lockVars, orderVars, seen, credited, raced, overran>>

CreateOrder(r) ==
    /\ pc[r] = "create"
    /\ \/ /\ Goto(r, "done")
          /\ order' = [order EXCEPT ![r] = "PROCESSING"]
          /\ trail' = [trail EXCEPT ![r] = {r}]
       \/ Goto(r, "threw") /\ UNCHANGED <<order, trail>>
    /\ UNCHANGED <<lockVars, balance, seen, credited, raced, overran>>

-----------------------------------------------------------------------------
(* cancelTransactionById, updateStatusTransaction                          *)

\* Two handlers that have read order o and not yet written it.
InHand(o) == {s \in Request : pc[s] \in {"reject", "pay"} /\ Target[s] = o}

TakeInHand(r, label) ==
    /\ Goto(r, label)
    /\ seen' = [seen EXCEPT ![r] = trail[Target[r]]]
    /\ raced' = IF InHand(Target[r]) = {} THEN raced
                                          ELSE raced \cup {Target[r]}

CancelFind(r) ==
    /\ pc[r] = "cancel"
    /\ IF order[Target[r]] = "PROCESSING"
       THEN TakeInHand(r, "reject")
       ELSE Goto(r, "done") /\ UNCHANGED <<seen, raced>>
    /\ UNCHANGED <<lockVars, orderVars, credited, overran>>

\* The update names the order and not the status it was found with.
Reject(r) ==
    /\ pc[r] = "reject"
    /\ \/ /\ Goto(r, "done")
          /\ order' = [order EXCEPT ![Target[r]] = "REJECTED"]
          /\ trail' = [trail EXCEPT ![Target[r]] = seen[r] \cup {r}]
       \/ Goto(r, "threw") /\ UNCHANGED <<order, trail>>
    /\ UNCHANGED <<lockVars, balance, seen, credited, raced, overran>>

\* Another account's order, a rejected one or none: TRANSACTION_INVALID.
ConfirmFind(r) ==
    /\ pc[r] = "confirm"
    /\ LET o == Target[r] IN
       CASE AccountOf[o] = AccountOf[r] /\ order[o] = "PROCESSING" ->
                TakeInHand(r, "pay")
         [] AccountOf[o] = AccountOf[r] /\ order[o] = "SUCCESS" ->
                Goto(r, "done") /\ UNCHANGED <<seen, raced>>
         [] OTHER -> Goto(r, "threw") /\ UNCHANGED <<seen, raced>>
    /\ UNCHANGED <<lockVars, orderVars, credited, overran>>

\* One database transaction: the order, its notification, the cashback
\* transaction and the increment of the SATOSHI balance.  An error is caught.
Pay(r) ==
    /\ pc[r] = "pay"
    /\ Goto(r, "done")
    /\ LET o == Target[r] IN
       \/ /\ order' = [order EXCEPT ![o] = "SUCCESS"]
          /\ trail' = [trail EXCEPT ![o] = seen[r] \cup {r}]
          /\ balance' = [balance EXCEPT ![AccountOf[r]] = @ + Amount[o]]
          /\ credited' = credited \cup {r}
       \/ UNCHANGED <<orderVars, credited>>
    /\ UNCHANGED <<lockVars, seen, raced, overran>>

\* The service dies: the messages it had taken were acknowledged.
ServiceCrash ==
    /\ \E r \in Request : Busy(r)
    /\ pc' = [r \in Request |-> IF Busy(r) THEN "lost" ELSE pc[r]]
    /\ UNCHANGED <<lockVars, orderVars, seen, credited, raced, overran>>

-----------------------------------------------------------------------------

Next ==
    \/ \E r \in Request :
          \/ Send(r) \/ LockFails(r) \/ Reply(r)
          \/ CountPending(r) \/ GetExchangeRate(r) \/ CreateOrder(r)
          \/ CancelFind(r) \/ Reject(r)
          \/ ConfirmFind(r) \/ Pay(r)
    \/ \E k \in Key : LockExpires(k)
    \/ GatewayDies
    \/ ServiceCrash

Spec == Init /\ [][Next]_vars

-----------------------------------------------------------------------------
(* Properties                                                              *)

TypeOK ==
    /\ LockTypeOK
    /\ order \in [Buys -> {"none", "PROCESSING", "SUCCESS", "REJECTED"}]
    /\ trail \in [Buys -> SUBSET Request]
    /\ balance \in [Account -> Nat]
    /\ pc \in [Request -> {"idle", "count", "rate", "create", "cancel",
                           "reject", "confirm", "pay"} \cup Ended]
    /\ seen \in [Request -> SUBSET Request]
    /\ credited \subseteq Request
    /\ raced \subseteq Buys
    /\ overran \subseteq Request

\* As long as no lock expires under a running handler, buySatoshi leaves an
\* account with at most one Satoshi order in PROCESSING: the check and the
\* create of two requests do not interleave, although the rate is awaited
\* between them, and buyVNDC and inquiry run beside them without a lock.
SatoshiSinglePending ==
    overran = {} =>
        \A o1, o2 \in Locked :
            /\ AccountOf[o1] = AccountOf[o2]
            /\ order[o1] = "PROCESSING"
            /\ order[o2] = "PROCESSING"
            => o1 = o2

\* The confirms that have credited order o.
Credits(o) == {r \in credited : Target[r] = o}

\* An order that no two handlers of cancelTransactionById and
\* updateStatusTransaction had in hand at once is settled once: it is a
\* SUCCESS exactly when it was credited, by one confirm only, and its
\* histories show that confirm.
SettledOnce ==
    \A o \in Buys \ raced :
        /\ order[o] = "SUCCESS" <=> Credits(o) # {}
        /\ \A r1, r2 \in Credits(o) : r1 = r2
        /\ Credits(o) \subseteq trail[o]

\* Raced or not, an order shown as SUCCESS was paid for: its owner's balance
\* has been increased by a confirm of that order.
SuccessIsPaid == \A o \in Buys : order[o] = "SUCCESS" => Credits(o) # {}

\* Balances change only by crediting the owner of an order with its amount,
\* for a confirm that has not credited before.
Balances == INSTANCE Ledger WITH
    Posting <- {r \in Request : Kind[r] = "confirm"},
    Owner <- [r \in Request |-> AccountOf[Target[r]]],
    Value <- [r \in Request |-> Amount[Target[r]]],
    posted <- credited
LedgerSpec == Balances!Spec

=============================================================================

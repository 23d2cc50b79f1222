----------------------------- MODULE Commission -----------------------------
(***************************************************************************)
(* Payment of a partner's commissions, approved in the back office         *)
(* (approvedCommissionForPartner of the CMS) under the LockInterceptor:    *)
(* the commissions are checked, their sum is paid by the wallet, and they  *)
(* are marked afterwards by a transaction that nobody waits for.  Only the *)
(* lock, which stays after the answer until it expires, keeps the next     *)
(* request from reading commissions that are paid and not marked yet.      *)
(*                                                                         *)
(* The wallet's PARTNER_COMMISSION is outside this repository: it pays or  *)
(* refuses, and may answer with an error in either case.                   *)
(***************************************************************************)
EXTENDS LockInterceptor

CONSTANTS
    Account,
    AccountOf,  \* [Request -> Account], the partner in the path
    Id,         \* rows of account_partner_commission
    OwnerOf,    \* [Id -> Account]
    IdsOf       \* [Request -> SUBSET Id], the body of the request

\* The key is the route's name and the path, which names the account.
ASSUME CommissionAssumption ==
    /\ Locked = Request
    /\ AccountOf \in [Request -> Account]
    /\ OwnerOf \in [Id -> Account]
    /\ IdsOf \in [Request -> SUBSET Id]
    /\ \A r, s \in Request :
          AccountOf[r] = AccountOf[s] <=> KeyOf[r] = KeyOf[s]

VARIABLES
    success,    \* rows whose cashback transaction is a SUCCESS
    markedBy,   \* requests that set is_approved of a row
    pc,         \* next statement of each handler
    marking,    \* requests whose transaction of marks is under way
    queue,      \* PARTNER_COMMISSION messages the wallet has yet to handle
    \* history variables
    credited,   \* requests the wallet has paid for
    overran     \* requests whose lock expired before their marks were set

dbVars == <<success, markedBy>>
walletVars == <<queue, credited>>
vars == <<lockVars, dbVars, walletVars, pc, marking, overran>>

IsApproved(c) == markedBy[c] # {}
Ended == {"done", "threw", "lost"}
Busy(r) == pc[r] \notin Ended \cup {"new"}

TypeOK ==
    /\ LockTypeOK
    /\ success \subseteq Id
    /\ markedBy \in [Id -> SUBSET Request]
    /\ pc \in [Request -> Ended \cup {"new", "account", "commissions", "rate",
                                      "balance", "wallet", "paid"}]
    /\ marking \subseteq Request
    /\ queue \subseteq Request
    /\ credited \subseteq Request
    /\ overran \subseteq Request

Init ==
    /\ LockInit
    /\ success = {}
    /\ markedBy = [c \in Id |-> {}]
    /\ pc = [r \in Request |-> "new"]
    /\ marking = {}
    /\ queue = {}
    /\ credited = {}
    /\ overran = {}

\* A statement of r after which only its handler moves on.
Step(r, from, to) ==
    /\ pc[r] = from
    /\ pc' = [pc EXCEPT ![r] = to]
    /\ UNCHANGED <<lockVars, dbVars, marking, overran>>

-----------------------------------------------------------------------------
(* Plausible mistakes; see Wallet.                                         *)

\* A commission is paid whatever becomes of the conversion it was earned by.
Invalid_AnyStatus(r) ==
    \E c \in IdsOf[r] : OwnerOf[c] # AccountOf[r] \/ IsApproved(c)

\* The marks are set while the wallet has yet to pay.
FindAvailable_MarksFirst(r) ==
    /\ pc[r] = "balance"
    /\ pc' = [pc EXCEPT ![r] = "wallet"]
    /\ marking' = marking \cup {r}
    /\ queue' = queue \cup {r}
    /\ UNCHANGED <<lockVars, dbVars, credited, overran>>

-----------------------------------------------------------------------------
(* approvedCommissionForPartner                                            *)

Send(r) ==
    /\ Acquire(r)
    /\ pc' = [pc EXCEPT ![r] = "account"]
    /\ UNCHANGED <<dbVars, walletVars, marking, overran>>

LockFails(r) ==
    /\ Refuse(r)
    /\ UNCHANGED <<dbVars, walletVars, pc, marking, overran>>

FindAccount(r) == Step(r, "account", "commissions") /\ UNCHANGED walletVars

Invalid(r) ==
    \E c \in IdsOf[r] :
        OwnerOf[c] # AccountOf[r] \/ IsApproved(c) \/ c \notin success

FindCommissions(r) ==
    /\ IF Invalid(r) THEN Step(r, "commissions", "threw")
                     ELSE Step(r, "commissions", "rate")
    /\ UNCHANGED walletVars

GetExchangeRate(r) == Step(r, "rate", "balance") /\ UNCHANGED walletVars

\* The balance is found and the sum sent to the wallet.
FindAvailable(r) ==
    /\ Step(r, "balance", "wallet")
    /\ queue' = queue \cup {r}
    /\ UNCHANGED credited

\* The transaction begins, and the handler answers without waiting for it.
Mark(r) ==
    /\ pc[r] = "paid"
    /\ pc' = [pc EXCEPT ![r] = "done"]
    /\ marking' = marking \cup {r}
    /\ UNCHANGED <<lockVars, dbVars, walletVars, overran>>

\* No such partner, a sum of 0, no rate for it, or a statement that rejects.
StatementFails(r) ==
    /\ \E from \in {"account", "commissions", "rate", "balance"} :
          Step(r, from, "threw")
    /\ UNCHANGED walletVars

MarkCommits(r) ==
    /\ r \in marking
    /\ marking' = marking \ {r}
    /\ markedBy' = [c \in Id |-> IF c \in IdsOf[r] THEN markedBy[c] \cup {r}
                                                   ELSE markedBy[c]]
    /\ UNCHANGED <<lockVars, success, walletVars, pc, overran>>

MarkFails(r) ==
    /\ r \in marking
    /\ marking' = marking \ {r}
    /\ UNCHANGED <<lockVars, dbVars, walletVars, pc, overran>>

Reply(r) ==
    /\ Answer(r)
    /\ pc[r] \in {"done", "threw"}
    /\ UNCHANGED <<dbVars, walletVars, pc, marking, overran>>

-----------------------------------------------------------------------------
(* The environment                                                         *)

Returns(r, label) ==
    IF pc[r] = "wallet" THEN pc' = [pc EXCEPT ![r] = label] ELSE UNCHANGED pc

WalletPays(r) ==
    /\ r \in queue
    /\ queue' = queue \ {r}
    /\ credited' = credited \cup {r}
    /\ Returns(r, "paid") \/ Returns(r, "threw")
    /\ UNCHANGED <<lockVars, dbVars, marking, overran>>

WalletRefuses(r) ==
    /\ r \in queue
    /\ queue' = queue \ {r}
    /\ Returns(r, "threw")
    /\ UNCHANGED <<lockVars, dbVars, credited, marking, overran>>

\* The cron job learns that the conversion behind a commission is confirmed.
TransactionSucceeds(c) ==
    /\ c \notin success
    /\ success' = success \cup {c}
    /\ UNCHANGED <<lockVars, markedBy, walletVars, pc, marking, overran>>

LockExpires(k) ==
    /\ Expire(k)
    /\ overran' = overran \cup
                  {r \in Request : holder[k] = r /\ (Busy(r) \/ r \in marking)}
    /\ UNCHANGED <<dbVars, walletVars, pc, marking>>

\* The CMS dies with its handlers and the transactions that did not commit.
Crash ==
    /\ \E r \in Request : Busy(r) \/ r \in marking
    /\ IF \E r \in Locked : gate[r] = "handling" THEN GatewayCrash
                                                 ELSE UNCHANGED lockVars
    /\ pc' = [r \in Request |-> IF Busy(r) THEN "lost" ELSE pc[r]]
    /\ marking' = {}
    /\ UNCHANGED <<dbVars, walletVars, overran>>

-----------------------------------------------------------------------------
Next ==
    \/ \E r \in Request :
          \/ Send(r) \/ LockFails(r) \/ Reply(r)
          \/ FindAccount(r) \/ FindCommissions(r) \/ GetExchangeRate(r)
          \/ FindAvailable(r) \/ Mark(r) \/ StatementFails(r)
          \/ MarkCommits(r) \/ MarkFails(r)
          \/ WalletPays(r) \/ WalletRefuses(r)
    \/ \E c \in Id : TransactionSucceeds(c)
    \/ \E k \in Key : LockExpires(k)
    \/ Crash

Spec == Init /\ [][Next]_vars

-----------------------------------------------------------------------------
(* Properties                                                              *)

\* A request that came to its end and did not mark what it may have paid.
Unmarked(r, c) ==
    pc[r] \in Ended /\ r \notin marking /\ r \notin markedBy[c]

\* A commission is paid by two requests only if one of them outlived its lock
\* or ended without the mark: an error after the payment, a failed transaction
\* or a crash.  (account.service.ts 717-729, 811-816; lock.interceptor.ts 83)
PaidAgainOnlyUnmarked ==
    \A r, s \in credited, c \in Id :
        r # s /\ c \in IdsOf[r] \cap IdsOf[s] =>
            \/ r \in overran \/ s \in overran
            \/ Unmarked(r, c) \/ Unmarked(s, c)

\* A marked commission was paid by the request that marked it, and belongs to
\* the partner of that request.  (account.service.ts 811-816)
MarkedIsPaid ==
    \A c \in Id : \A r \in markedBy[c] :
        r \in credited /\ OwnerOf[c] = AccountOf[r]

\* Whatever the wallet pays for has been earned: every conversion behind the
\* payment is a SUCCESS.  (account.service.ts 717-722)
PaidIsEarned == \A r \in credited \cup queue : IdsOf[r] \subseteq success

=============================================================================

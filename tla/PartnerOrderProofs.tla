------------------------- MODULE PartnerOrderProofs -------------------------
(***************************************************************************)
(* Proofs about PartnerOrder, for any number of accounts and requests.     *)
(***************************************************************************)
EXTENDS PartnerOrder, TLAPS

\* Only a creation runs the statements that create, and its order does not
\* exist before it ends.  An order in hand exists, and who pays for it owns it.
PcInv ==
    /\ \A r \in Request : pc[r] \in {"count", "rate", "create"} => r \in Buys
    /\ \A r \in Request : pc[r] \in {"confirm", "pay"} => Kind[r] = "confirm"
    /\ \A o \in Buys : order[o] # "none" => pc[o] \in Ended
    /\ \A r \in Request : gate[r] = "new" => pc[r] = "idle"
    /\ \A r \in Request :
          pc[r] \in {"reject", "pay"} => order[Target[r]] # "none"
    /\ \A r \in Request :
          pc[r] = "pay" => AccountOf[Target[r]] = AccountOf[r]
    /\ \A r \in credited : pc[r] \in Ended

\* A handler under the lock holds it, until the lock expires under it; past
\* its check, its account has no Satoshi order in PROCESSING.
LockInv ==
    overran = {} =>
        \A r \in Locked :
            /\ pc[r] \in {"count", "rate", "create"} => holder[KeyOf[r]] = r
            /\ pc[r] \in {"rate", "create"} =>
                  \A o \in Locked : AccountOf[o] = AccountOf[r] =>
                                    order[o] # "PROCESSING"

\* Of an order that was not raced, at most one handler is in hand, and what
\* it has read is still what the database holds.
HandInv ==
    \A o \in Buys \ raced :
        /\ \A r1, r2 \in InHand(o) : r1 = r2
        /\ \A r \in InHand(o) : order[o] = "PROCESSING" /\ seen[r] = trail[o]

IInv == /\ TypeOK
        /\ PcInv
        /\ LockInv
        /\ HandInv
        /\ SatoshiSinglePending
        /\ SettledOnce
        /\ SuccessIsPaid

-----------------------------------------------------------------------------

LEMMA TargetIsBuy == \A r \in Request : Target[r] \in Buys
  BY OrderAssumption DEF Buys

LEMMA BuysAreRequests == Buys \subseteq Request
  BY DEF Buys

LEMMA LockedAreBuys == Locked \subseteq Buys
  BY LockAssumption, OrderAssumption DEF Buys, Creators

\* The history entries that a handler reads, and those it writes back.
LEMMA TrailType ==
    ASSUME TypeOK, NEW r \in Request
    PROVE  /\ trail[Target[r]] \in SUBSET Request
           /\ seen[r] \cup {r} \in SUBSET Request
<1>1. trail[Target[r]] \in SUBSET Request
  BY TargetIsBuy DEF TypeOK
<1>2. seen[r] \in SUBSET Request
  BY DEF TypeOK
<1> QED
  BY <1>1, <1>2

\* Type correctness of PartnerOrder: every step keeps TypeOK.
THEOREM TypeStep == TypeOK /\ [Next]_vars => TypeOK'
<1> SUFFICES ASSUME TypeOK, [Next]_vars PROVE TypeOK'
  OBVIOUS
<1> USE DEF TypeOK, LockTypeOK, Ended, lockVars, orderVars, Goto
<1>1. ASSUME NEW r \in Request, Send(r) PROVE TypeOK'
  <2>1. FirstStatement(r) \in {"count", "rate", "cancel", "confirm"}
    BY OrderAssumption DEF FirstStatement, Kinds, Creators
  <2> QED
    BY <1>1, <2>1, LockAssumption DEF Send, Acquire
<1>2. ASSUME NEW r \in Request, LockFails(r) PROVE TypeOK'
  BY <1>2 DEF LockFails, Refuse
<1>3. ASSUME NEW r \in Request, Reply(r) PROVE TypeOK'
  BY <1>3 DEF Reply, Answer
<1>4. ASSUME NEW r \in Request, CountPending(r) PROVE TypeOK'
  BY <1>4 DEF CountPending
<1>5. ASSUME NEW r \in Request, GetExchangeRate(r) PROVE TypeOK'
  BY <1>5 DEF GetExchangeRate
<1>6. ASSUME NEW r \in Request, CreateOrder(r) PROVE TypeOK'
  BY <1>6 DEF CreateOrder
<1>7. ASSUME NEW r \in Request, CancelFind(r) PROVE TypeOK'
  BY <1>7, TargetIsBuy, TrailType DEF CancelFind, TakeInHand
<1>8. ASSUME NEW r \in Request, Reject(r) PROVE TypeOK'
  BY <1>8, TargetIsBuy, TrailType DEF Reject
<1>9. ASSUME NEW r \in Request, ConfirmFind(r) PROVE TypeOK'
  BY <1>9, TargetIsBuy, TrailType DEF ConfirmFind, TakeInHand
<1>10. ASSUME NEW r \in Request, Pay(r) PROVE TypeOK'
  <2>1. AccountOf[r] \in Account /\ Amount[Target[r]] \in Nat
    BY OrderAssumption
  <2> QED
    BY <1>10, <2>1, TargetIsBuy, TrailType DEF Pay
<1>11. ASSUME NEW k \in Key, LockExpires(k) PROVE TypeOK'
  BY <1>11 DEF LockExpires, Expire
<1>12. CASE GatewayDies
  BY <1>12 DEF GatewayDies, GatewayCrash
<1>13. CASE ServiceCrash
  BY <1>13 DEF ServiceCrash, Busy
<1>14. CASE UNCHANGED vars
  BY <1>14 DEF vars
<1> QED
  BY <1>1, <1>2, <1>3, <1>4, <1>5, <1>6, <1>7, <1>8, <1>9, <1>10, <1>11,
     <1>12, <1>13, <1>14 DEF Next

LEMMA InitIInv == Init => IInv
<1> SUFFICES ASSUME Init PROVE IInv
  OBVIOUS
<1> USE DEF Init, LockInit
<1>1. TypeOK
  BY LockAssumption DEF TypeOK, LockTypeOK
<1>2. PcInv /\ LockInv /\ SatoshiSinglePending
  BY LockAssumption, LockedAreBuys, BuysAreRequests
     DEF PcInv, LockInv, SatoshiSinglePending
<1>3. HandInv
  BY DEF HandInv, InHand
<1>4. SettledOnce /\ SuccessIsPaid
  BY DEF SettledOnce, SuccessIsPaid, Credits
<1> QED
  BY <1>1, <1>2, <1>3, <1>4 DEF IInv

\* Every step keeps what the positions of the handlers say.
LEMMA PcStep == TypeOK /\ PcInv /\ [Next]_vars => PcInv'
<1> SUFFICES ASSUME TypeOK, PcInv, [Next]_vars PROVE PcInv'
  OBVIOUS
<1> USE BuysAreRequests, TargetIsBuy
    DEF PcInv, TypeOK, LockTypeOK, Ended, lockVars, orderVars, Goto
<1>1. ASSUME NEW r \in Request, Send(r) PROVE PcInv'
  <2>1. /\ FirstStatement(r) \in {"count", "rate"} => r \in Buys
        /\ FirstStatement(r) = "confirm" => Kind[r] = "confirm"
        /\ FirstStatement(r) \in {"count", "rate", "cancel", "confirm"}
    BY OrderAssumption DEF FirstStatement, Kinds, Creators, Buys
  <2> QED
    BY <1>1, <2>1 DEF Send, Acquire
<1>2. ASSUME NEW r \in Request, LockFails(r) PROVE PcInv'
  BY <1>2 DEF LockFails, Refuse
<1>3. ASSUME NEW r \in Request, Reply(r) PROVE PcInv'
  BY <1>3 DEF Reply, Answer
<1>4. ASSUME NEW r \in Request, CountPending(r) PROVE PcInv'
  BY <1>4 DEF CountPending
<1>5. ASSUME NEW r \in Request, GetExchangeRate(r) PROVE PcInv'
  BY <1>5 DEF GetExchangeRate
<1>6. ASSUME NEW r \in Request, CreateOrder(r) PROVE PcInv'
  BY <1>6 DEF CreateOrder
<1>7. ASSUME NEW r \in Request, CancelFind(r) PROVE PcInv'
  BY <1>7 DEF CancelFind, TakeInHand
<1>8. ASSUME NEW r \in Request, Reject(r) PROVE PcInv'
  BY <1>8 DEF Reject
<1>9. ASSUME NEW r \in Request, ConfirmFind(r) PROVE PcInv'
  BY <1>9 DEF ConfirmFind, TakeInHand
<1>10. ASSUME NEW r \in Request, Pay(r) PROVE PcInv'
  BY <1>10 DEF Pay
<1>11. ASSUME NEW k \in Key, LockExpires(k) PROVE PcInv'
  BY <1>11 DEF LockExpires, Expire
<1>12. CASE GatewayDies
  BY <1>12 DEF GatewayDies, GatewayCrash
<1>13. CASE ServiceCrash
  BY <1>13 DEF ServiceCrash, Busy
<1>14. CASE UNCHANGED vars
  BY <1>14 DEF vars
<1> QED
  BY <1>1, <1>2, <1>3, <1>4, <1>5, <1>6, <1>7, <1>8, <1>9, <1>10, <1>11,
     <1>12, <1>13, <1>14 DEF Next

\* What the lock protects: a step that leaves overran empty either belongs to
\* the one request that holds the lock or creates no Satoshi order.
LEMMA LockStep ==
    TypeOK /\ PcInv /\ LockInv /\ SatoshiSinglePending /\ [Next]_vars
        => LockInv' /\ SatoshiSinglePending'
<1> SUFFICES ASSUME TypeOK, PcInv, LockInv, SatoshiSinglePending, [Next]_vars,
                    overran' = {}
             PROVE  LockInv' /\ SatoshiSinglePending'
  BY DEF LockInv, SatoshiSinglePending
<1> USE LockAssumption, LockedAreBuys, BuysAreRequests, TargetIsBuy
    DEF TypeOK, LockTypeOK, Ended, lockVars, orderVars, Goto
<1>a. overran = {}
  BY DEF Next, Send, LockFails, Reply, CountPending, GetExchangeRate,
         CreateOrder, CancelFind, Reject, ConfirmFind, Pay, LockExpires,
         GatewayDies, ServiceCrash, vars
<1>1. ASSUME NEW r \in Request, Send(r)
      PROVE  LockInv' /\ SatoshiSinglePending'
  <2>1. r \notin Locked \/ FirstStatement(r) = "count"
    BY OrderAssumption DEF FirstStatement
  <2>2. FirstStatement(r) # "idle"
    BY OrderAssumption DEF FirstStatement, Kinds, Creators
  <2>3. \A s \in Locked : pc[s] \in {"count", "rate", "create"} =>
            holder[KeyOf[s]] # Free
    BY <1>a DEF LockInv
  <2>4. SatoshiSinglePending'
    BY <1>1, <1>a DEF Send, Acquire, SatoshiSinglePending
  <2>5. LockInv'
    BY <1>1, <1>a, <2>1, <2>3 DEF Send, Acquire, LockInv
  <2> QED
    BY <2>4, <2>5
<1>2. ASSUME NEW r \in Request, LockFails(r)
      PROVE  LockInv' /\ SatoshiSinglePending'
  BY <1>2, <1>a DEF LockFails, Refuse, LockInv, SatoshiSinglePending
<1>3. ASSUME NEW r \in Request, Reply(r)
      PROVE  LockInv' /\ SatoshiSinglePending'
  BY <1>3, <1>a DEF Reply, Answer, LockInv, SatoshiSinglePending
<1>4. ASSUME NEW r \in Request, CountPending(r)
      PROVE  LockInv' /\ SatoshiSinglePending'
  BY <1>4, <1>a DEF CountPending, Pending, LockInv, SatoshiSinglePending
<1>5. ASSUME NEW r \in Request, GetExchangeRate(r)
      PROVE  LockInv' /\ SatoshiSinglePending'
  BY <1>5, <1>a DEF GetExchangeRate, LockInv, SatoshiSinglePending
<1>6. ASSUME NEW r \in Request, CreateOrder(r)
      PROVE  LockInv' /\ SatoshiSinglePending'
  <2>1. CASE r \in Locked
    <3>1. \A s \in Locked \ {r} : pc[s] \notin {"count", "rate", "create"}
      BY <1>6, <1>a, <2>1, OrderAssumption DEF CreateOrder, LockInv
    <3> QED
      BY <1>6, <1>a, <2>1, <3>1 DEF CreateOrder, LockInv, SatoshiSinglePending
  <2>2. CASE r \notin Locked
    BY <1>6, <1>a, <2>2 DEF CreateOrder, LockInv, SatoshiSinglePending
  <2> QED
    BY <2>1, <2>2
<1>7. ASSUME NEW r \in Request, CancelFind(r)
      PROVE  LockInv' /\ SatoshiSinglePending'
  BY <1>7, <1>a DEF CancelFind, TakeInHand, LockInv, SatoshiSinglePending
<1>8. ASSUME NEW r \in Request, Reject(r)
      PROVE  LockInv' /\ SatoshiSinglePending'
  BY <1>8, <1>a DEF Reject, LockInv, SatoshiSinglePending
<1>9. ASSUME NEW r \in Request, ConfirmFind(r)
      PROVE  LockInv' /\ SatoshiSinglePending'
  BY <1>9, <1>a DEF ConfirmFind, TakeInHand, LockInv, SatoshiSinglePending
<1>10. ASSUME NEW r \in Request, Pay(r)
       PROVE  LockInv' /\ SatoshiSinglePending'
  BY <1>10, <1>a DEF Pay, LockInv, SatoshiSinglePending
<1>11. ASSUME NEW k \in Key, LockExpires(k)
       PROVE  LockInv' /\ SatoshiSinglePending'
  <2>1. ~ Busy(holder[k])
    BY <1>11 DEF LockExpires
  <2> QED
    BY <1>11, <1>a, <2>1 DEF LockExpires, Expire, Busy, LockInv,
                             SatoshiSinglePending
<1>12. CASE GatewayDies
  BY <1>12, <1>a DEF GatewayDies, GatewayCrash, LockInv, SatoshiSinglePending
<1>13. CASE ServiceCrash
  BY <1>13, <1>a DEF ServiceCrash, Busy, LockInv, SatoshiSinglePending
<1>14. CASE UNCHANGED vars
  BY <1>14, <1>a DEF vars, LockInv, SatoshiSinglePending
<1> QED
  BY <1>1, <1>2, <1>3, <1>4, <1>5, <1>6, <1>7, <1>8, <1>9, <1>10, <1>11,
     <1>12, <1>13, <1>14 DEF Next

\* What SettledOnce and SuccessIsPaid need of a step of one handler: the
\* handler that writes an order that was not raced is the only one in hand.
LEMMA SettleStep ==
    IInv /\ [Next]_vars => HandInv' /\ SettledOnce' /\ SuccessIsPaid'
<1> DEFINE Settle == HandInv /\ SettledOnce /\ SuccessIsPaid
<1> SUFFICES ASSUME TypeOK, PcInv, Settle, [Next]_vars PROVE Settle'
  BY DEF IInv
<1> USE BuysAreRequests, TargetIsBuy, TrailType
    DEF TypeOK, LockTypeOK, Ended, lockVars, orderVars, Goto, InHand, Credits
<1>1. ASSUME UNCHANGED <<orderVars, seen, credited, raced>>,
             \A s \in Request : pc'[s] \in {"reject", "pay"} => pc'[s] = pc[s]
      PROVE  Settle'
  BY <1>1 DEF HandInv, SettledOnce, SuccessIsPaid
<1>2. ASSUME NEW r \in Request, Send(r) PROVE Settle'
  <2>1. FirstStatement(r) \notin {"reject", "pay"}
    BY OrderAssumption DEF FirstStatement, Kinds, Creators
  <2> QED
    BY <1>1, <1>2, <2>1 DEF Send
<1>3. ASSUME NEW r \in Request, LockFails(r) \/ Reply(r) PROVE Settle'
  BY <1>1, <1>3 DEF LockFails, Reply
<1>4. ASSUME NEW r \in Request, CountPending(r) \/ GetExchangeRate(r)
      PROVE  Settle'
  BY <1>1, <1>4 DEF CountPending, GetExchangeRate
<1>5. ASSUME NEW r \in Request, CreateOrder(r) PROVE Settle'
  <2>1. r \in Buys /\ order[r] = "none"
    BY <1>5 DEF CreateOrder, PcInv
  <2>2. \A s \in Request : pc[s] \in {"reject", "pay"} => Target[s] # r
    BY <2>1 DEF PcInv
  <2> QED
    BY <1>5, <2>1, <2>2 DEF CreateOrder, HandInv, SettledOnce, SuccessIsPaid
<1>6. ASSUME NEW r \in Request,
             order[Target[r]] = "PROCESSING",
             TakeInHand(r, "reject") \/ TakeInHand(r, "pay"),
             UNCHANGED <<orderVars, credited>>
      PROVE  Settle'
  BY <1>6 DEF TakeInHand, HandInv, SettledOnce, SuccessIsPaid
<1>7. ASSUME NEW r \in Request, CancelFind(r) PROVE Settle'
  BY <1>1, <1>6, <1>7 DEF CancelFind
<1>8. ASSUME NEW r \in Request, ConfirmFind(r) PROVE Settle'
  BY <1>1, <1>6, <1>8 DEF ConfirmFind
<1>9. ASSUME NEW r \in Request, Reject(r) PROVE Settle'
  BY <1>9 DEF Reject, HandInv, SettledOnce, SuccessIsPaid
<1>10. ASSUME NEW r \in Request, Pay(r) PROVE Settle'
  <2>1. CASE UNCHANGED <<orderVars, credited>>
    BY <1>1, <1>10, <2>1 DEF Pay
  <2>2. CASE ~ UNCHANGED <<orderVars, credited>>
    <3>1. Target[r] \notin raced => order[Target[r]] = "PROCESSING"
      BY <1>10 DEF Pay, HandInv
    <3>2. HandInv'
      BY <1>10, <2>2 DEF Pay, HandInv
    <3>3. SettledOnce'
      BY <1>10, <2>2, <3>1 DEF Pay, SettledOnce
    <3>4. SuccessIsPaid'
      BY <1>10, <2>2 DEF Pay, SuccessIsPaid
    <3> QED
      BY <3>2, <3>3, <3>4
  <2> QED
    BY <2>1, <2>2
<1>11. ASSUME NEW k \in Key, LockExpires(k) PROVE Settle'
  BY <1>1, <1>11 DEF LockExpires
<1>12. CASE GatewayDies
  BY <1>1, <1>12 DEF GatewayDies
<1>13. CASE ServiceCrash
  BY <1>1, <1>13 DEF ServiceCrash
<1>14. CASE UNCHANGED vars
  BY <1>1, <1>14 DEF vars
<1> QED
  BY <1>2, <1>3, <1>4, <1>5, <1>7, <1>8, <1>9, <1>10, <1>11, <1>12, <1>13,
     <1>14 DEF Next

-----------------------------------------------------------------------------

\* IInv is an invariant of the order service and its lock.
THEOREM Invariance == Spec => []IInv
<1>1. IInv /\ [Next]_vars => IInv'
  BY TypeStep, PcStep, LockStep, SettleStep DEF IInv
<1> QED
  BY InitIInv, <1>1, PTL DEF Spec

\* With any number of concurrent buyers, an account has at most one Satoshi
\* order in PROCESSING for as long as no lock of buySatoshi expires early.
THEOREM SinglePendingUnderLock == Spec => []SatoshiSinglePending
<1>1. IInv => SatoshiSinglePending
  BY DEF IInv
<1> QED
  BY Invariance, <1>1, PTL

\* Orders that no cancel or confirm raced for are settled once, and an order
\* is never a SUCCESS that nobody was credited for.
THEOREM Settlement == Spec => [](SettledOnce /\ SuccessIsPaid)
<1>1. IInv => SettledOnce /\ SuccessIsPaid
  BY DEF IInv
<1> QED
  BY Invariance, <1>1, PTL

\* Raced or not, an order shown as SUCCESS was paid for.
THEOREM SuccessPaid == Spec => []SuccessIsPaid
<1>1. (SettledOnce /\ SuccessIsPaid) => SuccessIsPaid
  OBVIOUS
<1> QED
  BY Settlement, <1>1, PTL

\* The orders implement the atomic ledger: a balance changes only when a
\* confirm credits the owner of its order, once per confirm.
THEOREM Refinement == Spec => LedgerSpec
<1> USE LockAssumption, OrderAssumption
<1>1. Init => Balances!Init
  BY DEF Init, Balances!Init
<1>2. IInv /\ [Next]_vars => [Balances!Next]_(Balances!vars)
  <2> SUFFICES ASSUME IInv, [Next]_vars
               PROVE  \/ Balances!Next
                      \/ UNCHANGED <<balance, credited>>
    BY DEF Balances!vars
  <2>1. ASSUME NEW r \in Request, Pay(r), ~ UNCHANGED <<balance, credited>>
        PROVE  Balances!Next
    <3>1. /\ Kind[r] = "confirm"
          /\ AccountOf[Target[r]] = AccountOf[r]
          /\ r \notin credited
      BY <2>1 DEF Pay, IInv, PcInv, Ended
    <3>2. Balances!Post(r)
      BY <2>1, <3>1 DEF Pay, orderVars, Balances!Post
    <3> QED
      BY <3>1, <3>2 DEF Balances!Next
  <2>2. ASSUME NEW r \in Request,
               \/ Send(r) \/ LockFails(r) \/ Reply(r)
               \/ CountPending(r) \/ GetExchangeRate(r) \/ CreateOrder(r)
               \/ CancelFind(r) \/ Reject(r) \/ ConfirmFind(r)
        PROVE  UNCHANGED <<balance, credited>>
    BY <2>2 DEF Send, LockFails, Reply, CountPending, GetExchangeRate,
       CreateOrder, CancelFind, Reject, ConfirmFind, orderVars
  <2>3. ASSUME NEW k \in Key, LockExpires(k)
        PROVE  UNCHANGED <<balance, credited>>
    BY <2>3 DEF LockExpires, orderVars
  <2>4. CASE GatewayDies \/ ServiceCrash \/ UNCHANGED vars
    BY <2>4 DEF GatewayDies, ServiceCrash, vars, orderVars
  <2> QED
    BY <2>1, <2>2, <2>3, <2>4 DEF Next
<1> QED
  BY <1>1, <1>2, Invariance, PTL DEF Spec, LedgerSpec, Balances!Spec

=============================================================================

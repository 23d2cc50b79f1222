----------------------------- MODULE OnusProofs -----------------------------
(***************************************************************************)
(* Proofs about Onus, for any number of callbacks, transfers, accounts and *)
(* retries: a recorded transfer has been paid, and a transfer is paid      *)
(* again only when a callback outlived its lock or left a payment without  *)
(* its record; the broker is overdrawn only in a race of two payments.     *)
(***************************************************************************)
EXTENDS Onus, Sums, TLAPS

\* Past the check that the transfer is not recorded, and before its record or
\* the unlock.
Unrecorded(c) ==
    \/ pc[c] \in {"broker", "upsert", "send", "wallet", "record"}
    \/ pc[c] = "known" /\ c \in paid

\* A callback that is being handled holds its lock until that expires.
LockHeld ==
    \A c \in Callback : Busy(c) /\ c \notin overran => holder[NumberOf[c]] = c

\* What the callback and the wallet have done, stage by stage.
Stages ==
    \A c \in Callback :
        /\ c \in queue => pc[c] \in {"wallet", "lost"} /\ AccountOf[c] \in rows
        /\ pc[c] \in {"record", "unlock"} => c \in paid
        /\ c \in paid => /\ pc[c] \in Ended \cup
                             {"send", "wallet", "record", "unlock", "known"}
                         /\ AccountOf[c] \in rows
        /\ c \in recorded => c \in paid /\ pc[c] \in Ended \cup {"unlock"}
        /\ pc[c] = "unlock" => c \in recorded

\* Nobody records a transfer that another callback, under the lock, has found
\* unrecorded.
UnrecordedUnderLock ==
    \A c, d \in Callback :
        /\ NumberOf[c] = NumberOf[d]
        /\ Unrecorded(c) /\ c \notin overran
        /\ d \in recorded
        => d \in overran

RecordedOnce ==
    \A c, d \in recorded : NumberOf[c] = NumberOf[d] => c = d

IInv == TypeOK /\ LockHeld /\ Stages /\ UnrecordedUnderLock /\ RecordedOnce

\* A step preserves the types, and the bound on the attempts.
LEMMA TypeStep == TypeOK /\ [Next]_vars => TypeOK'
<1> USE OnusAssumption DEF TypeOK, Ended, Busy
<1> SUFFICES ASSUME TypeOK, [Next]_vars
             PROVE  TypeOK'
  OBVIOUS
<1>1. ASSUME NEW c \in Callback, Acquire(c)
      PROVE  TypeOK'
  BY <1>1 DEF Acquire, Goto, dbVars, walletVars
<1>2. ASSUME NEW c \in Callback, AcquireFails(c)
      PROVE  TypeOK'
  BY <1>2 DEF AcquireFails, Step, Enter, Goto, dbVars, walletVars
<1>3. ASSUME NEW c \in Callback, CheckAccount(c)
      PROVE  TypeOK'
  BY <1>3 DEF CheckAccount, KnownError, Step, Enter, Goto, dbVars, walletVars
<1>4. ASSUME NEW c \in Callback, InfoFails(c)
      PROVE  TypeOK'
  BY <1>4 DEF InfoFails, Retry, Goto, dbVars, walletVars
<1>5. ASSUME NEW c \in Callback, CheckTransaction(c)
      PROVE  TypeOK'
  BY <1>5 DEF CheckTransaction, KnownError, Step, Enter, Goto, dbVars,
     walletVars
<1>6. ASSUME NEW c \in Callback, CountExisting(c)
      PROVE  TypeOK'
  BY <1>6 DEF CountExisting, Exists, KnownError, Step, Enter, Goto, dbVars,
     walletVars
<1>7. ASSUME NEW c \in Callback, FindBroker(c)
      PROVE  TypeOK'
  BY <1>7 DEF FindBroker, KnownError, Step, Enter, Goto, dbVars, walletVars
<1>8. ASSUME NEW c \in Callback, UpsertCbAvailable(c)
      PROVE  TypeOK'
  BY <1>8 DEF UpsertCbAvailable, Goto, dbVars, walletVars
<1>9. ASSUME NEW c \in Callback, DoProcessTransaction(c)
      PROVE  TypeOK'
  BY <1>9 DEF DoProcessTransaction, Goto, dbVars, walletVars
<1>10. ASSUME NEW c \in Callback, ProcessFails(c)
      PROVE  TypeOK'
  BY <1>10 DEF ProcessFails, Retry, Goto, dbVars, walletVars
<1>11. ASSUME NEW c \in Callback, ProcessGivesUp(c)
      PROVE  TypeOK'
  BY <1>11 DEF ProcessGivesUp, UnknownError, Step, Enter, Goto, dbVars,
     walletVars
<1>12. ASSUME NEW c \in Callback, CreateRecords(c)
      PROVE  TypeOK'
  BY <1>12 DEF CreateRecords, Exists, Goto, dbVars, walletVars
<1>13. ASSUME NEW c \in Callback, StatementFails(c)
      PROVE  TypeOK'
  BY <1>13 DEF StatementFails, UnknownError, Step, Enter, Goto, dbVars,
     walletVars
<1>14. ASSUME NEW c \in Callback, Unlock(c)
      PROVE  TypeOK'
  BY <1>14 DEF Unlock, Goto, dbVars, walletVars
<1>15. ASSUME NEW c \in Callback, UnlockThrows(c)
      PROVE  TypeOK'
  BY <1>15 DEF UnlockThrows, UnknownError, Step, Enter, Goto, dbVars,
     walletVars
<1>16. ASSUME NEW c \in Callback, BrokerProcess(c)
      PROVE  TypeOK'
  BY <1>16 DEF BrokerProcess, AnswerOK, AnswerError, Unheard, Retry, Enter,
     Goto, dbVars, walletVars
<1>17. ASSUME NEW c \in Callback, BrokerRefuses(c)
      PROVE  TypeOK'
  BY <1>17 DEF BrokerRefuses, AnswerError, Unheard, Retry, Enter, Goto, dbVars,
     walletVars
<1>18. ASSUME NEW n \in Number, LockExpires(n)
      PROVE  TypeOK'
  BY <1>18 DEF LockExpires, dbVars, walletVars
<1>19. CASE Crash
  BY <1>19 DEF Crash, dbVars, walletVars
<1>20. CASE UNCHANGED vars
  BY <1>20 DEF vars, dbVars, walletVars
<1> QED
  BY <1>1, <1>2, <1>3, <1>4, <1>5, <1>6, <1>7, <1>8, <1>9, <1>10, <1>11, <1>12,
     <1>13, <1>14, <1>15, <1>16, <1>17, <1>18, <1>19, <1>20 DEF Next, Process,
     Wallet

\* IInv is inductive: one step for each of its parts, and under it one for each
\* action.
LEMMA Invariance == IInv /\ [Next]_vars => IInv'
<1> SUFFICES ASSUME IInv, TypeOK', [Next]_vars
             PROVE  /\ LockHeld' /\ Stages'
                    /\ UnrecordedUnderLock' /\ RecordedOnce'
  BY TypeStep DEF IInv
<1> USE OnusAssumption DEF IInv, TypeOK, Ended, Busy
<1>1. LockHeld'
  <2> USE DEF LockHeld
  <2>1. ASSUME NEW c \in Callback, Acquire(c)
        PROVE  LockHeld'
    BY <2>1 DEF Acquire, Goto, dbVars, walletVars
  <2>2. ASSUME NEW c \in Callback, AcquireFails(c)
        PROVE  LockHeld'
    BY <2>2 DEF AcquireFails, Step, Enter, Goto, dbVars, walletVars
  <2>3. ASSUME NEW c \in Callback, CheckAccount(c)
        PROVE  LockHeld'
    BY <2>3 DEF CheckAccount, KnownError, Step, Enter, Goto, dbVars, walletVars
  <2>4. ASSUME NEW c \in Callback, InfoFails(c)
        PROVE  LockHeld'
    BY <2>4 DEF InfoFails, Retry, Goto, dbVars, walletVars
  <2>5. ASSUME NEW c \in Callback, CheckTransaction(c)
        PROVE  LockHeld'
    BY <2>5 DEF CheckTransaction, KnownError, Step, Enter, Goto, dbVars,
       walletVars
  <2>6. ASSUME NEW c \in Callback, CountExisting(c)
        PROVE  LockHeld'
    BY <2>6 DEF CountExisting, Exists, KnownError, Step, Enter, Goto, dbVars,
       walletVars
  <2>7. ASSUME NEW c \in Callback, FindBroker(c)
        PROVE  LockHeld'
    BY <2>7 DEF FindBroker, KnownError, Step, Enter, Goto, dbVars, walletVars
  <2>8. ASSUME NEW c \in Callback, UpsertCbAvailable(c)
        PROVE  LockHeld'
    BY <2>8 DEF UpsertCbAvailable, Goto, dbVars, walletVars
  <2>9. ASSUME NEW c \in Callback, DoProcessTransaction(c)
        PROVE  LockHeld'
    BY <2>9 DEF DoProcessTransaction, Goto, dbVars, walletVars
  <2>10. ASSUME NEW c \in Callback, ProcessFails(c)
        PROVE  LockHeld'
    BY <2>10 DEF ProcessFails, Retry, Goto, dbVars, walletVars
  <2>11. ASSUME NEW c \in Callback, ProcessGivesUp(c)
        PROVE  LockHeld'
    BY <2>11 DEF ProcessGivesUp, UnknownError, Step, Enter, Goto, dbVars,
       walletVars
  <2>12. ASSUME NEW c \in Callback, CreateRecords(c)
        PROVE  LockHeld'
    BY <2>12 DEF CreateRecords, Exists, Goto, dbVars, walletVars
  <2>13. ASSUME NEW c \in Callback, StatementFails(c)
        PROVE  LockHeld'
    BY <2>13 DEF StatementFails, UnknownError, Step, Enter, Goto, dbVars,
       walletVars
  <2>14. ASSUME NEW c \in Callback, Unlock(c)
        PROVE  LockHeld'
    BY <2>14 DEF Unlock, Goto, dbVars, walletVars
  <2>15. ASSUME NEW c \in Callback, UnlockThrows(c)
        PROVE  LockHeld'
    BY <2>15 DEF UnlockThrows, UnknownError, Step, Enter, Goto, dbVars,
       walletVars
  <2>16. ASSUME NEW c \in Callback, BrokerProcess(c)
        PROVE  LockHeld'
    BY <2>16 DEF BrokerProcess, AnswerOK, AnswerError, Unheard, Retry, Enter,
       Goto, dbVars, walletVars
  <2>17. ASSUME NEW c \in Callback, BrokerRefuses(c)
        PROVE  LockHeld'
    BY <2>17 DEF BrokerRefuses, AnswerError, Unheard, Retry, Enter, Goto,
       dbVars, walletVars
  <2>18. ASSUME NEW n \in Number, LockExpires(n)
        PROVE  LockHeld'
    BY <2>18 DEF LockExpires, dbVars, walletVars
  <2>19. CASE Crash
    BY <2>19 DEF Crash, dbVars, walletVars
  <2>20. CASE UNCHANGED vars
    BY <2>20 DEF vars, dbVars, walletVars
  <2> QED
    BY <2>1, <2>2, <2>3, <2>4, <2>5, <2>6, <2>7, <2>8, <2>9, <2>10, <2>11,
       <2>12, <2>13, <2>14, <2>15, <2>16, <2>17, <2>18, <2>19, <2>20 DEF Next,
       Process, Wallet
<1>2. Stages'
  <2> USE DEF Stages
  <2>1. ASSUME NEW c \in Callback, Acquire(c)
        PROVE  Stages'
    BY <2>1 DEF Acquire, Goto, dbVars, walletVars
  <2>2. ASSUME NEW c \in Callback, AcquireFails(c)
        PROVE  Stages'
    BY <2>2 DEF AcquireFails, Step, Enter, Goto, dbVars, walletVars
  <2>3. ASSUME NEW c \in Callback, CheckAccount(c)
        PROVE  Stages'
    BY <2>3 DEF CheckAccount, KnownError, Step, Enter, Goto, dbVars, walletVars
  <2>4. ASSUME NEW c \in Callback, InfoFails(c)
        PROVE  Stages'
    BY <2>4 DEF InfoFails, Retry, Goto, dbVars, walletVars
  <2>5. ASSUME NEW c \in Callback, CheckTransaction(c)
        PROVE  Stages'
    BY <2>5 DEF CheckTransaction, KnownError, Step, Enter, Goto, dbVars,
       walletVars
  <2>6. ASSUME NEW c \in Callback, CountExisting(c)
        PROVE  Stages'
    BY <2>6 DEF CountExisting, Exists, KnownError, Step, Enter, Goto, dbVars,
       walletVars
  <2>7. ASSUME NEW c \in Callback, FindBroker(c)
        PROVE  Stages'
    BY <2>7 DEF FindBroker, KnownError, Step, Enter, Goto, dbVars, walletVars
  <2>8. ASSUME NEW c \in Callback, UpsertCbAvailable(c)
        PROVE  Stages'
    BY <2>8 DEF UpsertCbAvailable, Goto, dbVars, walletVars
  <2>9. ASSUME NEW c \in Callback, DoProcessTransaction(c)
        PROVE  Stages'
    BY <2>9 DEF DoProcessTransaction, Goto, dbVars, walletVars
  <2>10. ASSUME NEW c \in Callback, ProcessFails(c)
        PROVE  Stages'
    BY <2>10 DEF ProcessFails, Retry, Goto, dbVars, walletVars
  <2>11. ASSUME NEW c \in Callback, ProcessGivesUp(c)
        PROVE  Stages'
    BY <2>11 DEF ProcessGivesUp, UnknownError, Step, Enter, Goto, dbVars,
       walletVars
  <2>12. ASSUME NEW c \in Callback, CreateRecords(c)
        PROVE  Stages'
    BY <2>12 DEF CreateRecords, Exists, Goto, dbVars, walletVars
  <2>13. ASSUME NEW c \in Callback, StatementFails(c)
        PROVE  Stages'
    BY <2>13 DEF StatementFails, UnknownError, Step, Enter, Goto, dbVars,
       walletVars
  <2>14. ASSUME NEW c \in Callback, Unlock(c)
        PROVE  Stages'
    BY <2>14 DEF Unlock, Goto, dbVars, walletVars
  <2>15. ASSUME NEW c \in Callback, UnlockThrows(c)
        PROVE  Stages'
    BY <2>15 DEF UnlockThrows, UnknownError, Step, Enter, Goto, dbVars,
       walletVars
  <2>16. ASSUME NEW c \in Callback, BrokerProcess(c)
        PROVE  Stages'
    BY <2>16 DEF BrokerProcess, AnswerOK, AnswerError, Unheard, Retry, Enter,
       Goto, dbVars, walletVars
  <2>17. ASSUME NEW c \in Callback, BrokerRefuses(c)
        PROVE  Stages'
    BY <2>17 DEF BrokerRefuses, AnswerError, Unheard, Retry, Enter, Goto,
       dbVars, walletVars
  <2>18. ASSUME NEW n \in Number, LockExpires(n)
        PROVE  Stages'
    BY <2>18 DEF LockExpires, dbVars, walletVars
  <2>19. CASE Crash
    BY <2>19 DEF Crash, dbVars, walletVars
  <2>20. CASE UNCHANGED vars
    BY <2>20 DEF vars, dbVars, walletVars
  <2> QED
    BY <2>1, <2>2, <2>3, <2>4, <2>5, <2>6, <2>7, <2>8, <2>9, <2>10, <2>11,
       <2>12, <2>13, <2>14, <2>15, <2>16, <2>17, <2>18, <2>19, <2>20 DEF Next,
       Process, Wallet
<1>3. UnrecordedUnderLock'
  <2> USE DEF UnrecordedUnderLock, Unrecorded, LockHeld, Stages
  <2>1. ASSUME NEW c \in Callback, Acquire(c)
        PROVE  UnrecordedUnderLock'
    BY <2>1 DEF Acquire, Goto, dbVars, walletVars
  <2>2. ASSUME NEW c \in Callback, AcquireFails(c)
        PROVE  UnrecordedUnderLock'
    BY <2>2 DEF AcquireFails, Step, Enter, Goto, dbVars, walletVars
  <2>3. ASSUME NEW c \in Callback, CheckAccount(c)
        PROVE  UnrecordedUnderLock'
    BY <2>3 DEF CheckAccount, KnownError, Step, Enter, Goto, dbVars, walletVars
  <2>4. ASSUME NEW c \in Callback, InfoFails(c)
        PROVE  UnrecordedUnderLock'
    BY <2>4 DEF InfoFails, Retry, Goto, dbVars, walletVars
  <2>5. ASSUME NEW c \in Callback, CheckTransaction(c)
        PROVE  UnrecordedUnderLock'
    BY <2>5 DEF CheckTransaction, KnownError, Step, Enter, Goto, dbVars,
       walletVars
  <2>6. ASSUME NEW c \in Callback, CountExisting(c)
        PROVE  UnrecordedUnderLock'
    BY <2>6 DEF CountExisting, Exists, KnownError, Step, Enter, Goto, dbVars,
       walletVars
  <2>7. ASSUME NEW c \in Callback, FindBroker(c)
        PROVE  UnrecordedUnderLock'
    BY <2>7 DEF FindBroker, KnownError, Step, Enter, Goto, dbVars, walletVars
  <2>8. ASSUME NEW c \in Callback, UpsertCbAvailable(c)
        PROVE  UnrecordedUnderLock'
    BY <2>8 DEF UpsertCbAvailable, Goto, dbVars, walletVars
  <2>9. ASSUME NEW c \in Callback, DoProcessTransaction(c)
        PROVE  UnrecordedUnderLock'
    BY <2>9 DEF DoProcessTransaction, Goto, dbVars, walletVars
  <2>10. ASSUME NEW c \in Callback, ProcessFails(c)
        PROVE  UnrecordedUnderLock'
    BY <2>10 DEF ProcessFails, Retry, Goto, dbVars, walletVars
  <2>11. ASSUME NEW c \in Callback, ProcessGivesUp(c)
        PROVE  UnrecordedUnderLock'
    BY <2>11 DEF ProcessGivesUp, UnknownError, Step, Enter, Goto, dbVars,
       walletVars
  <2>12. ASSUME NEW c \in Callback, CreateRecords(c)
        PROVE  UnrecordedUnderLock'
    BY <2>12 DEF CreateRecords, Exists, Goto, dbVars, walletVars
  <2>13. ASSUME NEW c \in Callback, StatementFails(c)
        PROVE  UnrecordedUnderLock'
    BY <2>13 DEF StatementFails, UnknownError, Step, Enter, Goto, dbVars,
       walletVars
  <2>14. ASSUME NEW c \in Callback, Unlock(c)
        PROVE  UnrecordedUnderLock'
    BY <2>14 DEF Unlock, Goto, dbVars, walletVars
  <2>15. ASSUME NEW c \in Callback, UnlockThrows(c)
        PROVE  UnrecordedUnderLock'
    BY <2>15 DEF UnlockThrows, UnknownError, Step, Enter, Goto, dbVars,
       walletVars
  <2>16. ASSUME NEW c \in Callback, BrokerProcess(c)
        PROVE  UnrecordedUnderLock'
    BY <2>16 DEF BrokerProcess, AnswerOK, AnswerError, Unheard, Retry, Enter,
       Goto, dbVars, walletVars
  <2>17. ASSUME NEW c \in Callback, BrokerRefuses(c)
        PROVE  UnrecordedUnderLock'
    BY <2>17 DEF BrokerRefuses, AnswerError, Unheard, Retry, Enter, Goto,
       dbVars, walletVars
  <2>18. ASSUME NEW n \in Number, LockExpires(n)
        PROVE  UnrecordedUnderLock'
    BY <2>18 DEF LockExpires, dbVars, walletVars
  <2>19. CASE Crash
    BY <2>19 DEF Crash, dbVars, walletVars
  <2>20. CASE UNCHANGED vars
    BY <2>20 DEF vars, dbVars, walletVars
  <2> QED
    BY <2>1, <2>2, <2>3, <2>4, <2>5, <2>6, <2>7, <2>8, <2>9, <2>10, <2>11,
       <2>12, <2>13, <2>14, <2>15, <2>16, <2>17, <2>18, <2>19, <2>20 DEF Next,
       Process, Wallet
<1>4. RecordedOnce'
  <2> USE DEF RecordedOnce, Stages
  <2>1. ASSUME NEW c \in Callback, Acquire(c)
        PROVE  RecordedOnce'
    BY <2>1 DEF Acquire, Goto, dbVars, walletVars
  <2>2. ASSUME NEW c \in Callback, AcquireFails(c)
        PROVE  RecordedOnce'
    BY <2>2 DEF AcquireFails, Step, Enter, Goto, dbVars, walletVars
  <2>3. ASSUME NEW c \in Callback, CheckAccount(c)
        PROVE  RecordedOnce'
    BY <2>3 DEF CheckAccount, KnownError, Step, Enter, Goto, dbVars, walletVars
  <2>4. ASSUME NEW c \in Callback, InfoFails(c)
        PROVE  RecordedOnce'
    BY <2>4 DEF InfoFails, Retry, Goto, dbVars, walletVars
  <2>5. ASSUME NEW c \in Callback, CheckTransaction(c)
        PROVE  RecordedOnce'
    BY <2>5 DEF CheckTransaction, KnownError, Step, Enter, Goto, dbVars,
       walletVars
  <2>6. ASSUME NEW c \in Callback, CountExisting(c)
        PROVE  RecordedOnce'
    BY <2>6 DEF CountExisting, Exists, KnownError, Step, Enter, Goto, dbVars,
       walletVars
  <2>7. ASSUME NEW c \in Callback, FindBroker(c)
        PROVE  RecordedOnce'
    BY <2>7 DEF FindBroker, KnownError, Step, Enter, Goto, dbVars, walletVars
  <2>8. ASSUME NEW c \in Callback, UpsertCbAvailable(c)
        PROVE  RecordedOnce'
    BY <2>8 DEF UpsertCbAvailable, Goto, dbVars, walletVars
  <2>9. ASSUME NEW c \in Callback, DoProcessTransaction(c)
        PROVE  RecordedOnce'
    BY <2>9 DEF DoProcessTransaction, Goto, dbVars, walletVars
  <2>10. ASSUME NEW c \in Callback, ProcessFails(c)
        PROVE  RecordedOnce'
    BY <2>10 DEF ProcessFails, Retry, Goto, dbVars, walletVars
  <2>11. ASSUME NEW c \in Callback, ProcessGivesUp(c)
        PROVE  RecordedOnce'
    BY <2>11 DEF ProcessGivesUp, UnknownError, Step, Enter, Goto, dbVars,
       walletVars
  <2>12. ASSUME NEW c \in Callback, CreateRecords(c)
        PROVE  RecordedOnce'
    BY <2>12 DEF CreateRecords, Exists, Goto, dbVars, walletVars
  <2>13. ASSUME NEW c \in Callback, StatementFails(c)
        PROVE  RecordedOnce'
    BY <2>13 DEF StatementFails, UnknownError, Step, Enter, Goto, dbVars,
       walletVars
  <2>14. ASSUME NEW c \in Callback, Unlock(c)
        PROVE  RecordedOnce'
    BY <2>14 DEF Unlock, Goto, dbVars, walletVars
  <2>15. ASSUME NEW c \in Callback, UnlockThrows(c)
        PROVE  RecordedOnce'
    BY <2>15 DEF UnlockThrows, UnknownError, Step, Enter, Goto, dbVars,
       walletVars
  <2>16. ASSUME NEW c \in Callback, BrokerProcess(c)
        PROVE  RecordedOnce'
    BY <2>16 DEF BrokerProcess, AnswerOK, AnswerError, Unheard, Retry, Enter,
       Goto, dbVars, walletVars
  <2>17. ASSUME NEW c \in Callback, BrokerRefuses(c)
        PROVE  RecordedOnce'
    BY <2>17 DEF BrokerRefuses, AnswerError, Unheard, Retry, Enter, Goto,
       dbVars, walletVars
  <2>18. ASSUME NEW n \in Number, LockExpires(n)
        PROVE  RecordedOnce'
    BY <2>18 DEF LockExpires, dbVars, walletVars
  <2>19. CASE Crash
    BY <2>19 DEF Crash, dbVars, walletVars
  <2>20. CASE UNCHANGED vars
    BY <2>20 DEF vars, dbVars, walletVars
  <2> QED
    BY <2>1, <2>2, <2>3, <2>4, <2>5, <2>6, <2>7, <2>8, <2>9, <2>10, <2>11,
       <2>12, <2>13, <2>14, <2>15, <2>16, <2>17, <2>18, <2>19, <2>20 DEF Next,
       Process, Wallet
<1> QED
  BY <1>1, <1>2, <1>3, <1>4

\* Each variable keeps its type; a callback never makes more than MaxRetry
\* attempts.  (onus.service.ts 374-388, 478-490)
THEOREM TypeCorrect == Spec => []TypeOK
<1>1. Init => TypeOK
  BY OnusAssumption DEF Init, TypeOK, Ended
<1> QED
  BY <1>1, TypeStep, PTL DEF Spec

\* The parts hold at the start, and every step keeps them.
LEMMA Inductive == Spec => []IInv
<1>1. Init => IInv
  BY OnusAssumption DEF Init, IInv, TypeOK, LockHeld, Stages,
     UnrecordedUnderLock, RecordedOnce, Unrecorded, Ended, Busy
<1> QED
  BY <1>1, Invariance, PTL DEF Spec

\* A recorded transfer has been paid, to an account with a balance, and is
\* recorded once.  (onus.service.ts 216-233, 306-342)
THEOREM RecordedPaid == Spec => []RecordedIsPaid
<1>1. IInv => RecordedIsPaid
  BY DEF IInv, TypeOK, Stages, RecordedOnce, RecordedIsPaid
<1> QED
  BY <1>1, Inductive, PTL

\* A transfer is paid twice only when one of the callbacks outlived its lock or
\* ended between the payment and its record.
\* (onus.controller.ts 150-159, onus.service.ts 188-195)
THEOREM PaidAgain == Spec => []PaidAgainOnlyUnrecorded
<1>1. IInv => PaidAgainOnlyUnrecorded
  <2> SUFFICES ASSUME IInv, NEW c \in paid, NEW d \in paid, c # d,
                      NumberOf[c] = NumberOf[d],
                      c \notin overran, c \in recorded \/ pc[c] \notin Ended,
                      d \notin overran, d \in recorded \/ pc[d] \notin Ended
               PROVE  FALSE
    BY DEF PaidAgainOnlyUnrecorded
  <2>1. /\ c \in Callback /\ d \in Callback
        /\ Unrecorded(c) \/ c \in recorded
        /\ Unrecorded(d) \/ d \in recorded
    BY DEF IInv, TypeOK, Stages, Unrecorded
  <2>2. CASE c \in recorded /\ d \in recorded
    BY <2>2 DEF IInv, RecordedOnce
  <2>3. CASE Unrecorded(c) /\ d \in recorded
    BY <2>1, <2>3 DEF IInv, UnrecordedUnderLock
  <2>4. CASE c \in recorded /\ Unrecorded(d)
    BY <2>1, <2>4 DEF IInv, UnrecordedUnderLock
  <2>5. CASE Unrecorded(c) /\ Unrecorded(d)
    BY <2>1, <2>5 DEF IInv, LockHeld, Unrecorded, Busy, Ended
  <2> QED
    BY <2>1, <2>2, <2>3, <2>4, <2>5
<1> QED
  BY <1>1, Inductive, PTL

\* No payment has come between the last check of the broker's balance and a
\* callback's own payment, unless it is in overtaken: then the balance still
\* covers it; and what such callbacks were paid makes up for what is lacking.
CheckHolds ==
    /\ \A c \in Callback :
           Checked(c) /\ c \notin overtaken \cup paid => broker >= Cost(c)
    /\ OverdrawnOnlyByRace

\* What a set of callbacks costs: a new one adds its own cost, and a larger set
\* costs no less.
LEMMA Costs ==
  ASSUME NEW C \in SUBSET Callback
  PROVE  /\ CostOf(C) \in Nat
         /\ CostOf({}) = 0
         /\ \A c \in Callback \ C : CostOf(C \cup {c}) = CostOf(C) + Cost(c)
<1>1. PICK f : f = [c \in Callback |-> Cost(c)]
  OBVIOUS
<1>2. /\ f \in [Callback -> Nat] /\ f \in [Callback -> Int]
      /\ IsFiniteSet(Callback)
  BY <1>1, OnusAssumption DEF Cost
<1>3. /\ SumFunctionOnSet(f, C) \in Nat
      /\ \A c \in Callback \ C :
            SumFunctionOnSet(f, C \cup {c}) = SumFunctionOnSet(f, C) + f[c]
  BY <1>2, SumAdds, SumNat
<1>4. SumFunctionOnSet(f, {}) = 0
  BY SumEmpty
<1> QED
  BY <1>1, <1>3, <1>4 DEF CostOf

LEMMA CostsGrow ==
  ASSUME NEW D \in SUBSET Callback, NEW C \in SUBSET D
  PROVE  CostOf(C) <= CostOf(D)
<1>1. PICK G : G = {B \in SUBSET Callback : CostOf(C) <= CostOf(C \cup B)}
  OBVIOUS
<1>2. ASSUME NEW B \in SUBSET Callback, \A U \in SUBSET B : U # B => U \in G
      PROVE  B \in G
  <2>1. CASE B \subseteq C
    <3>1. C \cup B = C /\ CostOf(C) \in Nat
      BY <2>1, Costs
    <3> QED
      BY <1>1, <3>1
  <2>2. CASE \E c \in B : c \notin C
    <3>1. PICK c \in B : c \notin C
      BY <2>2
    <3>2. PICK U : U = B \ {c}
      OBVIOUS
    <3>3. U \in SUBSET B /\ U # B /\ U \in G
      BY <1>2, <3>1, <3>2
    <3>4. PICK W : W = C \cup U
      OBVIOUS
    <3>5. /\ W \in SUBSET Callback /\ c \in Callback \ W
          /\ W \cup {c} = C \cup B
      BY <3>1, <3>2, <3>4
    <3>6. CostOf(W \cup {c}) = CostOf(W) + Cost(c) /\ CostOf(W) \in Nat
      BY <3>5, Costs
    <3>7. CostOf(C) <= CostOf(W) /\ CostOf(C) \in Nat /\ Cost(c) \in Nat
      BY <1>1, <3>3, <3>4, <3>5, Costs, OnusAssumption DEF Cost
    <3>8. CostOf(C) <= CostOf(C \cup B)
      <4>1. PICK V : V = C \cup B
        OBVIOUS
      <4>2. CostOf(V) = CostOf(W) + Cost(c)
        BY <3>5, <3>6, <4>1
      <4>3. CostOf(C) <= CostOf(V)
        BY <3>6, <3>7, <4>2
      <4> QED
        BY <4>1, <4>3
    <3> QED
      BY <1>1, <3>8
  <2> QED
    BY <2>1, <2>2
<1>3. D \in G
  <2>1. IsFiniteSet(Callback)
    BY OnusAssumption
  <2>2. \A B \in SUBSET Callback : B \in G
    BY <1>2, <2>1, SetInduction
  <2> QED
    BY <2>2
<1>4. C \cup D = D
  OBVIOUS
<1> QED
  BY <1>1, <1>3, <1>4

\* A callback gets past its check of the balance only when that covers it, and
\* no step but the wallet's payment touches the balance.
LEMMA CheckStep ==
  ASSUME TypeOK, [Next]_vars, \A c \in Callback : ~ BrokerProcess(c)
  PROVE  /\ UNCHANGED walletVars
         /\ \A d \in Callback : Checked(d)' => Checked(d) \/ broker >= Cost(d)
<1> DEFINE Kept ==
      /\ UNCHANGED walletVars
      /\ \A d \in Callback : Checked(d)' => Checked(d) \/ broker >= Cost(d)
<1> USE OnusAssumption DEF TypeOK, Ended, Busy, Checked, walletVars
<1>1. ASSUME NEW c \in Callback, Acquire(c)
      PROVE  Kept
  BY <1>1 DEF Acquire, Goto, dbVars
<1>2. ASSUME NEW c \in Callback, AcquireFails(c)
      PROVE  Kept
  BY <1>2 DEF AcquireFails, Step, Enter, Goto, dbVars
<1>3. ASSUME NEW c \in Callback, CheckAccount(c)
      PROVE  Kept
  BY <1>3 DEF CheckAccount, KnownError, Step, Enter, Goto, dbVars
<1>4. ASSUME NEW c \in Callback, InfoFails(c)
      PROVE  Kept
  BY <1>4 DEF InfoFails, Retry, Goto, dbVars
<1>5. ASSUME NEW c \in Callback, CheckTransaction(c)
      PROVE  Kept
  BY <1>5 DEF CheckTransaction, KnownError, Step, Enter, Goto, dbVars
<1>6. ASSUME NEW c \in Callback, CountExisting(c)
      PROVE  Kept
  BY <1>6 DEF CountExisting, KnownError, Step, Enter, Goto, dbVars
<1>7. ASSUME NEW c \in Callback, FindBroker(c)
      PROVE  Kept
  BY <1>7 DEF FindBroker, KnownError, Step, Enter, Goto, dbVars
<1>8. ASSUME NEW c \in Callback, UpsertCbAvailable(c)
      PROVE  Kept
  BY <1>8 DEF UpsertCbAvailable, Goto
<1>9. ASSUME NEW c \in Callback, DoProcessTransaction(c)
      PROVE  Kept
  BY <1>9 DEF DoProcessTransaction, Goto, dbVars
<1>10. ASSUME NEW c \in Callback, ProcessFails(c)
      PROVE  Kept
  BY <1>10 DEF ProcessFails, Retry, Goto, dbVars
<1>11. ASSUME NEW c \in Callback, ProcessGivesUp(c)
      PROVE  Kept
  BY <1>11 DEF ProcessGivesUp, UnknownError, Step, Enter, Goto, dbVars
<1>12. ASSUME NEW c \in Callback, CreateRecords(c)
      PROVE  Kept
  BY <1>12 DEF CreateRecords, Goto
<1>13. ASSUME NEW c \in Callback, StatementFails(c)
      PROVE  Kept
  BY <1>13 DEF StatementFails, UnknownError, Step, Enter, Goto, dbVars
<1>14. ASSUME NEW c \in Callback, Unlock(c)
      PROVE  Kept
  BY <1>14 DEF Unlock, Goto, dbVars
<1>15. ASSUME NEW c \in Callback, UnlockThrows(c)
      PROVE  Kept
  BY <1>15 DEF UnlockThrows, UnknownError, Step, Enter, Goto, dbVars
<1>16. ASSUME NEW c \in Callback, BrokerRefuses(c)
      PROVE  Kept
  BY <1>16 DEF BrokerRefuses, AnswerError, Unheard, Retry, Enter, Goto, dbVars
<1>17. ASSUME NEW n \in Number, LockExpires(n)
      PROVE  Kept
  BY <1>17 DEF LockExpires, dbVars
<1>18. CASE Crash
  BY <1>18 DEF Crash, dbVars
<1>19. CASE UNCHANGED vars
  BY <1>19 DEF vars, dbVars
<1> QED
  BY <1>1, <1>2, <1>3, <1>4, <1>5, <1>6, <1>7, <1>8, <1>9, <1>10, <1>11,
     <1>12, <1>13, <1>14, <1>15, <1>16, <1>17, <1>18, <1>19 DEF Next, Process,
     Wallet

\* The payment finds the balance as its check had left it, or is overtaken.
LEMMA CheckInvariance == TypeOK /\ CheckHolds /\ [Next]_vars => CheckHolds'
<1> SUFFICES ASSUME TypeOK, CheckHolds, [Next]_vars
             PROVE  CheckHolds'
  OBVIOUS
<1>1. \A c \in Callback : Cost(c) \in Nat
  BY OnusAssumption DEF Cost
<1>2. \A c \in Callback : Cost(c)' = Cost(c)
  BY DEF Cost
<1>3. ASSUME NEW c \in Callback, BrokerProcess(c)
      PROVE  CheckHolds'
  <2>1. /\ c \in queue /\ c \notin paid
        /\ queue' = queue \ {c}
        /\ paid' = paid \cup {c}
        /\ broker' = broker - Cost(c)
        /\ overtaken' = overtaken \cup {d \in Callback \ {c} : Checked(d)}
        /\ \A d \in Callback \ {c} : pc'[d] = pc[d]
    BY <1>3 DEF BrokerProcess, AnswerOK, AnswerError, Unheard, Retry, Enter,
       Goto, TypeOK
  <2>2. \A d \in Callback : Checked(d)' => d \in overtaken' \cup paid'
    BY <2>1 DEF Checked
  <2>3. c \notin overtaken => broker >= Cost(c)
    BY <2>1 DEF CheckHolds, Checked
  <2>4. broker \in Int /\ paid \subseteq Callback /\ overtaken \subseteq Callback
    BY DEF TypeOK
  <2>5. PICK X : X = paid \cap overtaken
    OBVIOUS
  <2>6. PICK Y : Y = paid' \cap overtaken'
    OBVIOUS
  <2>7. /\ X \in SUBSET Callback /\ c \in Callback \ X
        /\ Y \in SUBSET Callback /\ X \in SUBSET Y
        /\ c \in overtaken => X \cup {c} \in SUBSET Y
    BY <2>1, <2>4, <2>5, <2>6
  <2>8. broker + CostOf(X) >= 0
    BY <2>5 DEF CheckHolds, OverdrawnOnlyByRace
  <2>9. /\ CostOf(X) \in Nat /\ CostOf(Y) \in Nat /\ Cost(c) \in Nat
        /\ CostOf(X \cup {c}) = CostOf(X) + Cost(c)
    BY <1>1, <2>7, Costs
  <2>10. broker' + CostOf(Y) >= 0
    <3>1. CASE c \in overtaken
      <4>1. CostOf(X \cup {c}) <= CostOf(Y)
        BY <2>7, <3>1, CostsGrow
      <4> QED
        BY <2>1, <2>4, <2>8, <2>9, <4>1
    <3>2. CASE c \notin overtaken
      <4>1. broker >= Cost(c)
        BY <2>3, <3>2
      <4> QED
        BY <2>1, <2>4, <2>9, <4>1
    <3> QED
      BY <3>1, <3>2
  <2>11. OverdrawnOnlyByRace'
    BY <2>6, <2>10 DEF OverdrawnOnlyByRace, CostOf, Cost
  <2> QED
    BY <1>2, <2>2, <2>11 DEF CheckHolds
<1>4. CASE \A c \in Callback : ~ BrokerProcess(c)
  <2>1. /\ UNCHANGED walletVars
        /\ \A d \in Callback : Checked(d)' => Checked(d) \/ broker >= Cost(d)
    BY <1>4, CheckStep
  <2>2. OverdrawnOnlyByRace'
    BY <2>1 DEF CheckHolds, OverdrawnOnlyByRace, CostOf, Cost, walletVars
  <2> QED
    BY <1>2, <2>1, <2>2 DEF CheckHolds, walletVars
<1> QED
  BY <1>3, <1>4

\* The broker is overdrawn by no more than the payments took whose last check
\* of the balance another payment had overtaken.  (onus.service.ts 203-214)
THEOREM Overdrawn == Spec => []OverdrawnOnlyByRace
<1>1. Init => CheckHolds
  <2> SUFFICES ASSUME Init
               PROVE  CheckHolds
    OBVIOUS
  <2>1. paid \cap overtaken = {} /\ broker = Opening
    BY DEF Init
  <2>2. broker + CostOf({}) >= 0
    BY <2>1, Costs, OnusAssumption
  <2> QED
    BY <2>1, <2>2, OnusAssumption
    DEF Init, CheckHolds, OverdrawnOnlyByRace, Checked
<1>2. TypeOK /\ CheckHolds => OverdrawnOnlyByRace
  BY DEF CheckHolds
<1> QED
  BY <1>1, <1>2, TypeCorrect, CheckInvariance, PTL DEF Spec

=============================================================================

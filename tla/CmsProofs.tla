------------------------------ MODULE CmsProofs ------------------------------
(***************************************************************************)
(* Proofs about the CMS.  Module Kyc, for any accounts, rewards and        *)
(* requests: what requests that do not overlap guarantee, and that nothing *)
(* else goes wrong when they do.  Module CmsUsers, for any set of users,   *)
(* roles in the beginning and calls: its types, that no role is gained,    *)
(* and that a role is overwritten by one who does not cover it only beside *)
(* another edit.                                                           *)
(*                                                                         *)
(* NoRoleGained is not inductive: an edit writes the role that its body    *)
(* names on behalf of a token that was compared with it some steps before. *)
(* GainInv adds what holds in between: a call past its guard presents a    *)
(* token that was signed, and that token's role covers the one it gives.   *)
(***************************************************************************)
EXTENDS Kyc, CmsUsers, FiniteSetTheorems, TLAPS

-----------------------------------------------------------------------------
(* Approvals                                                               *)

\* A request that will send a row to the wallet, has sent it or had it paid.
Holds(r, t) ==
    \/ Busy(r) /\ t \in todo[r]
    \/ <<r, t>> \in queue
    \/ <<r, t>> \in credited

Past == {"loop", "wallet", "notify", "done"}

\* Where a request has rows left or a message on its way.
PcInv ==
    \A r \in Approval :
        /\ pc[r] \in {"new", "find", "done"} => todo[r] = {}
        /\ pc[r] = "done" => AccountOf[r] \in approved
        /\ \A t \in Row : <<r, t>> \in queue => pc[r] \in {"wallet", "lost"}
        /\ \A t, u \in Row : <<r, t>> \in queue /\ <<r, u>> \in queue => t = u

\* Somebody approved an approved account.
ApprovedBy ==
    \A a \in approved : \E r \in Approval : AccountOf[r] = a /\ pc[r] = "done"

\* Two requests that are both under way are known to overlap.
BusyOverlap ==
    \A r, s \in Approval : r # s /\ Busy(r) /\ Busy(s) => {r, s} \in overlap

\* The other end of a row that a request holds is approved.
OtherEnd ==
    \A r \in Approval, t \in Row :
        Holds(r, t) => Ends(t) \ {AccountOf[r]} \subseteq approved

CreditedIsSuccess ==
    \A r \in Approval, t \in Row :
        <<r, t>> \in credited => status[t] = "SUCCESS"

\* Two requests hold one row only if they overlap or one was lost.
HeldTwice ==
    \A r, s \in Approval, t \in Row :
        r # s /\ Holds(r, t) /\ Holds(s, t) =>
            {r, s} \in overlap \/ "lost" \in {pc[r], pc[s]}

\* A request that has read the rows leaves out no row that is due, except one
\* whose other end was approved by a request beside it.
Settles ==
    \A s \in Approval, t \in Row :
        /\ pc[s] \in Past
        /\ status[t] = "PROCESSING"
        /\ AccountOf[s] \in Ends(t)
        /\ Ends(t) \ {AccountOf[s]} \subseteq approved
        => \/ t \in todo[s]
           \/ <<s, t>> \in queue
           \/ t \notin Alone /\ Overlapped(Sender[t], Receiver[t])

\* A request whose account another one has approved meanwhile.
ApprovedBeside ==
    \A r \in Approval :
        Busy(r) /\ AccountOf[r] \in approved =>
            Overlapped(AccountOf[r], AccountOf[r])

IInv ==
    /\ TypeOK /\ PcInv /\ ApprovedBy /\ BusyOverlap /\ OtherEnd
    /\ CreditedIsSuccess /\ HeldTwice /\ Settles /\ ApprovedBeside

\* IInv is inductive: one step for each action, and under it one for each part.
LEMMA Invariance == IInv /\ [Next]_vars => IInv'
<1> SUFFICES ASSUME IInv, [Next]_vars
             PROVE  IInv'
  OBVIOUS
<1> USE KycAssumption DEF IInv, TypeOK, Ended, Busy
<1>a. \A a, b \in Account : Overlapped(a, b) => Overlapped(a, b)'
  BY DEF Overlapped, Next, Load, SendApproveKyc, CreateNotification, Commit,
     StatementFails, WalletApproves, WalletRefuses, Crash, vars, FindPending,
     dbVars, walletVars
<1>1. ASSUME NEW r \in Approval, Load(r)
      PROVE  IInv'
  <2>1. \A s \in Approval, u \in Row : Holds(s, u)' => Holds(s, u)
    BY <1>1 DEF Load, Goto, Beside, dbVars, walletVars, Holds, PcInv
  <2>2. TypeOK'
    BY <1>1 DEF Load, Goto, Beside, dbVars, walletVars, Counted
  <2>3. PcInv'
    BY <1>1 DEF Load, Goto, Beside, dbVars, walletVars, PcInv
  <2>4. ApprovedBy'
    BY <1>1 DEF Load, Goto, Beside, dbVars, walletVars, ApprovedBy, PcInv
  <2>5. BusyOverlap'
    BY <1>1 DEF Load, Goto, Beside, dbVars, walletVars, BusyOverlap
  <2>6. CreditedIsSuccess'
    BY <1>1 DEF Load, Goto, Beside, dbVars, walletVars, CreditedIsSuccess
  <2>7. OtherEnd'
    BY <1>1, <2>1 DEF Load, Goto, Beside, dbVars, walletVars, OtherEnd, Ends
  <2>8. HeldTwice'
    BY <1>1, <2>1 DEF Load, Goto, Beside, dbVars, walletVars, HeldTwice
  <2>9. Settles'
    BY <1>1, <1>a DEF Load, Goto, Beside, dbVars, walletVars, Settles, Past,
       Ends, PcInv
  <2>10. ApprovedBeside'
    BY <1>1, <1>a DEF Load, Goto, Beside, dbVars, walletVars, ApprovedBeside
  <2> QED
    BY <2>2, <2>3, <2>4, <2>5, <2>6, <2>7, <2>8, <2>9, <2>10 DEF IInv
<1>2. ASSUME NEW r \in Approval, FindPending(r)
      PROVE  IInv'
  <2>1. TypeOK'
    BY <1>2 DEF FindPending, Eligible, Goto, dbVars, walletVars, Counted
  <2>2. PcInv'
    BY <1>2 DEF FindPending, Eligible, Goto, dbVars, walletVars, PcInv
  <2>3. ApprovedBy'
    BY <1>2 DEF FindPending, Eligible, Goto, dbVars, walletVars, ApprovedBy,
       PcInv
  <2>4. BusyOverlap'
    BY <1>2 DEF FindPending, Eligible, Goto, dbVars, walletVars, BusyOverlap
  <2>5. CreditedIsSuccess'
    BY <1>2 DEF FindPending, Eligible, Goto, dbVars, walletVars,
       CreditedIsSuccess
  <2>6. OtherEnd'
    BY <1>2 DEF FindPending, Eligible, Goto, dbVars, walletVars, OtherEnd,
       Ends, Holds, PcInv, CreditedIsSuccess, BusyOverlap
  <2>7. HeldTwice'
    BY <1>2, SMTT(30)
       DEF FindPending, Eligible, Goto, dbVars, walletVars, HeldTwice,
       Holds, PcInv, CreditedIsSuccess, BusyOverlap
  <2>8. Settles'
    BY <1>2, <1>a DEF FindPending, Eligible, Goto, dbVars, walletVars,
       Settles, Past, Ends, PcInv
  <2>9. ApprovedBeside'
    BY <1>2, <1>a DEF FindPending, Eligible, Goto, dbVars, walletVars,
       ApprovedBeside
  <2> QED
    BY <2>1, <2>2, <2>3, <2>4, <2>5, <2>6, <2>7, <2>8, <2>9 DEF IInv
<1>3. ASSUME NEW r \in Approval, SendApproveKyc(r)
      PROVE  IInv'
  <2>1. \A s \in Approval, u \in Row : Holds(s, u)' => Holds(s, u)
    <3>1. PICK t \in todo[r] : /\ todo' = [todo EXCEPT ![r] = @ \ {t}]
                             /\ queue' = queue \cup {<<r, t>>}
      BY <1>3 DEF SendApproveKyc
    <3>2. pc[r] = "loop" /\ pc' = [pc EXCEPT ![r] = "wallet"] /\ UNCHANGED credited
      BY <1>3 DEF SendApproveKyc, Goto
    <3> QED
      BY <3>1, <3>2 DEF Holds
  <2>2. TypeOK'
    BY <1>3 DEF SendApproveKyc, Goto, dbVars, walletVars, Counted
  <2>3. PcInv'
    BY <1>3 DEF SendApproveKyc, Goto, dbVars, walletVars, PcInv
  <2>4. ApprovedBy'
    BY <1>3 DEF SendApproveKyc, Goto, dbVars, walletVars, ApprovedBy, PcInv
  <2>5. BusyOverlap'
    BY <1>3 DEF SendApproveKyc, Goto, dbVars, walletVars, BusyOverlap
  <2>6. CreditedIsSuccess'
    BY <1>3 DEF SendApproveKyc, Goto, dbVars, walletVars, CreditedIsSuccess
  <2>7. OtherEnd'
    BY <1>3, <2>1 DEF SendApproveKyc, Goto, dbVars, walletVars, OtherEnd, Ends
  <2>8. HeldTwice'
    <3>1. pc' = [pc EXCEPT ![r] = "wallet"] /\ UNCHANGED overlap /\ pc[r] = "loop"
      BY <1>3 DEF SendApproveKyc, Goto
    <3>2. \A s \in Approval : pc[s] = "lost" => pc'[s] = "lost"
      BY <3>1
    <3> QED
      BY <2>1, <3>1, <3>2 DEF HeldTwice
  <2>9. Settles'
    <3>1. PICK t \in todo[r] : /\ todo' = [todo EXCEPT ![r] = @ \ {t}]
                             /\ queue' = queue \cup {<<r, t>>}
      BY <1>3 DEF SendApproveKyc
    <3>2. /\ pc[r] = "loop" /\ pc' = [pc EXCEPT ![r] = "wallet"]
          /\ UNCHANGED <<approved, status>>
      BY <1>3 DEF SendApproveKyc, Goto, dbVars
    <3>3. \A s \in Approval, u \in Row :
             u \in todo[s] \/ <<s, u>> \in queue =>
                u \in todo'[s] \/ <<s, u>> \in queue'
      BY <3>1
    <3>4. \A s \in Approval : pc'[s] \in Past => pc[s] \in Past
      BY <3>2 DEF Past
    <3>5. \A u \in Row : u \notin Alone /\ Overlapped(Sender[u], Receiver[u]) =>
                         Overlapped(Sender[u], Receiver[u])'
      BY <1>a
    <3> QED
      BY <3>2, <3>3, <3>4, <3>5 DEF Settles
  <2>10. ApprovedBeside'
    BY <1>3, <1>a DEF SendApproveKyc, Goto, dbVars, walletVars, ApprovedBeside
  <2> QED
    BY <2>2, <2>3, <2>4, <2>5, <2>6, <2>7, <2>8, <2>9, <2>10 DEF IInv
<1>4. ASSUME NEW r \in Approval, CreateNotification(r)
      PROVE  IInv'
  <2>1. \A s \in Approval, u \in Row : Holds(s, u)' => Holds(s, u)
    BY <1>4 DEF CreateNotification, Goto, dbVars, walletVars, Holds, PcInv
  <2>2. TypeOK'
    BY <1>4 DEF CreateNotification, Goto, dbVars, walletVars, Counted
  <2>3. PcInv'
    BY <1>4 DEF CreateNotification, Goto, dbVars, walletVars, PcInv
  <2>4. ApprovedBy'
    BY <1>4 DEF CreateNotification, Goto, dbVars, walletVars, ApprovedBy,
       PcInv
  <2>5. BusyOverlap'
    BY <1>4 DEF CreateNotification, Goto, dbVars, walletVars, BusyOverlap
  <2>6. CreditedIsSuccess'
    BY <1>4 DEF CreateNotification, Goto, dbVars, walletVars,
       CreditedIsSuccess
  <2>7. OtherEnd'
    BY <1>4, <2>1 DEF CreateNotification, Goto, dbVars, walletVars, OtherEnd,
       Ends
  <2>8. HeldTwice'
    BY <1>4, <2>1 DEF CreateNotification, Goto, dbVars, walletVars, HeldTwice
  <2>9. Settles'
    BY <1>4, <1>a DEF CreateNotification, Goto, dbVars, walletVars, Settles,
       Past, Ends, PcInv
  <2>10. ApprovedBeside'
    BY <1>4, <1>a DEF CreateNotification, Goto, dbVars, walletVars,
       ApprovedBeside
  <2> QED
    BY <2>2, <2>3, <2>4, <2>5, <2>6, <2>7, <2>8, <2>9, <2>10 DEF IInv
<1>5. ASSUME NEW r \in Approval, Commit(r)
      PROVE  IInv'
  <2>1. \A s \in Approval, u \in Row : Holds(s, u)' => Holds(s, u)
    BY <1>5 DEF Commit, Goto, dbVars, walletVars, Holds, PcInv
  <2>2. TypeOK'
    BY <1>5 DEF Commit, Goto, dbVars, walletVars, Counted
  <2>3. PcInv'
    BY <1>5 DEF Commit, Goto, dbVars, walletVars, PcInv
  <2>4. ApprovedBy'
    BY <1>5 DEF Commit, Goto, dbVars, walletVars, ApprovedBy, PcInv
  <2>5. BusyOverlap'
    BY <1>5 DEF Commit, Goto, dbVars, walletVars, BusyOverlap
  <2>6. CreditedIsSuccess'
    BY <1>5 DEF Commit, Goto, dbVars, walletVars, CreditedIsSuccess
  <2>7. OtherEnd'
    BY <1>5, <2>1 DEF Commit, Goto, dbVars, walletVars, OtherEnd, Ends
  <2>8. HeldTwice'
    BY <1>5, <2>1 DEF Commit, Goto, dbVars, walletVars, HeldTwice
  <2>9. Settles'
    <3> SUFFICES ASSUME NEW s \in Approval, NEW t \in Row, pc'[s] \in Past,
                        status'[t] = "PROCESSING", AccountOf[s] \in Ends(t),
                        Ends(t) \ {AccountOf[s]} \subseteq approved'
                 PROVE  \/ t \in todo'[s]
                        \/ <<s, t>> \in queue'
                        \/ /\ t \notin Alone
                           /\ Overlapped(Sender[t], Receiver[t])'
      BY DEF Settles, Ends
    <3>1. /\ pc[r] = "loop" /\ pc' = [pc EXCEPT ![r] = "done"] /\ todo[r] = {}
          /\ approved' = approved \cup {AccountOf[r]}
          /\ UNCHANGED <<status, todo, queue, overlap>>
      BY <1>5 DEF Commit, Goto, walletVars
    <3>2. t \notin Alone /\ Overlapped(Sender[t], Receiver[t]) =>
             Overlapped(Sender[t], Receiver[t])'
      BY <1>a
    <3>3. CASE Ends(t) \ {AccountOf[s]} \subseteq approved
      BY <3>1, <3>2, <3>3 DEF Settles, Past
    <3>4. CASE ~ (Ends(t) \ {AccountOf[s]} \subseteq approved)
      <4>1. /\ r # s /\ t \notin Alone
            /\ Ends(t) = {AccountOf[r], AccountOf[s]}
            /\ {Sender[t], Receiver[t]} = {AccountOf[r], AccountOf[s]}
            /\ Ends(t) \ {AccountOf[r]} \subseteq {AccountOf[s]}
            /\ AccountOf[r] # AccountOf[s]
        BY <3>1, <3>4 DEF Ends
      <4>2. CASE pc[s] = "done"
        <5>1. AccountOf[s] \in approved
          BY <4>2 DEF PcInv
        <5>2. pc[r] \in Past /\ AccountOf[r] \in Ends(t) /\ t \notin todo[r]
              /\ <<r, t>> \notin queue
          BY <3>1, <4>1 DEF Past, PcInv
        <5> QED
          BY <3>1, <3>2, <4>1, <5>1, <5>2 DEF Settles
      <4>3. CASE pc[s] # "done"
        <5>1. {r, s} \in overlap /\ {s, r} = {r, s}
          BY <3>1, <4>1, <4>3 DEF BusyOverlap, Past
        <5>2. Overlapped(AccountOf[r], AccountOf[s])
          BY <4>1, <5>1 DEF Overlapped
        <5>3. Overlapped(AccountOf[s], AccountOf[r])
          BY <4>1, <5>1 DEF Overlapped
        <5> QED
          BY <3>2, <4>1, <5>2, <5>3
      <4> QED
        BY <4>2, <4>3
    <3> QED
      BY <3>3, <3>4
  <2>10. ApprovedBeside'
    <3> SUFFICES ASSUME NEW s \in Approval, Busy(s)', AccountOf[s] \in approved'
                 PROVE  Overlapped(AccountOf[s], AccountOf[s])'
      BY DEF ApprovedBeside
    <3>1. /\ pc[r] = "loop" /\ pc' = [pc EXCEPT ![r] = "done"]
          /\ approved' = approved \cup {AccountOf[r]}
      BY <1>5 DEF Commit, Goto
    <3>2. s # r /\ Busy(s) /\ Busy(r)
      BY <3>1
    <3>3. {r, s} \in overlap
      BY <3>2 DEF BusyOverlap
    <3>4. Overlapped(AccountOf[s], AccountOf[s])
      <4>1. CASE AccountOf[s] \in approved
        BY <3>2, <4>1 DEF ApprovedBeside
      <4>2. CASE AccountOf[s] = AccountOf[r]
        BY <3>2, <3>3, <4>2 DEF Overlapped
      <4> QED
        BY <3>1, <4>1, <4>2
    <3> QED
      BY <1>a, <3>4
  <2> QED
    BY <2>2, <2>3, <2>4, <2>5, <2>6, <2>7, <2>8, <2>9, <2>10 DEF IInv
<1>6. ASSUME NEW r \in Approval, StatementFails(r)
      PROVE  IInv'
  <2>1. \A s \in Approval, u \in Row : Holds(s, u)' => Holds(s, u)
    BY <1>6 DEF StatementFails, Goto, dbVars, walletVars, Holds, PcInv
  <2>2. TypeOK'
    BY <1>6 DEF StatementFails, Goto, dbVars, walletVars, Counted
  <2>3. PcInv'
    BY <1>6 DEF StatementFails, Goto, dbVars, walletVars, PcInv
  <2>4. ApprovedBy'
    BY <1>6 DEF StatementFails, Goto, dbVars, walletVars, ApprovedBy, PcInv
  <2>5. BusyOverlap'
    BY <1>6 DEF StatementFails, Goto, dbVars, walletVars, BusyOverlap
  <2>6. CreditedIsSuccess'
    BY <1>6 DEF StatementFails, Goto, dbVars, walletVars, CreditedIsSuccess
  <2>7. OtherEnd'
    BY <1>6, <2>1 DEF StatementFails, Goto, dbVars, walletVars, OtherEnd, Ends
  <2>8. HeldTwice'
    BY <1>6, <2>1 DEF StatementFails, Goto, dbVars, walletVars, HeldTwice
  <2>9. Settles'
    BY <1>6, <1>a DEF StatementFails, Goto, dbVars, walletVars, Settles, Past,
       Ends, PcInv
  <2>10. ApprovedBeside'
    BY <1>6, <1>a DEF StatementFails, Goto, dbVars, walletVars, ApprovedBeside
  <2> QED
    BY <2>2, <2>3, <2>4, <2>5, <2>6, <2>7, <2>8, <2>9, <2>10 DEF IInv
<1>7. ASSUME NEW r \in Approval, NEW t \in Row, WalletApproves(r, t)
      PROVE  IInv'
  <2>1. \A s \in Approval, u \in Row : Holds(s, u)' => Holds(s, u)
    BY <1>7 DEF WalletApproves, Answer, Goto, dbVars, walletVars, Holds, PcInv
  <2>2. TypeOK'
    BY <1>7 DEF WalletApproves, Answer, Goto, dbVars, walletVars, Counted
  <2>3. PcInv'
    BY <1>7 DEF WalletApproves, Answer, Goto, dbVars, walletVars, PcInv
  <2>4. ApprovedBy'
    BY <1>7 DEF WalletApproves, Answer, Goto, dbVars, walletVars, ApprovedBy,
       PcInv
  <2>5. BusyOverlap'
    BY <1>7 DEF WalletApproves, Answer, Goto, dbVars, walletVars, BusyOverlap
  <2>6. CreditedIsSuccess'
    BY <1>7 DEF WalletApproves, Answer, Goto, dbVars, walletVars,
       CreditedIsSuccess
  <2>7. OtherEnd'
    BY <1>7, <2>1 DEF WalletApproves, Answer, Goto, dbVars, walletVars,
       OtherEnd, Ends
  <2>8. HeldTwice'
    BY <1>7, <2>1 DEF WalletApproves, Answer, Goto, dbVars, walletVars,
       HeldTwice
  <2>9. Settles'
    BY <1>7, <1>a DEF WalletApproves, Answer, Goto, dbVars, walletVars,
       Settles, Past, Ends, PcInv
  <2>10. ApprovedBeside'
    BY <1>7, <1>a DEF WalletApproves, Answer, Goto, dbVars, walletVars,
       ApprovedBeside
  <2> QED
    BY <2>2, <2>3, <2>4, <2>5, <2>6, <2>7, <2>8, <2>9, <2>10 DEF IInv
<1>8. ASSUME NEW r \in Approval, NEW t \in Row, WalletRefuses(r, t)
      PROVE  IInv'
  <2>1. \A s \in Approval, u \in Row : Holds(s, u)' => Holds(s, u)
    BY <1>8 DEF WalletRefuses, Answer, Goto, dbVars, walletVars, Holds, PcInv
  <2>2. TypeOK'
    BY <1>8 DEF WalletRefuses, Answer, Goto, dbVars, walletVars, Counted
  <2>3. PcInv'
    BY <1>8 DEF WalletRefuses, Answer, Goto, dbVars, walletVars, PcInv
  <2>4. ApprovedBy'
    BY <1>8 DEF WalletRefuses, Answer, Goto, dbVars, walletVars, ApprovedBy,
       PcInv
  <2>5. BusyOverlap'
    BY <1>8 DEF WalletRefuses, Answer, Goto, dbVars, walletVars, BusyOverlap
  <2>6. CreditedIsSuccess'
    BY <1>8 DEF WalletRefuses, Answer, Goto, dbVars, walletVars,
       CreditedIsSuccess
  <2>7. OtherEnd'
    BY <1>8, <2>1 DEF WalletRefuses, Answer, Goto, dbVars, walletVars,
       OtherEnd, Ends
  <2>8. HeldTwice'
    BY <1>8, <2>1 DEF WalletRefuses, Answer, Goto, dbVars, walletVars,
       HeldTwice
  <2>9. Settles'
    BY <1>8, <1>a DEF WalletRefuses, Answer, Goto, dbVars, walletVars,
       Settles, Past, Ends, PcInv
  <2>10. ApprovedBeside'
    BY <1>8, <1>a DEF WalletRefuses, Answer, Goto, dbVars, walletVars,
       ApprovedBeside
  <2> QED
    BY <2>2, <2>3, <2>4, <2>5, <2>6, <2>7, <2>8, <2>9, <2>10 DEF IInv
<1>9. CASE Crash
  <2>1. \A s \in Approval, u \in Row : Holds(s, u)' => Holds(s, u)
    BY <1>9 DEF Crash, dbVars, walletVars, Holds, PcInv
  <2>2. TypeOK'
    BY <1>9 DEF Crash, dbVars, walletVars, Counted
  <2>3. PcInv'
    BY <1>9 DEF Crash, dbVars, walletVars, PcInv
  <2>4. ApprovedBy'
    BY <1>9 DEF Crash, dbVars, walletVars, ApprovedBy, PcInv
  <2>5. BusyOverlap'
    BY <1>9 DEF Crash, dbVars, walletVars, BusyOverlap
  <2>6. CreditedIsSuccess'
    BY <1>9 DEF Crash, dbVars, walletVars, CreditedIsSuccess
  <2>7. OtherEnd'
    BY <1>9, <2>1 DEF Crash, dbVars, walletVars, OtherEnd, Ends
  <2>8. HeldTwice'
    BY <1>9, <2>1 DEF Crash, dbVars, walletVars, HeldTwice
  <2>9. Settles'
    BY <1>9, <1>a DEF Crash, dbVars, walletVars, Settles, Past, Ends, PcInv
  <2>10. ApprovedBeside'
    BY <1>9, <1>a DEF Crash, dbVars, walletVars, ApprovedBeside
  <2> QED
    BY <2>2, <2>3, <2>4, <2>5, <2>6, <2>7, <2>8, <2>9, <2>10 DEF IInv
<1>10. CASE UNCHANGED vars
  <2>1. \A s \in Approval, u \in Row : Holds(s, u)' => Holds(s, u)
    BY <1>10 DEF vars, dbVars, walletVars, Holds, PcInv
  <2>2. TypeOK'
    BY <1>10 DEF vars, dbVars, walletVars, Counted
  <2>3. PcInv'
    BY <1>10 DEF vars, dbVars, walletVars, PcInv
  <2>4. ApprovedBy'
    BY <1>10 DEF vars, dbVars, walletVars, ApprovedBy, PcInv
  <2>5. BusyOverlap'
    BY <1>10 DEF vars, dbVars, walletVars, BusyOverlap
  <2>6. CreditedIsSuccess'
    BY <1>10 DEF vars, dbVars, walletVars, CreditedIsSuccess
  <2>7. OtherEnd'
    BY <1>10, <2>1 DEF vars, dbVars, walletVars, OtherEnd, Ends
  <2>8. HeldTwice'
    BY <1>10, <2>1 DEF vars, dbVars, walletVars, HeldTwice
  <2>9. Settles'
    BY <1>10, <1>a DEF vars, dbVars, walletVars, Settles, Past, Ends, PcInv
  <2>10. ApprovedBeside'
    BY <1>10, <1>a DEF vars, dbVars, walletVars, ApprovedBeside
  <2> QED
    BY <2>2, <2>3, <2>4, <2>5, <2>6, <2>7, <2>8, <2>9, <2>10 DEF IInv
<1> QED
  BY <1>1, <1>2, <1>3, <1>4, <1>5, <1>6, <1>7, <1>8, <1>9, <1>10 DEF Next

\* The parts hold at the start, and every step keeps them.
LEMMA Inductive == Spec => []IInv
<1>1. Init => IInv
  BY KycAssumption DEF Init, IInv, TypeOK, PcInv, ApprovedBy, BusyOverlap,
     OtherEnd, CreditedIsSuccess, HeldTwice, Settles, ApprovedBeside, Holds,
     Past, Busy, Ended
<1> QED
  BY <1>1, Invariance, PTL DEF Spec

\* Every variable keeps its type.
THEOREM TypeCorrect == Spec => []TypeOK
<1>1. IInv => TypeOK
  BY DEF IInv
<1> QED
  BY <1>1, Inductive, PTL

\* A reward whose ends are both approved has been paid, unless they were
\* approved by requests that overlapped.  (account.service.ts 104-108, 952-962)
THEOREM RewardsSettle == Spec => []RewardSettled
<1>1. IInv => RewardSettled
  <2> SUFFICES ASSUME IInv, NEW t \in Row, Ends(t) \subseteq approved,
                      status[t] = "PROCESSING"
               PROVE  t \notin Alone /\ Overlapped(Sender[t], Receiver[t])
    BY DEF RewardSettled
  <2>1. Receiver[t] \in Ends(t) /\ Receiver[t] \in approved
    BY DEF Ends
  <2>2. PICK s \in Approval : AccountOf[s] = Receiver[t] /\ pc[s] = "done"
    BY <2>1 DEF IInv, ApprovedBy
  <2>3. t \notin todo[s] /\ <<s, t>> \notin queue
    BY <2>2 DEF IInv, PcInv
  <2> QED
    BY <2>1, <2>2, <2>3 DEF IInv, Settles, Past
<1> QED
  BY <1>1, Inductive, PTL

\* Two requests credit one reward only if they overlapped or one was lost.
\* (account.service.ts 931, 992-994)
THEOREM CreditedAgain == Spec => []CreditedAgainOnlyByOverlap
<1>1. IInv => CreditedAgainOnlyByOverlap
  BY DEF IInv, HeldTwice, Holds, CreditedAgainOnlyByOverlap
<1> QED
  BY <1>1, Inductive, PTL

\* The other account of a credited reward is approved, and both are once the
\* request is done.  (account.service.ts 134, 952-962)
THEOREM CreditsAreDue == Spec => []CreditedForApproved
<1>1. IInv => CreditedForApproved
  <2> SUFFICES ASSUME IInv, NEW r \in Approval, NEW t \in Row,
                      <<r, t>> \in credited
               PROVE  /\ Ends(t) \ {AccountOf[r]} \subseteq approved
                      /\ pc[r] = "done" => Ends(t) \subseteq approved
    BY DEF CreditedForApproved
  <2>1. Ends(t) \ {AccountOf[r]} \subseteq approved
    BY DEF IInv, OtherEnd, Holds
  <2>2. pc[r] = "done" => AccountOf[r] \in approved
    BY DEF IInv, PcInv
  <2> QED
    BY <2>1, <2>2
<1> QED
  BY <1>1, Inductive, PTL

\* Overlap, once noted, stays.
LEMMA OverlapGrows ==
    [Next]_vars => \A a, b \in Account : Overlapped(a, b) => Overlapped(a, b)'
BY DEF Overlapped, Next, vars, dbVars, walletVars, Load, FindPending,
   SendApproveKyc, CreateNotification, Commit, StatementFails,
   WalletApproves, WalletRefuses, Crash

\* A commit counts an account once, or another request of the same account
\* stood beside it.
LEMMA CountStep == IInv /\ KycCounted /\ [Next]_vars => KycCounted'
<1> SUFFICES ASSUME IInv, KycCounted, [Next]_vars, NEW b \in Account
             PROVE  LET referred == {a \in approved' : Referrer[a] = b} IN
                    /\ totalKyc'[b] >= Cardinality(referred)
                    /\ totalKyc'[b] > Cardinality(referred) =>
                          \E a \in referred : Overlapped(a, a)'
  BY DEF KycCounted
<1> DEFINE old == {a \in approved : Referrer[a] = b}
           new == {a \in approved' : Referrer[a] = b}
<1>1. /\ IsFiniteSet(old) /\ Cardinality(old) \in Nat
      /\ old \subseteq Account
      /\ totalKyc[b] \in Nat /\ totalKyc[b] >= Cardinality(old)
      /\ totalKyc[b] > Cardinality(old) => \E a \in old : Overlapped(a, a)
  <2>1. old \in SUBSET Account
    BY DEF IInv, TypeOK
  <2>2. IsFiniteSet(old)
    BY <2>1, KycAssumption, FS_Subset
  <2> QED
    BY <2>1, <2>2, FS_CardinalityType DEF IInv, TypeOK, KycCounted
<1>2. \A a \in old : Overlapped(a, a) => Overlapped(a, a)'
  BY <1>1, OverlapGrows
<1>3. ASSUME NEW r \in Approval, Commit(r), Referrer[AccountOf[r]] = b
      PROVE  /\ totalKyc'[b] >= Cardinality(new)
             /\ totalKyc'[b] > Cardinality(new) =>
                   \E a \in new : Overlapped(a, a)'
  <2>1. /\ new = old \cup {AccountOf[r]}
        /\ totalKyc'[b] = totalKyc[b] + 1
        /\ Busy(r)
    BY <1>3, KycAssumption DEF Commit, Counted, IInv, TypeOK, Busy, Ended
  <2>2. Cardinality(new) = IF AccountOf[r] \in old THEN Cardinality(old)
                                                   ELSE Cardinality(old) + 1
    <3>1. Cardinality(old \cup {AccountOf[r]}) =
             IF AccountOf[r] \in old THEN Cardinality(old)
                                     ELSE Cardinality(old) + 1
      <4> HIDE DEF old
      <4> QED
        BY <1>1, FS_AddElement
    <3> QED
      BY <3>1, <2>1
  <2>3. CASE AccountOf[r] \in old
    <3>1. Overlapped(AccountOf[r], AccountOf[r])'
      BY <1>2, <2>1, <2>3 DEF IInv, ApprovedBeside
    <3> QED
      BY <1>1, <2>1, <2>2, <2>3, <3>1
  <2>4. CASE AccountOf[r] \notin old
    BY <1>1, <1>2, <2>1, <2>2, <2>4
  <2> QED
    BY <2>3, <2>4
<1>4. CASE new = old /\ totalKyc'[b] = totalKyc[b]
  BY <1>1, <1>2, <1>4
<1>5. \/ new = old /\ totalKyc'[b] = totalKyc[b]
      \/ \E r \in Approval : Commit(r) /\ Referrer[AccountOf[r]] = b
  <2>1. ASSUME NEW r \in Approval, Commit(r), Referrer[AccountOf[r]] # b
        PROVE  new = old /\ totalKyc'[b] = totalKyc[b]
    BY <2>1, KycAssumption DEF Commit, Counted, IInv, TypeOK
  <2>2. CASE UNCHANGED dbVars
    BY <2>2 DEF dbVars
  <2> QED
    BY <2>1, <2>2 DEF Next, vars, Load, FindPending, SendApproveKyc,
       CreateNotification, StatementFails, WalletApproves, WalletRefuses, Crash
<1> QED
  BY <1>3, <1>4, <1>5

\* The count of approved referrals is exact unless approvals of one account
\* overlapped, and never too low.  (account.service.ts 132-144, 159)
THEOREM KycIsCounted == Spec => []KycCounted
<1>1. Init => KycCounted
  <2>1. Cardinality({}) = 0
    BY FS_EmptySet
  <2>2. ASSUME Init, NEW b \in Account
        PROVE  {a \in approved : Referrer[a] = b} = {} /\ totalKyc[b] = 0
    BY <2>2 DEF Init
  <2> QED
    BY <2>1, <2>2 DEF KycCounted
<1> QED
  BY <1>1, CountStep, Inductive, PTL DEF Spec

-----------------------------------------------------------------------------
(* Users of the back office                                                *)

\* The guarded calls between their guard and their end.
Admitted(c) == call[c].asks \in Guarded /\ step[c] \in {"find", "write"}

ActorSigned == \A c \in CmsCall : Admitted(c) => actor[c] \in signed

MayGive == \A c \in CmsCall :
              Admitted(c) => CheckRoleValid(actor[c].role, call[c].body.role)

GainInv == UsersTypeOK /\ NoRoleGained /\ ActorSigned /\ MayGive

-----------------------------------------------------------------------------
\* The check of the roles, by cases, is the order of their numbers.
LEMMA RoleValidCovers ==
    ASSUME NEW by \in Roles, NEW role \in Roles, CheckRoleValid(by, role)
    PROVE  Covers(by, role)
BY DEF CheckRoleValid, Covers, Roles, NoRole, ADMIN, MANAGER, EDITOR, USER

\* Who could give a role could give every lesser one.
LEMMA CoveredBelow ==
    ASSUME NEW by \in Roles, NEW role \in Roles, Covered(by), Covers(by, role)
    PROVE  Covered(role)
<1>1. PICK u \in DOMAIN FirstRole : FirstRole[u] <= by
      BY DEF Covered, Covers
<1>2. FirstRole[u] \in Roles
      BY CmsUsersAssumption
<1>3. FirstRole[u] <= role
      BY <1>1, <1>2 DEF Covers, Roles
<1> QED BY <1>3 DEF Covered, Covers

\* What a call asks for is one of the requests there are.
LEMMA CallTyped ==
    ASSUME call \in Callings, NEW c \in CmsCall
    PROVE  call[c] \in Calling
BY CmsUsersAssumption

-----------------------------------------------------------------------------
LEMMA UsersInitTyped == UsersInit => UsersTypeOK
BY CmsUsersAssumption
DEF UsersInit, UsersTypeOK, UserRow, Roles, NoRole, Over

LEMMA UsersStepTyped == UsersTypeOK /\ [UsersNext]_userVars => UsersTypeOK'
<1> SUFFICES ASSUME UsersTypeOK, [UsersNext]_userVars PROVE UsersTypeOK'
    OBVIOUS
<1> USE DEF UsersTypeOK, Moves, Over
<1>1. CASE UNCHANGED userVars
      BY <1>1 DEF userVars, kept, history
<1>2. ASSUME NEW c \in CmsCall, UsersStep(c) PROVE UsersTypeOK'
  <2>0. call[c] \in Calling
        BY CallTyped
  <2>1. CASE Arrive(c)
        BY <2>1 DEF Arrive, kept
  <2>2. CASE CanActivate(c)
        BY <2>2 DEF CanActivate, kept, history
  <2>3. CASE FindOther(c)
        BY <2>3 DEF FindOther, kept, history
  <2>4. CASE CreateUser(c)
    <3>1. [role    |-> IF call[c].body.role = NoRole THEN USER
                       ELSE call[c].body.role,
           status  |-> IF call[c].body.status = NoStatus THEN 1
                       ELSE call[c].body.status,
           deleted |-> FALSE] \in UserRow
          BY <2>0 DEF Calling, Body, UserRow, Roles, USER, NoRole, NoStatus
    <3> QED BY <3>1, <2>4 DEF CreateUser, kept, history
  <2>5. CASE WriteUser(c)
    <3>1. user[call[c].target] \in UserRow
          BY <2>0, <2>5 DEF WriteUser, Calling
    <3>2. Written(c, user[call[c].target]) \in UserRow
          BY <3>1, <2>0
          DEF Written, Calling, Body, UserRow, Roles, NoRole, NoStatus
    <3>3. user[call[c].target].role \in Roles
          BY <3>1 DEF UserRow
    <3> QED BY <3>2, <3>3, <2>5 DEF WriteUser, kept
  <2>6. CASE SignIn(c)
    <3>1. user[call[c].target] \in UserRow
          BY <2>0, <2>6 DEF SignIn, Active, Calling
    <3> QED BY <3>1, <2>0, <2>6
            DEF SignIn, Sign, Token, UserRow, Calling, history
  <2>7. CASE KeepToken(c)
        BY <2>0, <2>7 DEF KeepToken, Calling, history
  <2>8. CASE ProcessForgot(c)
        BY <2>0, <2>8 DEF ProcessForgot, Calling, history
  <2>9. CASE CheckForgotten(c)
        BY <2>9 DEF CheckForgotten, kept, history
  <2>10. CASE ResetPassword(c)
    <3>1. user[call[c].target] \in UserRow
          BY <2>0, <2>10 DEF ResetPassword, Calling
    <3> QED BY <3>1, <2>0, <2>10
            DEF ResetPassword, Sign, Token, UserRow, Calling, history
  <2>11. CASE Stops(c)
        BY <2>11 DEF Stops, kept, history
  <2> QED BY <1>2, <2>1, <2>2, <2>3, <2>4, <2>5, <2>6, <2>7, <2>8, <2>9,
             <2>10, <2>11 DEF UsersStep
<1>3. ASSUME NEW u \in CmsUser, TokenGone(u) PROVE UsersTypeOK'
      BY <1>3 DEF TokenGone, history
<1> QED BY <1>1, <1>2, <1>3 DEF UsersNext

\* Types of the back office's users, tokens and calls.
THEOREM UsersTypeCorrect == UsersSpec => []UsersTypeOK
<1>1. UsersInit => UsersTypeOK
      BY UsersInitTyped
<1>2. UsersTypeOK /\ [UsersNext]_userVars => UsersTypeOK'
      BY UsersStepTyped
<1> QED BY <1>1, <1>2, PTL DEF UsersSpec

-----------------------------------------------------------------------------
LEMMA GainInit == UsersInit => GainInv
<1> SUFFICES ASSUME UsersInit PROVE GainInv
    OBVIOUS
<1>1. UsersTypeOK
      BY UsersInitTyped
<1>2. NoRoleGained
  <2>1. ASSUME NEW u \in CmsUser, user[u] # NoUser PROVE Covered(user[u].role)
    <3>1. u \in DOMAIN FirstRole /\ user[u].role = FirstRole[u]
          BY <2>1 DEF UsersInit
    <3>2. FirstRole[u] <= FirstRole[u]
          BY <3>1, CmsUsersAssumption DEF Roles
    <3> QED BY <3>1, <3>2 DEF Covered, Covers
  <2> QED BY <2>1 DEF NoRoleGained, UsersInit
<1>3. ActorSigned /\ MayGive
      BY DEF ActorSigned, MayGive, Admitted, UsersInit
<1> QED BY <1>1, <1>2, <1>3 DEF GainInv

\* A role given by an admitted call is covered: its maker's is.
LEMMA GivenCovered ==
    ASSUME GainInv, NEW c \in CmsCall, Admitted(c), call[c].body.role # NoRole
    PROVE  Covered(call[c].body.role)
<1>1. call[c] \in Calling
      BY CallTyped DEF GainInv, UsersTypeOK
<1>2. call[c].body.role \in Roles
      BY <1>1 DEF Calling, Body
<1>3. actor[c] \in signed /\ actor[c].role \in Roles
      BY DEF GainInv, ActorSigned, UsersTypeOK, Token
<1>4. Covered(actor[c].role)
      BY <1>3 DEF GainInv, NoRoleGained
<1>5. Covers(actor[c].role, call[c].body.role)
      BY <1>2, <1>3, RoleValidCovers DEF GainInv, MayGive
<1> QED BY <1>2, <1>3, <1>4, <1>5, CoveredBelow

\* So is USER, the role of a new user whom none is given.
LEMMA UserCovered ==
    ASSUME GainInv, NEW c \in CmsCall, Admitted(c)
    PROVE  Covered(USER)
<1>1. actor[c] \in signed /\ actor[c].role \in Roles
      BY DEF GainInv, ActorSigned, UsersTypeOK, Token
<1>2. Covered(actor[c].role)
      BY <1>1 DEF GainInv, NoRoleGained
<1>3. USER \in Roles /\ Covers(actor[c].role, USER)
      BY <1>1 DEF Covers, USER, Roles
<1> QED BY <1>1, <1>2, <1>3, CoveredBelow

\* No step gives anybody a role that the calls under way may not give.
LEMMA GainKeepsRoles == GainInv /\ [UsersNext]_userVars => NoRoleGained'
<1> SUFFICES ASSUME GainInv, [UsersNext]_userVars PROVE NoRoleGained'
    OBVIOUS
<1>0. UsersTypeOK /\ NoRoleGained
      BY DEF GainInv
<1>1. CASE UNCHANGED userVars
      BY <1>0, <1>1 DEF userVars, kept, NoRoleGained, Covered
<1>2. ASSUME NEW c \in CmsCall, UsersStep(c) PROVE NoRoleGained'
  <2>0. call[c] \in Calling
        BY <1>0, CallTyped DEF UsersTypeOK
  <2>1. CASE UNCHANGED <<user, signed>>
        BY <1>0, <2>1 DEF NoRoleGained, Covered
  <2>2. CASE CreateUser(c)
    <3>1. Admitted(c)
          BY <2>2 DEF CreateUser, Admitted, Guarded
    <3> DEFINE given == IF call[c].body.role = NoRole THEN USER
                        ELSE call[c].body.role
    <3>2. Covered(given)
          BY <3>1, GivenCovered, UserCovered
    <3>3. user'[call[c].target].role = given
          BY <1>0, <2>0, <2>2 DEF CreateUser, UsersTypeOK, Calling
    <3>4. /\ \A u \in CmsUser \ {call[c].target} : user'[u] = user[u]
          /\ signed' = signed
          BY <1>0, <2>2 DEF CreateUser, UsersTypeOK, kept
    <3> QED BY <1>0, <3>2, <3>3, <3>4 DEF NoRoleGained, Covered
  <2>3. CASE WriteUser(c)
    <3>1. Admitted(c)
          BY <2>3 DEF WriteUser, Admitted, Guarded
    <3> DEFINE target == call[c].target
    <3>2. target \in CmsUser /\ user[target] # NoUser /\ user[target] \in UserRow
          BY <1>0, <2>0, <2>3 DEF WriteUser, UsersTypeOK, Calling
    <3>3. user'[target] = Written(c, user[target])
          BY <1>0, <2>3, <3>2 DEF WriteUser, UsersTypeOK
    <3>4. user'[target].role \in {user[target].role, call[c].body.role}
          /\ (user'[target].role = user[target].role
                 \/ call[c].body.role # NoRole)
          BY <3>2, <3>3 DEF Written, UserRow
    <3>5. Covered(user'[target].role)
          BY <1>0, <3>1, <3>2, <3>4, GivenCovered DEF NoRoleGained
    <3>6. /\ \A u \in CmsUser \ {target} : user'[u] = user[u]
          /\ signed' = signed
          BY <1>0, <2>3 DEF WriteUser, UsersTypeOK, kept
    <3> QED BY <1>0, <3>5, <3>6 DEF NoRoleGained, Covered
  <2>4. ASSUME Sign(call[c].target), UNCHANGED user,
               user[call[c].target] # NoUser
        PROVE  NoRoleGained'
    <3>1. Covered(user[call[c].target].role)
          BY <1>0, <2>0, <2>4 DEF NoRoleGained, Calling
    <3> QED BY <1>0, <3>1, <2>4 DEF NoRoleGained, Sign, Covered
  <2>5. CASE SignIn(c)
        BY <2>4, <2>5 DEF SignIn, Active
  <2>6. CASE ResetPassword(c)
        BY <2>4, <2>6 DEF ResetPassword
  <2> QED BY <1>2, <2>1, <2>2, <2>3, <2>5, <2>6
          DEF UsersStep, Arrive, CanActivate, FindOther, KeepToken,
              ProcessForgot, CheckForgotten, Stops, kept
<1>3. ASSUME NEW u \in CmsUser, TokenGone(u) PROVE NoRoleGained'
      BY <1>0, <1>3 DEF TokenGone, NoRoleGained, Covered
<1> QED BY <1>1, <1>2, <1>3 DEF UsersNext

\* A call that was admitted stays with its token, which stays signed.
LEMMA GainKeepsActors ==
    GainInv /\ [UsersNext]_userVars => (ActorSigned /\ MayGive)'
<1> SUFFICES ASSUME GainInv, [UsersNext]_userVars
             PROVE  (ActorSigned /\ MayGive)'
    OBVIOUS
<1> USE DEF Admitted, Moves
<1>0. UsersTypeOK /\ ActorSigned /\ MayGive
      BY DEF GainInv
<1>1. CASE UNCHANGED userVars
      BY <1>0, <1>1
      DEF userVars, kept, ActorSigned, MayGive, CheckRoleValid
<1>2. ASSUME NEW c \in CmsCall, UsersStep(c) PROVE (ActorSigned /\ MayGive)'
  <2>1. signed \subseteq signed' /\ call' = call
        BY <1>2
        DEF UsersStep, Arrive, CanActivate, FindOther, CreateUser, WriteUser,
            SignIn, KeepToken, ProcessForgot, CheckForgotten, ResetPassword,
            Stops, kept, Sign
  <2>2. \A d \in CmsCall \ {c} : step'[d] = step[d] /\ actor'[d] = actor[d]
        BY <1>0, <1>2
        DEF UsersStep, UsersTypeOK, Arrive, CanActivate, FindOther, CreateUser,
            WriteUser, SignIn, KeepToken, ProcessForgot, CheckForgotten,
            ResetPassword, Stops
  <2>3. ASSUME Admitted(c)'
        PROVE  actor'[c] \in signed'
               /\ CheckRoleValid(actor'[c].role, call[c].body.role)
    <3>1. CASE CanActivate(c)
          BY <1>0, <2>1, <3>1 DEF CanActivate, UsersTypeOK, kept
    <3>2. CASE FindOther(c)
      <4>1. Admitted(c) /\ actor' = actor
            BY <3>2 DEF FindOther
      <4> QED BY <1>0, <2>1, <4>1 DEF ActorSigned, MayGive
    <3>3. CASE ~CanActivate(c) /\ ~FindOther(c)
      <4>1. step'[c] \notin {"find", "write"} \/ call[c].asks \notin Guarded
        <5>1. CASE Arrive(c)
          <6>1. CASE call[c].asks \in Guarded
                BY <1>0, <5>1, <6>1 DEF Arrive, UsersTypeOK
          <6> QED BY <6>1
        <5>2. CASE CreateUser(c) \/ WriteUser(c) \/ Stops(c) \/ KeepToken(c)
              BY <1>0, <5>2
              DEF CreateUser, WriteUser, Stops, KeepToken, UsersTypeOK
        <5>3. CASE SignIn(c) \/ ProcessForgot(c) \/ CheckForgotten(c)
                   \/ ResetPassword(c)
              BY <5>3
              DEF SignIn, ProcessForgot, CheckForgotten, ResetPassword, Guarded
        <5> QED BY <1>2, <3>3, <5>1, <5>2, <5>3 DEF UsersStep
      <4> QED BY <2>1, <2>3, <4>1
    <3> QED BY <3>1, <3>2, <3>3
  <2> QED BY <1>0, <2>1, <2>2, <2>3 DEF ActorSigned, MayGive, CheckRoleValid
<1>3. ASSUME NEW u \in CmsUser, TokenGone(u) PROVE (ActorSigned /\ MayGive)'
      BY <1>0, <1>3 DEF TokenGone, history, ActorSigned, MayGive, CheckRoleValid
<1> QED BY <1>1, <1>2, <1>3 DEF UsersNext

\* Nobody comes by a role that none of the first users could give, however
\* the calls of the back office, its stale tokens and its overtaken edits
\* interleave.
THEOREM NoRoleIsGained == UsersSpec => []NoRoleGained
<1>1. UsersInit => GainInv
      BY GainInit
<1>2. GainInv /\ [UsersNext]_userVars => GainInv'
      BY UsersStepTyped, GainKeepsRoles, GainKeepsActors DEF GainInv
<1>3. GainInv => NoRoleGained
      BY DEF GainInv
<1> QED BY <1>1, <1>2, <1>3, PTL DEF UsersSpec

-----------------------------------------------------------------------------
(* An edit or a deletion looks at the role of its target and writes later. *)
(* The invariant: whoever is past the look covers the role that is there   *)
(* now, or an edit of that user that ran beside it has given the role; and *)
(* two calls under way are recorded as having run beside each other.       *)

GaveBeside(c, role) ==
    \E d \in beside[c] : /\ call[d].asks = "edit" /\ step[d] = "done"
                         /\ call[d].target = call[c].target
                         /\ call[d].body.role = role

Excused(c) == /\ user[call[c].target] # NoUser
              /\ GaveBeside(c, user[call[c].target].role)

Looks(c) == step[c] = "write" /\ call[c].asks \in {"edit", "delete"}

Covering(c) == \/ actor[c].role = ADMIN
               \/ Excused(c)
               \/ /\ user[call[c].target] # NoUser
                  /\ Covers(actor[c].role, user[call[c].target].role)

LookedFirst == \A c \in CmsCall : Looks(c) => Covering(c)

BothBeside == \A c, d \in CmsCall :
                 c # d /\ UnderWay(c) /\ UnderWay(d) => d \in beside[c]

WrittenOver == \A c \in CmsCall : overwrote[c] # NoRole => step[c] = "done"

OverlapInv == /\ UsersTypeOK /\ LookedFirst /\ BothBeside /\ WrittenOver
              /\ UncoveredOnlyByOverlap

\* What a step of one call leaves of the others, and of itself.
LEMMA StepFrame ==
    ASSUME UsersTypeOK, NEW c \in CmsCall, UsersStep(c)
    PROVE  /\ call' = call
           /\ step[c] \notin Over
           /\ \A d \in CmsCall \ {c} :
                 /\ step'[d] = step[d] /\ actor'[d] = actor[d]
                 /\ overwrote'[d] = overwrote[d]
                 /\ beside[d] \subseteq beside'[d]
           /\ ~Arrive(c) => beside' = beside /\ UnderWay(c)
           /\ ~WriteUser(c) => overwrote' = overwrote
<1> USE DEF UsersTypeOK, Moves, UnderWay, Over, kept, history
<1>1. CASE Arrive(c)
  <2>1. ASSUME NEW d \in CmsCall \ {c} PROVE beside[d] \subseteq beside'[d]
        BY <1>1 DEF Arrive
  <2> QED BY <1>1, <2>1 DEF Arrive, WriteUser
<1>2. CASE CanActivate(c) \/ FindOther(c) \/ SignIn(c) \/ Stops(c)
      BY <1>2 DEF CanActivate, FindOther, SignIn, Stops
<1>3. CASE CreateUser(c) \/ WriteUser(c) \/ KeepToken(c) \/ ProcessForgot(c)
      BY <1>3 DEF CreateUser, WriteUser, KeepToken, ProcessForgot
<1>4. CASE CheckForgotten(c) \/ ResetPassword(c)
      BY <1>4 DEF CheckForgotten, ResetPassword
<1> QED BY <1>1, <1>2, <1>3, <1>4 DEF UsersStep

\* A role that was given beside a call stays given.
LEMMA GivenKept ==
    ASSUME UsersTypeOK, NEW c \in CmsCall, UsersStep(c),
           NEW d \in CmsCall, d # c \/ ~Arrive(c), NEW role, GaveBeside(d, role)
    PROVE  GaveBeside(d, role)'
<1>1. PICK e \in beside[d] : /\ call[e].asks = "edit" /\ step[e] = "done"
                            /\ call[e].target = call[d].target
                            /\ call[e].body.role = role
      BY DEF GaveBeside
<1>2. call' = call /\ e \in CmsCall \ {c} /\ step'[e] = "done"
      BY <1>1, StepFrame DEF UsersTypeOK, Over
<1>3. e \in beside'[d]
  <2>1. CASE d # c
        BY <1>1, <2>1, StepFrame
  <2>2. CASE ~Arrive(c)
    <3>1. beside' = beside
          BY <2>2, StepFrame
    <3> QED BY <1>1, <3>1
  <2> QED BY <2>1, <2>2
<1> QED BY <1>1, <1>2, <1>3 DEF GaveBeside

\* What it leaves of a call that has looked at its target.
LEMMA CoveringKept ==
    ASSUME OverlapInv, NEW c \in CmsCall, UsersStep(c),
           NEW d \in CmsCall \ {c}, Looks(d)
    PROVE  Covering(d)'
<1>0. UsersTypeOK /\ Covering(d) /\ call' = call /\ actor'[d] = actor[d]
      BY StepFrame DEF OverlapInv, LookedFirst
<1>1. CASE actor[d].role = ADMIN
      BY <1>0, <1>1 DEF Covering
<1>2. CASE actor[d].role # ADMIN
  <2>0. PICK t : t = call[d].target
        OBVIOUS
  <2>1. /\ user[t] # NoUser
        /\ \/ GaveBeside(d, user[t].role)
           \/ Covers(actor[d].role, user[t].role)
        BY <1>0, <1>2, <2>0 DEF Covering, Excused
  <2>2. call[d] \in Calling /\ call[c] \in Calling
        BY <1>0, CallTyped DEF UsersTypeOK
  <2>3. t \in CmsUser /\ user[t] \in UserRow
        BY <1>0, <2>0, <2>1, <2>2 DEF UsersTypeOK, Calling
  <2>4. CASE user'[t] # NoUser /\ user'[t].role = user[t].role
    <3>1. CASE GaveBeside(d, user[t].role)
      <4>0. PICK role : role = user[t].role
            OBVIOUS
      <4>1. GaveBeside(d, role)'
            BY <1>0, <3>1, <4>0, GivenKept DEF GaveBeside
      <4> QED BY <1>0, <2>0, <2>4, <4>0, <4>1 DEF Covering, Excused, GaveBeside
    <3>2. CASE Covers(actor[d].role, user[t].role)
          BY <1>0, <2>0, <2>4, <3>2 DEF Covering, Covers
    <3> QED BY <2>1, <3>1, <3>2
  <2>5. CASE /\ WriteUser(c) /\ call[c].asks = "edit" /\ call[c].target = t
             /\ call[c].body.role # NoRole
    <3>1. UnderWay(c) /\ UnderWay(d)
          BY <2>5 DEF WriteUser, Looks, UnderWay, Over
    <3>2. c \in beside'[d]
          BY <1>0, <3>1, StepFrame DEF OverlapInv, BothBeside
    <3>3. step'[c] = "done"
          BY <1>0, <2>5 DEF WriteUser, Moves, UsersTypeOK
    <3>4. user'[t] # NoUser /\ user'[t].role = call[c].body.role
      <4>1. user'[t] = Written(c, user[t])
            BY <1>0, <2>3, <2>5 DEF WriteUser, UsersTypeOK
      <4>2. Written(c, user[t]) \in UserRow
            BY <2>2, <2>3, <2>5
            DEF Written, UserRow, Calling, Body
      <4>3. Written(c, user[t]).role = call[c].body.role
            BY <2>3, <2>5 DEF Written, UserRow
      <4> QED BY <4>1, <4>2, <4>3, CmsUsersAssumption
    <3> QED BY <1>0, <2>0, <2>5, <3>2, <3>3, <3>4
            DEF Covering, Excused, GaveBeside
  <2>6. CASE WriteUser(c) /\ ~(/\ call[c].asks = "edit" /\ call[c].target = t
                               /\ call[c].body.role # NoRole)
    <3>1. user'[t] = user[t] \/ user'[t] = Written(c, user[t])
          BY <1>0, <2>3, <2>6 DEF WriteUser, UsersTypeOK
    <3>2. CASE user'[t] = user[t]
          BY <2>1, <2>4, <3>2
    <3>3. CASE user'[t] # user[t]
      <4>1. call[c].target = t /\ user'[t] = Written(c, user[t])
            BY <1>0, <2>3, <2>6, <3>1, <3>3 DEF WriteUser, UsersTypeOK
      <4>2. /\ Written(c, user[t]) \in UserRow
            /\ Written(c, user[t]).role = user[t].role
            BY <2>2, <2>3, <2>6, <4>1
            DEF WriteUser, Written, UserRow, Calling, Body
      <4> QED BY <2>4, <4>1, <4>2, CmsUsersAssumption
    <3> QED BY <3>2, <3>3
  <2>7. CASE ~WriteUser(c)
    <3>1. user'[t] = user[t]
          BY <1>0, <2>0, <2>1, <2>3, <2>7
          DEF UsersStep, UsersTypeOK, Arrive, CanActivate, FindOther,
              CreateUser, SignIn, KeepToken, ProcessForgot, CheckForgotten,
              ResetPassword, Stops
    <3> QED BY <2>1, <2>4, <3>1
  <2> QED BY <2>5, <2>6, <2>7
<1> QED BY <1>1, <1>2

\* A call that comes to its write has looked, or is an administrator's.
LEMMA CoveringGained ==
    ASSUME OverlapInv, NEW c \in CmsCall, UsersStep(c), Looks(c)'
    PROVE  Covering(c)'
<1>0. UsersTypeOK /\ call' = call
      BY StepFrame DEF OverlapInv
<1>1. CASE CanActivate(c)
  <2>1. actor'[c].role = ADMIN
        BY <1>0, <1>1
        DEF CanActivate, UsersTypeOK, Moves, Looks
  <2> QED BY <2>1 DEF Covering
<1>2. CASE FindOther(c)
  <2>0. call[c] \in Calling
        BY <1>0, CallTyped DEF UsersTypeOK
  <2> DEFINE t == call[c].target
  <2>1. user' = user /\ actor' = actor /\ MayTouch(actor[c].role, t)
        BY <1>0, <1>2 DEF FindOther, kept, Looks
  <2>2. t \in CmsUser /\ user[t] # NoUser /\ user[t].role \in Roles
        BY <1>0, <2>0, <2>1 DEF MayTouch, UsersTypeOK, UserRow, Calling
  <2>3. Covers(actor[c].role, user[t].role)
        BY <2>1, <2>2
        DEF MayTouch, CheckRoleValid, Covers, Roles, NoRole, ADMIN, MANAGER,
            EDITOR, USER
  <2> QED BY <1>0, <2>1, <2>2, <2>3 DEF Covering, Covers
<1>3. CASE Arrive(c)
      BY <1>0, <1>3 DEF Arrive, Looks, Moves, UsersTypeOK
<1>4. CASE SignIn(c) \/ KeepToken(c) \/ ProcessForgot(c) \/ Stops(c)
      BY <1>0, <1>4
      DEF SignIn, KeepToken, ProcessForgot, Stops, Looks, Moves, UsersTypeOK
<1>5. CASE CreateUser(c) \/ WriteUser(c) \/ CheckForgotten(c)
           \/ ResetPassword(c)
      BY <1>0, <1>5
      DEF CreateUser, WriteUser, CheckForgotten, ResetPassword, Looks, Moves,
          UsersTypeOK
<1> QED BY <1>1, <1>2, <1>3, <1>4, <1>5 DEF UsersStep

LEMMA OverlapInit == UsersInit => OverlapInv
<1> SUFFICES ASSUME UsersInit PROVE OverlapInv
    OBVIOUS
<1>1. UsersTypeOK
      BY UsersInitTyped
<1>2. LookedFirst /\ BothBeside /\ WrittenOver /\ UncoveredOnlyByOverlap
      BY DEF UsersInit, LookedFirst, Looks, BothBeside, UnderWay, WrittenOver,
             UncoveredOnlyByOverlap
<1> QED BY <1>1, <1>2 DEF OverlapInv

LEMMA OverlapStep ==
    ASSUME OverlapInv, NEW c \in CmsCall, UsersStep(c)
    PROVE  (LookedFirst /\ BothBeside /\ WrittenOver
              /\ UncoveredOnlyByOverlap)'
<1>0. UsersTypeOK /\ call' = call /\ step[c] \notin Over
      BY StepFrame DEF OverlapInv
<1>f. \A d \in CmsCall \ {c} : step'[d] = step[d] /\ beside[d] \subseteq beside'[d]
      BY <1>0, StepFrame
<1>1. LookedFirst'
  <2> SUFFICES ASSUME NEW d \in CmsCall, Looks(d)' PROVE Covering(d)'
      BY DEF LookedFirst
  <2>1. CASE d # c
        BY <1>0, <2>1, StepFrame, CoveringKept DEF Looks
  <2> QED BY <2>1, CoveringGained
<1>2. BothBeside'
  <2> SUFFICES ASSUME NEW d \in CmsCall, NEW e \in CmsCall, d # e,
                      UnderWay(d)', UnderWay(e)'
               PROVE  e \in beside'[d]
      BY DEF BothBeside
  <2>1. CASE Arrive(c)
    <3>1. CASE d = c
      <4>1. UnderWay(e)
            BY <1>f, <3>1 DEF UnderWay
      <4>2. beside'[c] = {x \in CmsCall : UnderWay(x)}
            BY <2>1 DEF Arrive
      <4> QED BY <3>1, <4>1, <4>2
    <3>2. CASE e = c
      <4>1. UnderWay(d)
            BY <1>f, <3>2 DEF UnderWay
      <4> QED BY <1>0, <2>1, <3>2, <4>1 DEF Arrive, UsersTypeOK
    <3>3. CASE d # c /\ e # c
          BY <3>3, StepFrame DEF UnderWay, OverlapInv, BothBeside
    <3> QED BY <3>1, <3>2, <3>3
  <2>2. CASE ~Arrive(c)
        BY <2>2, <1>0, StepFrame DEF UnderWay, OverlapInv, BothBeside
  <2> QED BY <2>1, <2>2
<1>3. WrittenOver'
  <2>1. CASE WriteUser(c)
        BY <1>0, <2>1, StepFrame
        DEF WriteUser, Moves, UsersTypeOK, OverlapInv, WrittenOver
  <2>2. CASE ~WriteUser(c)
        BY <1>0, <2>2, StepFrame DEF OverlapInv, WrittenOver, Over
  <2> QED BY <2>1, <2>2
<1>4. UncoveredOnlyByOverlap'
  <2> SUFFICES ASSUME NEW d \in CmsCall, overwrote'[d] # NoRole
               PROVE  Covers(actor[d].role, overwrote[d])'
                      \/ GaveBeside(d, overwrote[d])'
      BY DEF UncoveredOnlyByOverlap, GaveBeside, Covers
  <2>2. CASE d # c
    <3>0. PICK role : role = overwrote[d]
          OBVIOUS
    <3>1. overwrote'[d] = role /\ actor'[d] = actor[d]
          BY <1>0, <2>2, <3>0, StepFrame
    <3>2. Covers(actor[d].role, role) \/ GaveBeside(d, role)
          BY <3>0, <3>1 DEF OverlapInv, UncoveredOnlyByOverlap, GaveBeside
    <3>3. GaveBeside(d, role) => GaveBeside(d, role)'
          BY <1>0, <2>2, GivenKept DEF GaveBeside
    <3> QED BY <3>1, <3>2, <3>3 DEF Covers, GaveBeside
  <2>3. CASE d = c /\ ~WriteUser(c)
        BY <1>0, <2>3, StepFrame DEF OverlapInv, WrittenOver, Over
  <2>4. CASE d = c /\ WriteUser(c)
    <3>0. PICK t : t = call[c].target
          OBVIOUS
    <3>1. call[c] \in Calling
          BY <1>0, CallTyped DEF UsersTypeOK
    <3>2. t \in CmsUser /\ user[t] # NoUser /\ user[t].role \in Roles
          BY <1>0, <2>4, <3>0, <3>1
          DEF WriteUser, UsersTypeOK, UserRow, Calling
    <3>3. PICK role : role = user[t].role
          OBVIOUS
    <3>4. overwrote'[c] = role /\ actor' = actor
          BY <1>0, <2>4, <3>0, <3>3 DEF WriteUser, UsersTypeOK, kept
    <3>5. Covering(c)
          BY <2>4 DEF WriteUser, OverlapInv, LookedFirst, Looks
    <3>6. CASE actor[c].role = ADMIN
          BY <2>4, <3>2, <3>3, <3>4, <3>6 DEF Covers, ADMIN, Roles
    <3>7. CASE GaveBeside(c, role)
      <4>1. ~Arrive(c)
            BY <2>4 DEF Arrive, WriteUser
      <4>2. GaveBeside(c, role)'
            BY <1>0, <3>7, <4>1, GivenKept DEF GaveBeside
      <4> QED BY <2>4, <3>4, <4>2 DEF GaveBeside
    <3>8. CASE Covers(actor[c].role, role)
          BY <2>4, <3>4, <3>8 DEF Covers
    <3> QED BY <3>0, <3>3, <3>5, <3>6, <3>7, <3>8 DEF Covering, Excused
  <2> QED BY <2>2, <2>3, <2>4
<1> QED BY <1>1, <1>2, <1>3, <1>4

\* An edit or a deletion overwrites a role that its maker does not cover only
\* when an edit of the same user that ran beside it gave the user that role
\* (user.service.ts:182 and :202, :232 and :243).
THEOREM UncoveredIsOverlapped == UsersSpec => []UncoveredOnlyByOverlap
<1>1. UsersInit => OverlapInv
      BY OverlapInit
<1>2. OverlapInv /\ [UsersNext]_userVars => OverlapInv'
  <2> SUFFICES ASSUME OverlapInv, [UsersNext]_userVars PROVE OverlapInv'
      OBVIOUS
  <2>1. UsersTypeOK'
        BY UsersStepTyped DEF OverlapInv
  <2>2. CASE UNCHANGED userVars
        BY <2>1, <2>2
        DEF userVars, kept, history, OverlapInv, LookedFirst, Looks, Covering,
            Excused, GaveBeside, Covers, BothBeside, UnderWay, WrittenOver,
            UncoveredOnlyByOverlap
  <2>3. ASSUME NEW c \in CmsCall, UsersStep(c) PROVE OverlapInv'
        BY <2>1, <2>3, OverlapStep DEF OverlapInv
  <2>4. ASSUME NEW u \in CmsUser, TokenGone(u) PROVE OverlapInv'
        BY <2>1, <2>4
        DEF TokenGone, history, OverlapInv, LookedFirst, Looks, Covering,
            Excused, GaveBeside, Covers, BothBeside, UnderWay, WrittenOver,
            UncoveredOnlyByOverlap
  <2> QED BY <2>2, <2>3, <2>4 DEF UsersNext
<1>3. OverlapInv => UncoveredOnlyByOverlap
      BY DEF OverlapInv
<1> QED BY <1>1, <1>2, <1>3, PTL DEF UsersSpec

=============================================================================

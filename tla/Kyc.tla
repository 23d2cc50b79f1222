--------------------------------- MODULE Kyc ---------------------------------
(***************************************************************************)
(* Approval of an account's eKYC in the back office (AccountService of the *)
(* CMS): the rewards that sign-up left in PROCESSING are sent one by one   *)
(* to the wallet, and then the account is approved and counted for the one *)
(* who referred it.  The route has no lock: requests overlap.              *)
(*                                                                         *)
(* The wallet's APPROVE_KYC is outside this repository: it credits the     *)
(* receiver and makes the row a SUCCESS.  Whether it looks at the row's    *)
(* status first is not known, and both are possible here.                  *)
(***************************************************************************)
EXTENDS Integers, FiniteSets

CONSTANTS
    Account,
    Approval,   \* requests PATCH account/:id/kyc
    AccountOf,  \* [Approval -> Account]
    Row,        \* rewards in cashback_transaction, in the order of created_at
    Sender,     \* [Row -> Account \cup {NoAccount}]
    Receiver,   \* [Row -> Account]
    Alone,      \* rows of type NON_REFERRAL or PARTNER_BONUS
    Referrer,   \* [Account -> Account \cup {NoAccount}], account_referral
    NoAccount

ASSUME KycAssumption ==
    /\ IsFiniteSet(Account) /\ NoAccount \notin Account
    /\ AccountOf \in [Approval -> Account]
    /\ Row \subseteq Nat
    /\ Sender \in [Row -> Account \cup {NoAccount}]
    /\ Receiver \in [Row -> Account]
    /\ Alone \subseteq Row
    /\ \A t \in Row \ Alone : Sender[t] \in Account /\ Sender[t] # Receiver[t]
    /\ Referrer \in [Account -> Account \cup {NoAccount}]

VARIABLES
    approved,   \* accounts whose kycStatus is APPROVED
    status,     \* cashback_transaction.status
    totalKyc,   \* account_referral_stats.total_kyc
    pc,         \* next statement of each request
    todo,       \* rows a request has still to send to the wallet
    queue,      \* <<request, row>>: messages the wallet has yet to handle
    \* history variables
    credited,   \* <<request, row>>: the wallet's credits
    overlap     \* pairs of requests that were under way at once

dbVars == <<approved, totalKyc>>
walletVars == <<status, queue, credited>>
vars == <<dbVars, walletVars, pc, todo, overlap>>

Ended == {"done", "threw", "lost"}
Busy(r) == pc[r] \notin Ended \cup {"new"}

TypeOK ==
    /\ approved \subseteq Account
    /\ status \in [Row -> {"PROCESSING", "SUCCESS"}]
    /\ totalKyc \in [Account -> Nat]
    /\ pc \in [Approval -> Ended \cup
                           {"new", "find", "loop", "wallet", "notify"}]
    /\ todo \in [Approval -> SUBSET Row]
    /\ queue \subseteq Approval \X Row
    /\ credited \subseteq Approval \X Row
    /\ overlap \subseteq SUBSET Approval

Init ==
    /\ approved = {}
    /\ status = [t \in Row |-> "PROCESSING"]
    /\ totalKyc = [a \in Account |-> 0]
    /\ pc = [r \in Approval |-> "new"]
    /\ todo = [r \in Approval |-> {}]
    /\ queue = {}
    /\ credited = {}
    /\ overlap = {}

Goto(r, label) == pc' = [pc EXCEPT ![r] = label]

\* The other requests that are under way when r begins.
Beside(r) == {{r, s} : s \in {s \in Approval \ {r} : Busy(s)}}

-----------------------------------------------------------------------------
(* Plausible mistakes; see Wallet.                                         *)

\* A referral is paid as soon as one of the two accounts is approved.
Eligible_EitherEnd(t, a) == a \in {Sender[t], Receiver[t]}

\* The case of an account that has been referred is forgotten.
Eligible_SenderOnly(t, a) ==
    \/ Sender[t] = a /\ Receiver[t] \in approved
    \/ Receiver[t] = a /\ t \in Alone

\* An account that is approved already is not refused.
Load_Again(r) ==
    /\ pc[r] = "new"
    /\ Goto(r, "find")
    /\ overlap' = overlap \cup Beside(r)
    /\ UNCHANGED <<dbVars, walletVars, todo>>

\* The rows' status is not looked at.
FindPending_AnyStatus(r) ==
    /\ pc[r] = "find"
    /\ todo' = [todo EXCEPT ![r] = {t \in Row :
                   \/ Sender[t] = AccountOf[r] /\ Receiver[t] \in approved
                   \/ Receiver[t] = AccountOf[r]
                      /\ (t \in Alone \/ Sender[t] \in approved)}]
    /\ Goto(r, "loop")
    /\ UNCHANGED <<dbVars, walletVars, overlap>>

-----------------------------------------------------------------------------
(* changeKycStatus and processCashbackForAccount                           *)

\* Two reads: the account and its referral.
Load(r) ==
    /\ pc[r] = "new"
    /\ IF AccountOf[r] \in approved
       THEN Goto(r, "threw") /\ UNCHANGED overlap
       ELSE /\ Goto(r, "find")
            /\ overlap' = overlap \cup Beside(r)
    /\ UNCHANGED <<dbVars, walletVars, todo>>

\* What the loop asks of a row before it pays for the approval of a.
Eligible(t, a) ==
    \/ Sender[t] = a /\ Receiver[t] \in approved
    \/ Receiver[t] = a /\ Sender[t] \in approved
    \/ Receiver[t] = a /\ t \in Alone

\* One query reads the account's rows in PROCESSING and the status of both
\* ends of each; the loop over its result does not read them again.
FindPending(r) ==
    /\ pc[r] = "find"
    /\ todo' = [todo EXCEPT ![r] =
           {t \in Row : status[t] = "PROCESSING" /\ Eligible(t, AccountOf[r])}]
    /\ Goto(r, "loop")
    /\ UNCHANGED <<dbVars, walletVars, overlap>>

\* order by created_at
SendApproveKyc(r) ==
    /\ pc[r] = "loop"
    /\ \E t \in todo[r] :
          /\ \A u \in todo[r] : t <= u
          /\ todo' = [todo EXCEPT ![r] = @ \ {t}]
          /\ queue' = queue \cup {<<r, t>>}
    /\ Goto(r, "wallet")
    /\ UNCHANGED <<dbVars, status, credited, overlap>>

CreateNotification(r) ==
    /\ pc[r] = "notify"
    /\ Goto(r, "loop")
    /\ UNCHANGED <<dbVars, walletVars, todo, overlap>>

Counted(a) ==
    IF Referrer[a] = NoAccount THEN totalKyc
    ELSE [totalKyc EXCEPT ![Referrer[a]] = @ + 1]

\* One transaction: the statistics, a notification and the account.
Commit(r) ==
    /\ pc[r] = "loop"
    /\ todo[r] = {}
    /\ approved' = approved \cup {AccountOf[r]}
    /\ totalKyc' = Counted(AccountOf[r])
    /\ Goto(r, "done")
    /\ UNCHANGED <<walletVars, todo, overlap>>

\* A statement rejects; what the wallet has done stays.
StatementFails(r) ==
    /\ pc[r] \in {"find", "loop", "notify"}
    /\ Goto(r, "threw")
    /\ UNCHANGED <<dbVars, walletVars, todo, overlap>>

-----------------------------------------------------------------------------
(* The environment                                                         *)

\* The wallet's answer reaches the request, if it still waits.
Answer(r, label) ==
    IF pc[r] = "wallet" THEN Goto(r, label) ELSE UNCHANGED pc

\* An error may also follow the credit.
WalletApproves(r, t) ==
    /\ <<r, t>> \in queue
    /\ queue' = queue \ {<<r, t>>}
    /\ status' = [status EXCEPT ![t] = "SUCCESS"]
    /\ credited' = credited \cup {<<r, t>>}
    /\ Answer(r, "notify") \/ Answer(r, "threw")
    /\ UNCHANGED <<dbVars, todo, overlap>>

WalletRefuses(r, t) ==
    /\ <<r, t>> \in queue
    /\ queue' = queue \ {<<r, t>>}
    /\ Answer(r, "threw")
    /\ UNCHANGED <<dbVars, status, credited, todo, overlap>>

\* The CMS dies with its requests; the queue and the wallet do not.
Crash ==
    /\ \E r \in Approval : Busy(r)
    /\ pc' = [r \in Approval |-> IF Busy(r) THEN "lost" ELSE pc[r]]
    /\ UNCHANGED <<dbVars, walletVars, todo, overlap>>

-----------------------------------------------------------------------------
Next ==
    \/ \E r \in Approval :
          \/ Load(r) \/ FindPending(r) \/ SendApproveKyc(r)
          \/ CreateNotification(r) \/ Commit(r) \/ StatementFails(r)
    \/ \E r \in Approval, t \in Row :
          WalletApproves(r, t) \/ WalletRefuses(r, t)
    \/ Crash

Spec == Init /\ [][Next]_vars

-----------------------------------------------------------------------------
(* Properties                                                              *)

Ends(t) == IF t \in Alone THEN {Receiver[t]} ELSE {Sender[t], Receiver[t]}

Overlapped(a, b) ==
    \E r, s \in Approval :
        r # s /\ AccountOf[r] = a /\ AccountOf[s] = b /\ {r, s} \in overlap

\* Once both ends of a reward are approved, the reward has been paid, unless
\* the two were approved at the same time: then each request found the other
\* account not approved, left the reward alone, and no later approval of
\* either account is accepted.  (account.service.ts 104-108, 952-962)
RewardSettled ==
    \A t \in Row :
        Ends(t) \subseteq approved /\ status[t] = "PROCESSING" =>
            t \notin Alone /\ Overlapped(Sender[t], Receiver[t])

\* A reward is credited a second time only by a request that overlapped with
\* the one that credited it first, or when one of the two was lost in a crash
\* while its message was on its way.  (account.service.ts 931, 992-994)
CreditedAgainOnlyByOverlap ==
    \A r, s \in Approval, t \in Row :
        /\ r # s
        /\ <<r, t>> \in credited
        /\ <<s, t>> \in credited
        => {r, s} \in overlap \/ "lost" \in {pc[r], pc[s]}

\* Whatever fails after the wallet's credits, the account that is not being
\* approved had been approved before them; and a request that has come to its
\* end leaves none of its rewards behind.  (account.service.ts 134, 952-962)
CreditedForApproved ==
    \A r \in Approval, t \in Row :
        <<r, t>> \in credited =>
            /\ Ends(t) \ {AccountOf[r]} \subseteq approved
            /\ pc[r] = "done" => Ends(t) \subseteq approved

\* Failed and repeated approvals count an account once: the count differs from
\* the approved referrals only if approvals of one account overlapped, and then
\* it is too high.  (account.service.ts 132-144, 159)
KycCounted ==
    \A b \in Account :
        LET referred == {a \in approved : Referrer[a] = b} IN
        /\ totalKyc[b] >= Cardinality(referred)
        /\ totalKyc[b] > Cardinality(referred) =>
              \E a \in referred : Overlapped(a, a)

=============================================================================

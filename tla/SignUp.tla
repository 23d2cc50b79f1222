------------------------------- MODULE SignUp -------------------------------
(***************************************************************************)
(* Sign-up: the gateway's verifyPasscodeSignUp, the authenticator's        *)
(* validateSignUp and saveAccount, with the welcome reward or the referral *)
(* that saveAccount starts and does not await.  An account is named by the *)
(* request that creates it.                                                *)
(*                                                                         *)
(* The wallet is the queue and the handlers of module Wallet, seen from    *)
(* the sender: it credits the receivers that have a balance row, then      *)
(* records the credits, and may fail before or between.                    *)
(***************************************************************************)
EXTENDS Integers, FiniteSets

CONSTANTS
    Signup,     \* requests, and the accounts they create
    Old,        \* accounts that were complete before
    Token,      \* sign-up tokens
    TokenOf,    \* [Signup -> Token], the token of a request
    Ident,      \* phone numbers and e-mail addresses
    IdentOf,    \* [Signup -> Ident]
    Nobody,
    Referrer    \* [Signup -> Signup \cup Old \cup {Nobody}], referralBy

Account == Signup \cup Old

ASSUME SignUpAssumption ==
    /\ Signup \cap Old = {}
    /\ TokenOf \in [Signup -> Token]
    /\ IdentOf \in [Signup -> Ident]
    /\ Nobody \notin Account
    /\ Referrer \in [Signup -> Account \cup {Nobody}]
    /\ \A s \in Signup : Referrer[s] # s

VARIABLES
    tokens,     \* sign-up tokens in the cache
    needKyc,    \* config_commission.need_kyc; TRUE when there is no config
    accounts,   \* account
    rows,       \* accounts with their rows in cashback_available
    links,      \* account_referral, by referral_from
    stats,      \* account_referral_stats.total_referrals
    saveRows,   \* PROCESSING rows of cashback_transaction from saveAccount
    walletRows, \* rows of cashback_transaction from the wallet
    credited,   \* credits made by the wallet
    wallet,     \* the message that a sign-up sent to the wallet
    pc          \* next statement of each sign-up

dbVars == <<accounts, rows, links, stats, saveRows>>
walletVars == <<walletRows, credited, wallet>>
vars == <<tokens, needKyc, dbVars, walletVars, pc>>

Referred(s) == Referrer[s] # Nobody
Receivers(s) == {s} \cup ({Referrer[s]} \ {Nobody})
\* The credits of sign-up s: to the new account and to its referrer.
Legs(s) == {<<s, a>> : a \in Receivers(s)}

Ended == {"done", "refused", "failed", "typeError", "lost"}

Init ==
    /\ tokens = Token
    /\ needKyc \in BOOLEAN
    /\ accounts = Old
    /\ rows = Old
    /\ links = {}
    /\ stats = [a \in Account |-> 0]
    /\ saveRows = {}
    /\ walletRows = {}
    /\ credited = {}
    /\ wallet = [s \in Signup |-> "none"]
    /\ pc = [s \in Signup |-> "token"]

Goto(s, label) == pc' = [pc EXCEPT ![s] = label]

-----------------------------------------------------------------------------
(* Plausible mistakes; see Wallet.                                         *)

\* The identity is not unique in the database; only the count protects it.
Create_NotUnique(s) ==
    /\ pc[s] = "create"
    /\ Goto(s, "emit")
    /\ accounts' = accounts \cup {s}
    /\ UNCHANGED <<tokens, needKyc, rows, links, stats, saveRows, walletVars>>

\* rewardNewAccount sends the message to the wallet before it commits.
AfterConfig_SendFirst(s) == "send"

\* The statistics are not part of the transaction that makes the link.
Stats_Forgotten(s) == stats

-----------------------------------------------------------------------------
(* verifyPasscodeSignUp and validateSignUp                                 *)

\* The gateway looks the token up.  It later deletes another key than the
\* one it read, so that a token stays until it expires.
CheckToken(s) ==
    /\ pc[s] = "token"
    /\ Goto(s, IF TokenOf[s] \in tokens THEN "load" ELSE "refused")
    /\ UNCHANGED <<tokens, needKyc, dbVars, walletVars>>

TokenExpires(t) ==
    /\ t \in tokens
    /\ tokens' = tokens \ {t}
    /\ UNCHANGED <<needKyc, dbVars, walletVars, pc>>

\* The service reads the cached account again, and fails without it.
LoadAccount(s) ==
    /\ pc[s] = "load"
    /\ Goto(s, IF TokenOf[s] \in tokens THEN "referrer" ELSE "typeError")
    /\ UNCHANGED <<tokens, needKyc, dbVars, walletVars>>

FindReferrer(s) ==
    /\ pc[s] = "referrer"
    /\ Goto(s, IF Referrer[s] \in accounts \cup {Nobody} THEN "count"
                                                         ELSE "refused")
    /\ UNCHANGED <<tokens, needKyc, dbVars, walletVars>>

Taken(i) == \E s \in accounts \cap Signup : IdentOf[s] = i

CountIdent(s) ==
    /\ pc[s] = "count"
    /\ Goto(s, IF Taken(IdentOf[s]) THEN "refused" ELSE "create")
    /\ UNCHANGED <<tokens, needKyc, dbVars, walletVars>>

\* account.phone and account.email are unique columns.
Create(s) ==
    /\ pc[s] = "create"
    /\ \/ /\ ~ Taken(IdentOf[s])
          /\ Goto(s, "emit")
          /\ accounts' = accounts \cup {s}
       \/ Goto(s, "failed") /\ UNCHANGED accounts
    /\ UNCHANGED <<tokens, needKyc, rows, links, stats, saveRows, walletVars>>

\* The gateway emits SAVE_NEW_ACCOUNT and logs the user in.
EmitSave(s) ==
    /\ pc[s] = "emit"
    /\ Goto(s, "save")
    /\ UNCHANGED <<tokens, needKyc, dbVars, walletVars>>

-----------------------------------------------------------------------------
(* saveAccount, rewardNewAccount and insertAccountReferral                 *)

SaveAccount(s) ==
    /\ pc[s] = "save"
    /\ Goto(s, "config")
    /\ UNCHANGED <<tokens, needKyc, dbVars, walletVars>>

\* Without KYC a referral is paid before the account is saved: the version
\* of each balance is taken from rows that saveAccount has yet to create.
AfterConfig(s) ==
    IF Referred(s) /\ ~ needKyc
    THEN IF Receivers(s) \subseteq rows THEN "send" ELSE "typeError"
    ELSE "commit"

ReadConfig(s) ==
    /\ pc[s] = "config"
    /\ Goto(s, AfterConfig(s))
    /\ UNCHANGED <<tokens, needKyc, dbVars, walletVars>>

Stats(s) ==
    IF Referred(s) THEN [stats EXCEPT ![Referrer[s]] = @ + 1] ELSE stats

\* bulkOps in one transaction.
Commit(s) ==
    /\ pc[s] = "commit"
    /\ \/ /\ rows' = rows \cup {s}
          /\ stats' = Stats(s)
          /\ links' = IF needKyc /\ Referred(s) THEN links \cup {s} ELSE links
          /\ saveRows' = IF needKyc THEN saveRows \cup Legs(s) ELSE saveRows
          /\ Goto(s, IF Referred(s) THEN "done" ELSE "send")
       \/ Goto(s, "failed") /\ UNCHANGED <<rows, stats, links, saveRows>>
    /\ UNCHANGED <<tokens, needKyc, accounts, walletVars>>

Send(s) ==
    /\ pc[s] = "send"
    /\ Goto(s, "wait")
    /\ wallet' = [wallet EXCEPT ![s] = "queued"]
    /\ UNCHANGED <<tokens, needKyc, dbVars, walletRows, credited>>

\* The wallet answers; a referral's bulkOps are still to be committed.
Answered(s) ==
    /\ pc[s] = "wait"
    /\ \/ /\ wallet[s] = "done"
          /\ Goto(s, IF Referred(s) THEN "commit" ELSE "done")
       \/ /\ wallet[s] = "failed"
          /\ Goto(s, "failed")
    /\ UNCHANGED <<tokens, needKyc, dbVars, walletVars>>

\* The authenticator dies with every handler it runs.
Crash ==
    /\ \E s \in Signup : pc[s] \notin Ended \cup {"token", "emit"}
    /\ pc' = [s \in Signup |-> IF pc[s] \in Ended \cup {"token", "emit"}
                               THEN pc[s] ELSE "lost"]
    /\ UNCHANGED <<tokens, needKyc, dbVars, walletVars>>

-----------------------------------------------------------------------------
(* The wallet                                                              *)

WalletCredits(s) ==
    /\ wallet[s] = "queued"
    /\ IF Receivers(s) \subseteq rows
       THEN /\ credited' = credited \cup Legs(s)
            /\ wallet' = [wallet EXCEPT ![s] = "credited"]
       ELSE /\ wallet' = [wallet EXCEPT ![s] = "failed"]
            /\ UNCHANGED credited
    /\ UNCHANGED <<tokens, needKyc, dbVars, walletRows, pc>>

WalletRecords(s) ==
    /\ wallet[s] = "credited"
    /\ walletRows' = walletRows \cup Legs(s)
    /\ links' = IF Referred(s) THEN links \cup {s} ELSE links
    /\ wallet' = [wallet EXCEPT ![s] = "done"]
    /\ UNCHANGED <<tokens, needKyc, accounts, rows, stats, saveRows,
                   credited, pc>>

WalletFails(s) ==
    /\ wallet[s] \in {"queued", "credited"}
    /\ wallet' = [wallet EXCEPT ![s] = "failed"]
    /\ UNCHANGED <<tokens, needKyc, dbVars, walletRows, credited, pc>>

-----------------------------------------------------------------------------

Next ==
    \/ \E t \in Token : TokenExpires(t)
    \/ \E s \in Signup :
          \/ CheckToken(s) \/ LoadAccount(s) \/ FindReferrer(s)
          \/ CountIdent(s) \/ Create(s) \/ EmitSave(s)
          \/ SaveAccount(s) \/ ReadConfig(s) \/ Commit(s)
          \/ Send(s) \/ Answered(s)
          \/ WalletCredits(s) \/ WalletRecords(s) \/ WalletFails(s)
    \/ Crash

Spec == Init /\ [][Next]_vars

-----------------------------------------------------------------------------
(* Properties                                                              *)

TypeOK ==
    /\ tokens \subseteq Token
    /\ needKyc \in BOOLEAN
    /\ accounts \subseteq Account
    /\ rows \subseteq Account
    /\ links \subseteq Signup
    /\ stats \in [Account -> Nat]
    /\ saveRows \subseteq Signup \X Account
    /\ walletRows \subseteq Signup \X Account
    /\ credited \subseteq Signup \X Account
    /\ wallet \in [Signup -> {"none", "queued", "credited", "done", "failed"}]
    /\ pc \in [Signup -> Ended \cup
                  {"token", "load", "referrer", "count", "create", "emit",
                   "save", "config", "commit", "send", "wait"}]

\* The rewards of a person's sign-ups: credited by the wallet, or waiting in
\* a PROCESSING row of saveAccount that the approval of the eKYC pays.
RewardsOf(i) ==
    LET Own == {s \in Signup : IdentOf[s] = i}
        Of(pairs) == {s \in Own : \E a \in Account : <<s, a>> \in pairs}
    IN  {"credited"} \X Of(credited) \cup {"waiting"} \X Of(saveRows)

\* The sign-up token survives its use and two requests can pass the count at
\* once; still a person is rewarded for one account only.  That account is
\* rewarded once, but for one without a referrer where eKYC is needed: it has
\* a waiting reward and may be credited another (RewardAfterKyc).
RewardOnce ==
    \A i \in Ident : \A x, y \in RewardsOf(i) :
        /\ x[2] = y[2]
        /\ x # y => needKyc /\ ~ Referred(x[2])

\* The note of rewardNewAccount on the row it leaves in PROCESSING: "the
\* reward takes effect after the eKYC".  So the wallet has not credited it
\* when the account signs up.  It does not hold: rewardNewAccount sends it.
RewardAfterKyc ==
    \A s \in Signup : <<s, s>> \in saveRows => <<s, s>> \notin credited

\* A message that saveAccount sends to the wallet finds the balance rows of
\* its receivers, although saveAccount does not await the reward and the
\* rows are created by a transaction of the reward's own.
WalletFindsRows ==
    \A s \in Signup : wallet[s] # "none" => Receivers(s) \subseteq rows

\* account_referral_stats counts the referrals of account_referral, however
\* the sign-ups of one referrer interleave and wherever they fail.
StatsMatchLinks ==
    \A a \in Account :
        stats[a] = Cardinality({s \in links : Referrer[s] = a})

\* The comment at saveAccount's call of insertAccountReferral: it links the
\* new account with its referrer.  It does not hold without KYC.
ReferralLinked ==
    \A s \in accounts \cap Signup :
        Referred(s) /\ pc[s] \in {"done", "typeError"} => s \in links

=============================================================================
